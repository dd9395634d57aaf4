-------------------------------- MODULE Miner --------------------------------
(***************************************************************************)
(* The miner: request_block_template and create_block_template run by      *)
(* several threads at once, the worker threads that use the template, and  *)
(* handle_block_found, while the chain moves under them.                   *)
(*                                                                         *)
(* A block is its id.  The chain's own rules are those of Core; here other *)
(* nodes' blocks extend the chain or replace its end, always by blocks     *)
(* that were not on it before.  A template records the tip that each of    *)
(* its parts was made from.                                                *)
(***************************************************************************)
EXTENDS Integers, Sequences, FiniteSets

CONSTANTS
  Workers,    \* th_local_index of the worker threads
  Requesters, \* which of the two other threads ask for templates
  PosFrom,    \* dpos_switch_block: the height of the first DPoS block
  Ours,       \* <<tip, slot>>: the delegate after tip in that slot is this node's
  MaxBlocks,  \* bound on the number of blocks
  MaxSlot,    \* bound on the slots that pass after one block
  MaxNo       \* template numbers above it are told apart only by being new

\* The thread that runs on_idle, and one that handles the blocks of peers.
Idle == -1
Net == -2
Threads == Workers \cup {Idle, Net}

MinerAssumption ==
  /\ Requesters \subseteq {Idle, Net}
  /\ 0 \in Workers /\ Workers \subseteq Nat
  /\ PosFrom \in Nat \ {0}
  /\ {MaxBlocks, MaxSlot, MaxNo} \subseteq Nat \ {0}
  /\ Ours \subseteq (1..MaxBlocks) \X (1..MaxSlot)

VARIABLES
  chain,        \* the main chain: ids, genesis first
  fresh,        \* number of ids used so far
  slot,         \* slots since the tip; 0 before the minimum block spacing
  m_template,
  m_template_no,
  m_pausers_count,
  pc,           \* pc[t]: where thread t is
  after,        \* after[t]: where it goes when its request_block_template returns
  bl,           \* bl[t]: the template it is making
  b,            \* b[w]: the block worker w works on
  local_template_ver,
  added,        \* added[w]: id of its block in the main chain, 0 if it was not added
  relayed       \* history: the blocks found here that were sent to the peers

vars == <<chain, fresh, slot, m_template, m_template_no, m_pausers_count, pc, after, bl, b,
          local_template_ver, added, relayed>>

Tip == chain[Len(chain)]
InPosEra == Len(chain) >= PosFrom

(***************************************************************************)
(* Heights and contents aside, a block under construction: the tip it was  *)
(* put on, the one its transactions were chosen on, and for a DPoS block   *)
(* the slot of its timestamp and whether signing_delegate_id is ours.      *)
(***************************************************************************)
NoBlock == [pos |-> FALSE, prev |-> 0, slot |-> 0, picked_at |-> 0, ours |-> FALSE]
OldNo == MaxNo + 1   \* a number no longer given out

Init ==
  /\ chain = <<1>> /\ fresh = 1 /\ slot = 0
  /\ m_template = NoBlock /\ m_template_no = 0 /\ m_pausers_count = 0
  /\ pc = [t \in Threads |-> IF t \in Workers THEN "loop" ELSE "rest"]
  /\ after = [t \in Threads |-> "rest"]
  /\ bl = [t \in Threads |-> NoBlock]
  /\ b = [w \in Workers |-> NoBlock]
  /\ local_template_ver = [w \in Workers |-> 0]
  /\ added = [w \in Workers |-> 0]
  /\ relayed = {}

world == <<chain, fresh, slot>>
published == <<m_template, m_template_no, local_template_ver>>
working == <<b, added, relayed>>

Goto(t, place) == pc' = [pc EXCEPT ![t] = place]

-----------------------------------------------------------------------------
(* request_block_template, run by thread t. *)

Request(t, then) ==
  /\ pc' = [pc EXCEPT ![t] = "info"]
  /\ after' = [after EXCEPT ![t] = then]

\* The request comes to nothing: the template will be cleared.
Fail(t) == pc' = [pc EXCEPT ![t] = "clear"] /\ bl' = [bl EXCEPT ![t] = NoBlock]

(***************************************************************************)
(* get_next_block_info and the checks on what it says.                     *)
(***************************************************************************)
GetNextBlockInfo(t) ==
  /\ pc[t] = "info"
  /\ IF InPosEra /\ <<Tip, slot>> \notin Ours
     THEN Fail(t)
     ELSE Goto(t, "tail") /\ bl' = [bl EXCEPT ![t] = [NoBlock EXCEPT !.pos = InPosEra]]
  /\ UNCHANGED <<world, published, m_pausers_count, after, working>>

(***************************************************************************)
(* create_block_template, under the chain's lock: it fails when the era is *)
(* not the one asked for, or when it is too early for a DPoS block.        *)
(***************************************************************************)
ReadTail(t) ==
  /\ pc[t] = "tail"
  /\ IF bl[t].pos # InPosEra \/ (bl[t].pos /\ slot = 0)
     THEN Fail(t)
     ELSE Goto(t, "fill") /\ bl' = [bl EXCEPT ![t].prev = Tip, ![t].slot = slot]
  /\ UNCHANGED <<world, published, m_pausers_count, after, working>>

(***************************************************************************)
(* fill_block_template, under the pool's lock, which keeps the chain still.*)
(***************************************************************************)
FillBlockTemplate(t) ==
  /\ pc[t] = "fill"
  /\ bl' = [bl EXCEPT ![t].picked_at = Tip]
  /\ Goto(t, IF bl[t].pos THEN "signer" ELSE "set")
  /\ UNCHANGED <<world, published, m_pausers_count, after, working>>

(***************************************************************************)
(* The signing delegate for the timestamp of the block, after the block at *)
(* the end of the chain, read without the lock.  When that is no longer    *)
(* the block's parent, it may be too early after it, and the delegate may  *)
(* be any.  A read while a block is being added may find no block.         *)
(***************************************************************************)
SigningDelegate(t) ==
  /\ pc[t] = "signer"
  /\ \/ (Tip # bl[t].prev \/ \E u \in Threads : pc[u] = "add") /\ Fail(t)
     \/ \E mine \in IF Tip = bl[t].prev THEN {(<<Tip, bl[t].slot>> \in Ours)} ELSE BOOLEAN :
          bl' = [bl EXCEPT ![t].ours = mine] /\ Goto(t, "set")
  /\ UNCHANGED <<world, published, m_pausers_count, after, working>>

Returns(t) ==
  /\ Goto(t, after[t])
  /\ bl' = [bl EXCEPT ![t] = NoBlock]
  /\ after' = [after EXCEPT ![t] = "rest"]

ClearBlockTemplate(t) ==
  /\ pc[t] = "clear"
  /\ m_template' = NoBlock
  /\ m_template_no' = 0
  /\ Returns(t)
  /\ UNCHANGED <<world, local_template_ver, m_pausers_count, working>>

\* A mutant of SetBlockTemplate: the parent is brought up to date at the last moment.
SetBlockTemplate_Rebased(t) ==
  /\ pc[t] = "set"
  /\ m_template' = [bl[t] EXCEPT !.prev = Tip]
  /\ m_template_no' = IF m_template_no < MaxNo THEN m_template_no + 1 ELSE MaxNo
  /\ UNCHANGED local_template_ver
  /\ Returns(t)
  /\ UNCHANGED <<world, m_pausers_count, working>>

(***************************************************************************)
(* The size of the miner transaction may not be met in ten tries.          *)
(***************************************************************************)
ConstructMinerTxFails(t) ==
  /\ pc[t] = "set"
  /\ Fail(t)
  /\ UNCHANGED <<world, published, m_pausers_count, after, working>>

(***************************************************************************)
(* The number grows with each template; it starts again from 1 after a     *)
(* clear_block_template, so a worker can meet its old number again.        *)
(***************************************************************************)
SetBlockTemplate(t) ==
  /\ pc[t] = "set"
  /\ m_template' = bl[t]
  /\ IF m_template_no < MaxNo
     THEN m_template_no' = m_template_no + 1 /\ UNCHANGED local_template_ver
     ELSE /\ m_template_no' = MaxNo
          /\ local_template_ver' = [w \in Workers |->
               IF local_template_ver[w] = MaxNo THEN OldNo ELSE local_template_ver[w]]
  /\ Returns(t)
  /\ UNCHANGED <<world, m_pausers_count, working>>

RequestStep(t) ==
  \/ GetNextBlockInfo(t) \/ ReadTail(t) \/ FillBlockTemplate(t) \/ SigningDelegate(t)
  \/ ConstructMinerTxFails(t) \/ ClearBlockTemplate(t) \/ SetBlockTemplate(t)

-----------------------------------------------------------------------------
(* worker_thread and handle_block_found, run by worker w. *)

(***************************************************************************)
(* One turn of the loop up to the use of the block: the template is copied *)
(* when its number differs from the worker's.                              *)
(***************************************************************************)
Poll(w) ==
  LET renew == local_template_ver[w] # m_template_no
      block == IF renew THEN m_template ELSE b[w]
      ver == m_template_no
  IN  /\ pc[w] = "loop"
      /\ m_pausers_count = 0
      /\ b' = [b EXCEPT ![w] = block]
      /\ local_template_ver' = [local_template_ver EXCEPT ![w] = ver]
      /\ CASE ver = 0               -> Request(w, "loop")
           [] ver # 0 /\ block.pos /\ w > 0 -> Goto(w, "ended") /\ UNCHANGED after
           [] OTHER                 -> Goto(w, "try") /\ UNCHANGED after
      /\ UNCHANGED <<world, m_template, m_template_no, m_pausers_count, bl, added, relayed>>

(***************************************************************************)
(* A DPoS block is signed, another is hashed with the next nonce.  No      *)
(* block is found past the bound on blocks.                                *)
(***************************************************************************)
Try(w) ==
  /\ pc[w] = "try"
  /\ Goto(w, "loop") \/ (fresh < MaxBlocks /\ Goto(w, "found"))
  /\ UNCHANGED <<world, published, m_pausers_count, after, bl, working>>

(***************************************************************************)
(* handle_block_found: the miner is paused, the block is added, and the    *)
(* template is requested anew, "anyway".                                   *)
(***************************************************************************)
HandleBlockFound(w) ==
  /\ pc[w] = "found"
  /\ m_pausers_count' = m_pausers_count + 1
  /\ Goto(w, "add")
  /\ UNCHANGED <<world, published, after, bl, working>>

(***************************************************************************)
(* add_new_block on the found block.  On the tip, check_pow_pos wants the  *)
(* delegate of the slot and its signature; transactions chosen on another  *)
(* tip may be invalid.  Elsewhere the block is kept as an alternative.     *)
(***************************************************************************)
AddNewBlock(w) ==
  LET fits == /\ b[w].prev = Tip
              /\ b[w].pos = InPosEra
              /\ b[w].pos => b[w].ours /\ <<Tip, b[w].slot>> \in Ours
  IN  /\ pc[w] = "add"
      /\ \/ /\ fits
            /\ fresh < MaxBlocks
            /\ chain' = Append(chain, fresh + 1)
            /\ fresh' = fresh + 1
            /\ slot' \in 0..MaxSlot
            /\ added' = [added EXCEPT ![w] = fresh + 1]
         \/ /\ fits => b[w].picked_at # Tip \/ fresh = MaxBlocks
            /\ added' = [added EXCEPT ![w] = 0]
            /\ UNCHANGED world
      /\ Request(w, "resume")
      /\ UNCHANGED <<published, m_pausers_count, bl, b, relayed>>

(***************************************************************************)
(* The miner is resumed, and a block that went into the main chain is sent *)
(* to the peers: unless it has left the chain and some of its transactions *)
(* are in neither the chain nor the pool.                                  *)
(***************************************************************************)
Relay(w) ==
  LET main == \E i \in 1..Len(chain) : chain[i] = added[w]
  IN  /\ pc[w] = "resume"
      /\ m_pausers_count' = m_pausers_count - 1
      /\ \/ /\ added[w] # 0
            /\ relayed' = relayed \cup {[block |-> b[w], id |-> added[w], main |-> main]}
         \/ /\ added[w] # 0 => ~main
            /\ UNCHANGED relayed
      /\ Goto(w, "loop")
      /\ UNCHANGED <<world, published, after, bl, b, added>>

-----------------------------------------------------------------------------
(* The other threads. *)

OnIdle ==
  /\ Idle \in Requesters
  /\ pc[Idle] = "rest"
  /\ Request(Idle, "rest")
  /\ UNCHANGED <<world, published, m_pausers_count, bl, working>>

Pause ==
  /\ pc[Net] = "rest"
  /\ m_pausers_count' = m_pausers_count + 1
  /\ Goto(Net, "add")
  /\ UNCHANGED <<world, published, after, bl, working>>

(***************************************************************************)
(* A peer's blocks change the main chain: pop blocks go and push come.     *)
(* handle_notify_new_block then asks for a template, and                   *)
(* handle_response_get_objects does not.                                   *)
(***************************************************************************)
ChainMoves(pop, push) ==
  /\ pc[Net] = "add"
  /\ pop < Len(chain) /\ pop < push
  /\ fresh + push <= MaxBlocks
  /\ chain' = SubSeq(chain, 1, Len(chain) - pop) \o [i \in 1..push |-> fresh + i]
  /\ fresh' = fresh + push
  /\ slot' \in 0..MaxSlot
  /\ (Net \in Requesters /\ Request(Net, "resume")) \/ (Goto(Net, "resume") /\ UNCHANGED after)
  /\ UNCHANGED <<published, m_pausers_count, bl, working>>

ChainStays ==
  /\ pc[Net] = "add"
  /\ Goto(Net, "resume")
  /\ UNCHANGED <<world, published, m_pausers_count, after, bl, working>>

Resume ==
  /\ pc[Net] = "resume"
  /\ m_pausers_count' = m_pausers_count - 1
  /\ Goto(Net, "rest")
  /\ UNCHANGED <<world, published, after, bl, working>>

Tick ==
  /\ slot < MaxSlot
  /\ slot' = slot + 1
  /\ UNCHANGED <<chain, fresh, published, m_pausers_count, pc, after, bl, working>>

WorkerStep(w) == Try(w) \/ HandleBlockFound(w) \/ AddNewBlock(w) \/ Relay(w)

Next ==
  \/ \E t \in Threads : RequestStep(t)
  \/ \E w \in Workers : Poll(w) \/ WorkerStep(w)
  \/ OnIdle
  \/ Pause \/ (\E pop \in 0..1, push \in 1..2 : ChainMoves(pop, push)) \/ ChainStays \/ Resume
  \/ Tick

Spec == Init /\ [][Next]_vars

(***************************************************************************)
(* Threads go on and on_idle is called for ever.  A worker that looks over *)
(* and over meets a moment when nobody pauses.                             *)
(***************************************************************************)
Fairness ==
  /\ \A t \in Threads : WF_vars(RequestStep(t))
  /\ \A w \in Workers : SF_vars(Poll(w)) /\ WF_vars(WorkerStep(w))
  /\ WF_vars(OnIdle)
  /\ WF_vars(ChainStays \/ Resume)

FairSpec == Spec /\ Fairness

-----------------------------------------------------------------------------
(* Properties. *)

Block == [pos : BOOLEAN, prev : 0..MaxBlocks, slot : 0..MaxSlot, picked_at : 0..MaxBlocks,
          ours : BOOLEAN]

Pausing == {t \in Threads : pc[t] \in {"add", "resume"} \/ after[t] = "resume"}

(***************************************************************************)
(* The types, and with them that pauses and resumes balance: the counter   *)
(* is the number of threads between the two, and never needs the repair    *)
(* that resume() has for "Unexpected miner::resume() called".              *)
(***************************************************************************)
MinerTypeOK ==
  /\ fresh \in 1..MaxBlocks /\ slot \in 0..MaxSlot
  /\ m_template \in Block /\ m_template_no \in 0..MaxNo
  /\ m_pausers_count = Cardinality(Pausing)
  /\ bl \in [Threads -> Block] /\ b \in [Workers -> Block]
  /\ local_template_ver \in [Workers -> 0..OldNo]
  /\ added \in [Workers -> 0..MaxBlocks]

(***************************************************************************)
(* create_block_template lets the lock go between the parts of a template, *)
(* so its parts can be of different chains.  Such a block never extends    *)
(* the main chain: if a block found here was sent out, its transactions    *)
(* were chosen on the tip it was put on, and a DPoS block is this node's   *)
(* to sign.                                                                *)
(***************************************************************************)
FoundIsWhole ==
  \A r \in relayed : /\ r.block.picked_at = r.block.prev
                     /\ r.block.pos => <<r.block.prev, r.block.slot>> \in Ours

(***************************************************************************)
(* A template that a slow thread publishes late, or whose number a worker  *)
(* has seen before, makes the worker find a second block on a parent; the  *)
(* peers never see two blocks of this node on one parent.                  *)
(***************************************************************************)
OneBlockPerParent ==
  \A r, s \in relayed : r.block.prev = s.block.prev => r.id = s.id

Settled(i) ==
  Tip = i /\ \A t \in Threads : pc[t] = "clear" => InPosEra /\ <<Tip, slot>> \notin Ours

(***************************************************************************)
(* Whatever the threads did to the template while the chain moved, once it *)
(* has stopped moving and templates are no longer cleared because they     *)
(* could not be made, the workers leave the old template: each comes to    *)
(* work on the tip, or on nothing.                                         *)
(***************************************************************************)
WorkersCatchUp ==
  \A i \in 1..MaxBlocks :
    <>[]Settled(i) =>
      \A w \in Workers : <>[](pc[w] = "ended" \/ local_template_ver[w] = 0 \/ b[w].prev = i)

(***************************************************************************)
(* The comment in worker_thread, "if we here, delegate address is ours and *)
(* it is time": the block a worker signs names this node's delegate.       *)
(***************************************************************************)
DelegateIsOurs ==
  \A w \in Workers : pc[w] = "try" /\ b[w].pos => b[w].ours

(***************************************************************************)
(* The message of handle_block_found, "seems that reorganize just happened *)
(* after that, do not relay this block": what is relayed is on the main    *)
(* chain.                                                                  *)
(***************************************************************************)
RelayedIsMain == \A r \in relayed : r.main

=============================================================================
