-------------------------------- MODULE Sync --------------------------------
(***************************************************************************)
(* Synchronisation of one node with its peers: the connection contexts and *)
(* the handlers of t_cryptonote_protocol_handler, with one queue of        *)
(* messages in each direction of a connection.  The peers run the same     *)
(* code: they answer as handle_request_chain and handle_request_get_objects*)
(* do.                                                                     *)
(*                                                                         *)
(* A block is the path of choices that leads to it from the genesis block, *)
(* which is the empty path; so a block is also the chain that it ends.     *)
(* Of the signed hashes only the messages they cause are kept.             *)
(***************************************************************************)
EXTENDS Integers, Sequences, SequencesExt, FiniteSets

CONSTANTS
  Peers,
  Difficulty,    \* Difficulty[l]: of a block that chooses l
  MaxHeight,     \* bound on the height of a chain
  Chunk,         \* BLOCKS_SYNCHRONIZING_DEFAULT_COUNT
  IdsCount,      \* BLOCKS_IDS_SYNCHRONIZING_DEFAULT_COUNT
  DoBoulderhash, \* the node computes the proof of work itself
  MaxAsks,       \* bound on the requests for signed hashes of blocks it has
  MaxMoves       \* bound on how often the chain of a peer changes

ASSUME SyncAssumption ==
  /\ {MaxHeight, Chunk, IdsCount, MaxMoves} \subseteq Nat \ {0}
  /\ IdsCount > 1
  /\ DoBoulderhash \in BOOLEAN /\ MaxAsks \in Nat

Blocks == BoundedSeq(DOMAIN Difficulty, MaxHeight)
Genesis == <<>>
Weight(c) == FoldSeq(LAMBDA l, w : w + Difficulty[l], 0, c)
Height(c) == Len(c) + 1   \* get_current_blockchain_height

VARIABLES
  have,    \* m_blocks_by_hash: the blocks of the node
  main,    \* its main chain
  remote,  \* remote[p]: the main chain of p
  ctx,     \* ctx[p]: the connection context
  to,      \* to[p]: messages under way to p
  from,    \* from[p]: messages under way from p
  asks,    \* number of requests for signed hashes so far
  moves,   \* number of changes of the peers' chains so far
  events   \* history: what a handler met that it calls an error

vars == <<have, main, remote, ctx, to, from, asks, moves, events>>

Closed == [state |-> "closed", needed |-> <<>>, requested |-> {}, remote_height |-> 0,
           last_response |-> 0, callbacks |-> 0, work |-> <<>>, busy |-> FALSE,
           idle_after |-> FALSE, learned |-> {}]

Init ==
  /\ have = {Genesis} /\ main = Genesis
  /\ remote \in [Peers -> {<<l>> : l \in DOMAIN Difficulty}]
  /\ ctx = [p \in Peers |-> Closed]
  /\ to = [p \in Peers |-> <<>>] /\ from = [p \in Peers |-> <<>>]
  /\ asks = 0 /\ moves = 0
  /\ events = {}

(***************************************************************************)
(* Messages.  The history of get_short_chain_history is, on chains this    *)
(* short, all of the main chain.                                           *)
(***************************************************************************)
RequestChain(chain) == [type |-> "request_chain", ids |-> {SubSeq(chain, 1, i) : i \in 0..Len(chain)}]
RequestObjects(ids) == [type |-> "request_objects", ids |-> ids]
ChainEntry(start, ids, total) == [type |-> "chain_entry", start |-> start, ids |-> ids, total |-> total]
Objects(blocks, unsent, height) ==
  [type |-> "objects", blocks |-> blocks, unsent |-> unsent, height |-> height]
NewBlock(b) == [type |-> "new_block", block |-> b]
SyncData(c) == [type |-> "sync_data", top |-> c, height |-> Height(c)]

-----------------------------------------------------------------------------
(* The handlers' common parts, as functions of the context c. *)

Result(c, out, error) == [ctx |-> c, out |-> out, error |-> error]

EnterIdle(c) == [c EXCEPT !.state = "idle", !.needed = <<>>, !.requested = {}]

\* A mutant of NextChunk: the ids are requested from the last to the first.
NextChunk_Backwards(ids) == Reverse(SubSeq(ids, 1, IF Len(ids) > Chunk THEN Chunk ELSE Len(ids)))

NextChunk(ids) == SubSeq(ids, 1, IF Len(ids) > Chunk THEN Chunk ELSE Len(ids))

MoreIds(c) == c.last_response < c.remote_height - 1

Complete(c) == c.last_response = c.remote_height - 1 /\ c.needed = <<>> /\ c.requested = {}

(***************************************************************************)
(* request_missing_objects: known and chain are the node's blocks and main *)
(* chain at the call, hashes says that signed hashes are asked for.        *)
(***************************************************************************)
RequestMissingObjects(c, check, hashes, only, known, chain) ==
  LET wanted == IF check THEN SelectSeq(c.needed, LAMBDA b : b \notin known) ELSE c.needed
      asked == NextChunk(wanted)
      next == [c EXCEPT !.needed = SubSeq(wanted, Len(asked) + 1, Len(wanted)),
                        !.requested = @ \cup ToSet(asked)]
      get == IF wanted # <<>> \/ hashes THEN <<RequestObjects(asked)>> ELSE <<>>
  IN  IF only \/ wanted # <<>> THEN Result(next, get, "")
      ELSE IF MoreIds(c) THEN Result(next, Append(get, RequestChain(chain)), "")
      ELSE IF Complete(next) THEN Result([next EXCEPT !.state = "normal"], get, "")
      ELSE Result(next, get, "final condition")

(***************************************************************************)
(* The handler on connection p is through: its messages are sent; a        *)
(* connection that is dropped loses what is under way.                     *)
(***************************************************************************)
Done(p, result) ==
  /\ ctx' = [ctx EXCEPT ![p] = result.ctx]
  /\ to' = [to EXCEPT ![p] = @ \o result.out]
  /\ events' = events \cup ({result.error} \ {""})

Drop(p, error) ==
  /\ ctx' = [ctx EXCEPT ![p] = Closed]
  /\ to' = [to EXCEPT ![p] = <<>>]
  /\ from' = [from EXCEPT ![p] = <<>>]
  /\ events' = events \cup ({error} \ {""})

(***************************************************************************)
(* Whether m_needed_signed_hashes has any left for request_missing_objects *)
(* when it is called; how many there are is not modelled.                  *)
(***************************************************************************)
AsksHashes(h, called) ==
  /\ h => called /\ asks < MaxAsks
  /\ asks' = IF h THEN asks + 1 ELSE asks

\* The handler for the next message from p.
Handles(p, type) ==
  /\ ~ctx[p].busy
  /\ from[p] # <<>> /\ Head(from[p]).type = type

Taken(p) == from' = [from EXCEPT ![p] = Tail(@)]

(***************************************************************************)
(* add_new_block as seen from here: a block without its parent is an       *)
(* orphan; the heavier chain is the main chain.                            *)
(***************************************************************************)
Orphan(b) == b # Genesis /\ Front(b) \notin have
AddNewBlock(b) ==
  /\ have' = IF Orphan(b) THEN have ELSE have \cup {b}
  /\ main' = IF ~Orphan(b) /\ Weight(b) > Weight(main) THEN b ELSE main

-----------------------------------------------------------------------------
(* The node's handlers. *)

\* A mutant of ProcessPayloadSyncData: no callback is requested.
ProcessPayloadSyncData_NoCallback(c, m, hashes) ==
  IF c.state = "synchronizing" THEN Result(c, <<>>, "")
  ELSE IF m.top \in have
  THEN RequestMissingObjects([c EXCEPT !.state = "normal"], TRUE, hashes, TRUE, have, main)
  ELSE Result([c EXCEPT !.state = "synchronizing", !.remote_height = m.height], <<>>, "")

(***************************************************************************)
(* process_payload_sync_data, on context c.                                *)
(***************************************************************************)
ProcessPayloadSyncData(c, m, hashes) ==
  IF c.state = "synchronizing" THEN Result(c, <<>>, "")
  ELSE IF m.top \in have
  THEN RequestMissingObjects([c EXCEPT !.state = "normal"], TRUE, hashes, TRUE, have, main)
  ELSE Result([c EXCEPT !.state = "synchronizing", !.remote_height = m.height,
                        !.callbacks = @ + 1], <<>>, "")

(***************************************************************************)
(* A connection is made; the handshake brings the first sync data.         *)
(***************************************************************************)
Handshake(p) ==
  /\ ctx[p].state = "closed"
  /\ \E h \in BOOLEAN :
       /\ AsksHashes(h, remote[p] \in have)
       /\ Done(p, ProcessPayloadSyncData([Closed EXCEPT !.state = "before_handshake"],
                                         SyncData(remote[p]), h))
  /\ UNCHANGED <<have, main, remote, from, moves>>

TimedSync(p) ==
  /\ Handles(p, "sync_data")
  /\ \E h \in BOOLEAN :
       /\ AsksHashes(h, ctx[p].state # "synchronizing" /\ Head(from[p]).top \in have)
       /\ Done(p, ProcessPayloadSyncData(ctx[p], Head(from[p]), h))
  /\ Taken(p)
  /\ UNCHANGED <<have, main, remote, moves>>

OnCallback(p) ==
  /\ ~ctx[p].busy
  /\ ctx[p].callbacks > 0
  /\ LET c == [ctx[p] EXCEPT !.callbacks = @ - 1]
     IN  Done(p, Result(c, IF c.state = "synchronizing" THEN <<RequestChain(main)>> ELSE <<>>, ""))
  /\ UNCHANGED <<have, main, remote, from, asks, moves>>

(***************************************************************************)
(* handle_notify_new_block: ignored unless the connection is in its normal *)
(* state.  The proof of work of a block may be missing on a node that      *)
(* relies on signed hashes.                                                *)
(***************************************************************************)
HandleNotifyNewBlock(p) ==
  LET c == ctx[p]
      b == Head(from[p]).block
  IN  /\ Handles(p, "new_block")
      /\ Taken(p)
      /\ \/ /\ c.state # "normal"
            /\ Done(p, Result(IF DoBoulderhash THEN c ELSE [c EXCEPT !.callbacks = @ + 1], <<>>, ""))
            /\ UNCHANGED <<have, main>>
         \/ /\ c.state = "normal" /\ ~DoBoulderhash /\ ~Orphan(b) /\ b \notin have
            /\ Done(p, Result(EnterIdle(c), <<>>, ""))
            /\ UNCHANGED <<have, main>>
         \/ /\ c.state = "normal"
            /\ AddNewBlock(b)
            /\ Done(p, IF Orphan(b)
                       THEN Result([c EXCEPT !.state = "synchronizing"], <<RequestChain(main)>>, "")
                       ELSE Result(c, <<>>, ""))
      /\ UNCHANGED <<remote, asks, moves>>

\* A mutant of Unknown: the list is taken to begin with two known ids.
Unknown_SkipsTwo(ids) == SelectSeq(SubSeq(ids, 3, Len(ids)), LAMBDA b : b \notin have)

Unknown(ids) == SelectSeq(ids, LAMBDA b : b \notin have)

(***************************************************************************)
(* handle_response_chain_entry                                             *)
(***************************************************************************)
HandleResponseChainEntry(p) ==
  LET m == Head(from[p])
      c == [ctx[p] EXCEPT !.remote_height = m.total, !.last_response = m.start + Len(m.ids) - 1,
                          !.needed = @ \o Unknown(m.ids),
                          !.learned = ToSet(m.ids)]
  IN  /\ Handles(p, "chain_entry")
      /\ IF m.ids[1] \notin have
         THEN Drop(p, "unknown start") /\ UNCHANGED asks
         ELSE /\ \E h \in BOOLEAN :
                   /\ AsksHashes(h, TRUE)
                   /\ Done(p, RequestMissingObjects(c, FALSE, h, FALSE, have, main))
              /\ Taken(p)
      /\ UNCHANGED <<have, main, remote, moves>>

(***************************************************************************)
(* handle_response_get_objects up to the blocks' way into the core: each   *)
(* must have been asked for, and all that were asked for must be there.    *)
(***************************************************************************)
HandleResponseGetObjects(p) ==
  LET m == Head(from[p])
      c == ctx[p]
      listed == ToSet(m.blocks) \cup ToSet(m.unsent)
      second == Len(m.blocks) > 1 /\ m.blocks[2] \in have
      first == IF m.blocks = <<>> THEN {} ELSE {m.blocks[1]}
  IN  /\ Handles(p, "objects")
      /\ IF c.last_response > m.height THEN Drop(p, "height went down")
         ELSE IF ~(first \subseteq c.requested) THEN Drop(p, "not requested")
         ELSE IF second
         THEN Done(p, Result(EnterIdle([c EXCEPT !.remote_height = m.height]), <<>>, "")) /\ Taken(p)
         ELSE IF ~(listed \subseteq c.requested) THEN Drop(p, "not requested")
         ELSE IF m.unsent # <<>> /\ DoBoulderhash THEN Drop(p, "unsent")
         ELSE IF c.requested # listed THEN Drop(p, "missed")
         ELSE /\ ctx' = [ctx EXCEPT ![p] = [c EXCEPT
                           !.remote_height = m.height, !.requested = {},
                           !.work = m.blocks, !.busy = TRUE, !.idle_after = m.unsent # <<>>]]
              /\ Taken(p)
              /\ UNCHANGED <<to, events>>
      /\ UNCHANGED <<have, main, remote, asks, moves>>

(***************************************************************************)
(* One block of the response goes into the core.                           *)
(***************************************************************************)
HandleIncomingBlock(p) ==
  LET c == ctx[p]
      b == Head(c.work)
  IN  /\ c.busy /\ c.work # <<>>
      /\ AddNewBlock(b)
      /\ IF Orphan(b)
         THEN Drop(p, "orphan")
         ELSE /\ ctx' = [ctx EXCEPT ![p].work = Tail(@)]
              /\ UNCHANGED <<to, from, events>>
      /\ UNCHANGED <<remote, asks, moves>>

ObjectsHandled(p) ==
  LET c == [ctx[p] EXCEPT !.busy = FALSE, !.idle_after = FALSE]
  IN  /\ ctx[p].busy /\ ctx[p].work = <<>>
      /\ \E h \in BOOLEAN :
           /\ AsksHashes(h, ~ctx[p].idle_after)
           /\ Done(p, IF ctx[p].idle_after THEN Result(EnterIdle(c), <<>>, "")
                      ELSE RequestMissingObjects(c, TRUE, h, FALSE, have, main))
      /\ UNCHANGED <<have, main, remote, from, moves>>

-----------------------------------------------------------------------------
(* The peers. *)

Send(p, m) == from' = [from EXCEPT ![p] = Append(@, m)]

(***************************************************************************)
(* handle_request_chain and handle_get_objects: only blocks of the main    *)
(* chain are found, and a peer without the signed hash of a block sends    *)
(* neither it nor those after it to a node that needs them.                *)
(***************************************************************************)
Serve(p) ==
  LET m == Head(to[p])
      chain == remote[p]
      split == CHOOSE i \in 0..Len(chain) :
                 /\ SubSeq(chain, 1, i) \in m.ids
                 /\ \A j \in i + 1..Len(chain) : SubSeq(chain, 1, j) \notin m.ids
      last == IF split + IdsCount - 1 < Len(chain) THEN split + IdsCount - 1 ELSE Len(chain)
      found == SelectSeq(m.ids, LAMBDA b : IsPrefix(b, chain))
  IN  /\ to[p] # <<>>
      /\ IF m.type = "request_chain"
         THEN Send(p, ChainEntry(split, [i \in 1..(last - split + 1) |-> SubSeq(chain, 1, split + i - 1)],
                                 Height(chain)))
         ELSE \E n \in IF DoBoulderhash THEN {Len(found)} ELSE 0..Len(found) :
                Send(p, Objects(SubSeq(found, 1, n), SubSeq(found, n + 1, Len(found)), Height(chain)))
      /\ to' = [to EXCEPT ![p] = Tail(@)]
      /\ UNCHANGED <<have, main, remote, ctx, asks, moves, events>>

(***************************************************************************)
(* The peer's main chain becomes a heavier one.  Its top is announced if   *)
(* it was mined there or came as an announcement.                          *)
(***************************************************************************)
RemoteMoves(p, chain) ==
  /\ moves < MaxMoves
  /\ Weight(chain) > Weight(remote[p])
  /\ remote' = [remote EXCEPT ![p] = chain]
  /\ moves' = moves + 1
  /\ UNCHANGED from \/ (ctx[p].state # "closed" /\ Send(p, NewBlock(chain)))
  /\ UNCHANGED <<have, main, ctx, to, asks, events>>

(***************************************************************************)
(* The peer's side of the periodic COMMAND_TIMED_SYNC.                     *)
(***************************************************************************)
RemoteSync(p) ==
  /\ ctx[p].state # "closed"
  /\ \A i \in 1..Len(from[p]) : from[p][i].type # "sync_data"
  /\ Send(p, SyncData(remote[p]))
  /\ UNCHANGED <<have, main, remote, ctx, to, asks, moves, events>>

MessageStep(p) ==
  \/ TimedSync(p) \/ HandleNotifyNewBlock(p)
  \/ HandleResponseChainEntry(p) \/ HandleResponseGetObjects(p)
  \/ HandleIncomingBlock(p) \/ ObjectsHandled(p)

Next ==
  \E p \in Peers :
    \/ Handshake(p) \/ OnCallback(p) \/ MessageStep(p)
    \/ Serve(p) \/ RemoteSync(p) \/ \E c \in Blocks : RemoteMoves(p, c)

Spec == Init /\ [][Next]_vars

(***************************************************************************)
(* Messages arrive and their handlers run to the end, a requested callback *)
(* fires, a lost connection is made again, and the periodic sync goes on.  *)
(***************************************************************************)
Fairness ==
  \A p \in Peers :
    /\ WF_vars(MessageStep(p)) /\ WF_vars(OnCallback(p)) /\ WF_vars(Handshake(p))
    /\ WF_vars(Serve(p)) /\ WF_vars(RemoteSync(p))

FairSpec == Spec /\ Fairness

-----------------------------------------------------------------------------
(* Properties. *)

(***************************************************************************)
(* The types of the node and of its connections' contexts, and that a      *)
(* closed connection has no message under way.                             *)
(***************************************************************************)
SyncTypeOK ==
  /\ have \subseteq Blocks /\ main \in have
  /\ \A p \in Peers :
       /\ remote[p] \in Blocks
       /\ ctx[p].state \in {"closed", "before_handshake", "synchronizing", "idle", "normal"}
       /\ ToSet(ctx[p].needed) \cup ctx[p].requested \subseteq Blocks
       /\ ctx[p].callbacks \in Nat
       /\ ctx[p].state = "closed" => to[p] = <<>> /\ from[p] = <<>>

(***************************************************************************)
(* Blocks come through several connections at once, and chains change      *)
(* under the requests, but the blocks of an answer never arrive before     *)
(* their parents: no peer is dropped with "Block received at sync phase    *)
(* was marked as orphaned", nor for a list that starts "from unknown id".  *)
(***************************************************************************)
NoOrphansInSync == events \cap {"orphan", "unknown start"} = {}

(***************************************************************************)
(* No peer that answers faithfully is dropped for sending what was not     *)
(* requested.  The same statement is the message "wasn't requested,        *)
(* dropping connection" of handle_response_get_objects.                    *)
(***************************************************************************)
OnlyRequestedDropped == "not requested" \notin events

(***************************************************************************)
(* A connection that ends its synchronisation ("SYNCHRONIZED OK") has left *)
(* no gap: the node has every block of the last list of ids, and the list  *)
(* reached the height that the peer last gave.                             *)
(***************************************************************************)
SynchronizedMeansHave ==
  [][\A p \in Peers : ctx[p].state = "synchronizing" /\ ctx'[p].state = "normal" =>
       /\ ctx'[p].learned \subseteq have'
       /\ ctx'[p].last_response = ctx'[p].remote_height - 1]_vars

(***************************************************************************)
(* However a connection was dropped, put aside as idle or overtaken by the *)
(* others, the node gets and keeps the top of each peer once the peers'    *)
(* chains no longer change (they change at most MaxMoves times).           *)
(***************************************************************************)
EventuallySynchronized ==
  \A p \in Peers : <>[](remote[p] \in have)

(***************************************************************************)
(* The assertion "request_missing_blocks final condition failed!" at the   *)
(* end of request_missing_objects.                                         *)
(***************************************************************************)
FinalConditionHolds == "final condition" \notin events

=============================================================================
