----------------------------- MODULE Persistence -----------------------------
(***************************************************************************)
(* The node's files: store_blockchain and load_blockchain of               *)
(* blockchain_storage, init and deinit of the pool and of core, with a     *)
(* crash at any point.                                                     *)
(*                                                                         *)
(* The content of a part of the node's state, in memory or in its file, is *)
(* the set of changes that have gone into it; {Torn} is a file cut short   *)
(* while it was written.  A change is a record with its kind, which says   *)
(* which parts it goes into.                                               *)
(*                                                                         *)
(* The five sqlite3 maps live in their files: what is not committed is the *)
(* open transaction, which ends with the process.  COMMIT and rename are   *)
(* taken as atomic.                                                        *)
(***************************************************************************)
EXTENDS Integers, Sequences, FiniteSets

CONSTANTS
  MaxChanges,   \* bound on the number of changes
  StoreEvery,   \* 10000 in the code
  CutShort,     \* the steps of a store during which the process may die
  Failing       \* the steps of a store that may fail with an error

(***************************************************************************)
(* What only the maps hold, in the order of their commits, and all parts:  *)
(* the list of entries, the maps, and the rest (spent keys, outputs,       *)
(* delegates, votes) that serialize() puts in one file.                    *)
(***************************************************************************)
Maps == <<"blocks_by_hash", "blocks_index", "transactions", "alternative", "invalid">>
Parts == {"entries", "data", "blocks_by_hash", "blocks_index", "transactions",
          "alternative", "invalid"}
Steps == {"store", "serialize", "copy", "copying", "commit", "replace", "pool", "pool_writing"}

ASSUME PersistenceAssumption ==
  /\ MaxChanges \in Nat
  /\ StoreEvery \in Nat \ {0}
  /\ CutShort \subseteq Steps
  /\ Failing \subseteq {"serialize", "copying", "replace"}

VARIABLES
  pc,        \* "down", "run", or the step of a store
  exiting,   \* the store is the one of deinit
  mem,       \* mem[p]: what the running process has of p
  disk,      \* disk[p]: what the file of p holds
  temp,      \* the temporary file of the data
  pool,      \* transactions of the pool
  pool_file, \* the file of the pool
  commits,   \* how many maps this store has committed
  changes_since_store,
  issued,    \* number of changes made so far
  saved,     \* history: mem when a store last succeeded
  window,    \* history: a store has begun to overwrite files and not succeeded since
  tainted    \* history: the process was started from such files

vars == <<pc, exiting, mem, disk, temp, pool, pool_file, commits, changes_since_store,
          issued, saved, window, tainted>>

files == <<disk, temp, pool_file>>
history == <<saved, window, tainted>>

Kinds == {"main", "alternative", "switch", "torn"}
Change == [id : 0..MaxChanges, kind : Kinds]
Torn == [id |-> 0, kind |-> "torn"]

(***************************************************************************)
(* The parts a change goes into: a block added to the main chain, one kept *)
(* as an alternative, and a reorganisation.                                *)
(***************************************************************************)
Touches(kind) ==
  CASE kind = "main"        -> {"entries", "data", "blocks_by_hash", "blocks_index", "transactions"}
    [] kind = "alternative" -> {"blocks_by_hash", "alternative"}
    [] kind = "switch"      -> Parts
    [] kind = "torn"        -> Parts

Nothing == [p \in Parts |-> {}]
NoFile == {[id |-> 0, kind |-> "alternative"]}   \* differs from every content

Init ==
  /\ pc = "down"
  /\ exiting = FALSE
  /\ mem = Nothing
  /\ disk = [Nothing EXCEPT !["data"] = NoFile]
  /\ temp = NoFile
  /\ pool = {}
  /\ pool_file = NoFile
  /\ commits = 0
  /\ changes_since_store = 0
  /\ issued = 0
  /\ saved = Nothing
  /\ window = FALSE
  /\ tainted = FALSE

-----------------------------------------------------------------------------
(* Running. *)

(***************************************************************************)
(* tx_memory_pool::init and blockchain_storage::init: a pool file that     *)
(* does not load stops the start; a data file that does not is answered    *)
(* with reset(), which empties every part.                                 *)
(***************************************************************************)
Start ==
  /\ pc = "down"
  /\ pool_file # {Torn}
  /\ pc' = "run"
  /\ pool' = IF pool_file = NoFile THEN {} ELSE pool_file
  /\ mem' = IF disk["data"] = NoFile THEN Nothing ELSE disk
  /\ changes_since_store' = 0
  /\ tainted' = (tainted \/ (window /\ disk["data"] # NoFile))
  /\ UNCHANGED <<exiting, files, commits, issued, saved, window>>

\* A mutant of AddNewBlock: the transactions of a reorganisation are forgotten.
AddNewBlock_NoTransactions(kind) ==
  LET c == [id |-> issued + 1, kind |-> kind]
      changed == changes_since_store + (IF kind = "alternative" THEN 0 ELSE 1)
  IN  /\ pc = "run"
      /\ issued < MaxChanges
      /\ mem' = [p \in Parts |-> IF p \in Touches(kind) /\ (kind # "switch" \/ p # "transactions")
                                 THEN mem[p] \cup {c} ELSE mem[p]]
      /\ issued' = issued + 1
      /\ changes_since_store' = changed
      /\ pc' = IF changed >= StoreEvery THEN "store" ELSE "run"
      /\ UNCHANGED <<exiting, files, pool, commits, history>>

(***************************************************************************)
(* add_new_block that succeeds, with the store at its end when there have  *)
(* been many changes to the main chain.                                    *)
(***************************************************************************)
AddNewBlock(kind) ==
  LET c == [id |-> issued + 1, kind |-> kind]
      changed == changes_since_store + (IF kind = "alternative" THEN 0 ELSE 1)
  IN  /\ pc = "run"
      /\ issued < MaxChanges
      /\ mem' = [p \in Parts |-> IF p \in Touches(kind) THEN mem[p] \cup {c} ELSE mem[p]]
      /\ issued' = issued + 1
      /\ changes_since_store' = changed
      /\ pc' = IF changed >= StoreEvery THEN "store" ELSE "run"
      /\ UNCHANGED <<exiting, files, pool, commits, history>>

(***************************************************************************)
(* A transaction enters the pool.                                          *)
(***************************************************************************)
AddTx ==
  /\ pc = "run"
  /\ issued < MaxChanges
  /\ pool' = pool \cup {[id |-> issued + 1, kind |-> "main"]}
  /\ issued' = issued + 1
  /\ UNCHANGED <<pc, exiting, mem, files, commits, changes_since_store, history>>

(***************************************************************************)
(* The store of core's timer, of the save command and of the wallet.       *)
(***************************************************************************)
TimerStore ==
  /\ pc = "run"
  /\ pc' = "store"
  /\ UNCHANGED <<exiting, mem, files, pool, commits, changes_since_store, issued, history>>

(***************************************************************************)
(* core::deinit: the pool's file is written in place, then the chain is    *)
(* stored.                                                                 *)
(***************************************************************************)
Exit ==
  /\ pc = "run"
  /\ pc' = "pool"
  /\ exiting' = TRUE
  /\ UNCHANGED <<mem, files, pool, commits, changes_since_store, issued, history>>

WritePool ==
  /\ pc = "pool"
  /\ pc' = "pool_writing"
  /\ pool_file' = {Torn}
  /\ UNCHANGED <<exiting, mem, disk, temp, pool, commits, changes_since_store, issued, history>>

WritePoolEnd ==
  /\ pc = "pool_writing"
  /\ pc' = "store"
  /\ pool_file' = pool
  /\ UNCHANGED <<exiting, mem, disk, temp, pool, commits, changes_since_store, issued, history>>

-----------------------------------------------------------------------------
(* store_blockchain. *)

(***************************************************************************)
(* The call returns: to the running node, or out of deinit.                *)
(***************************************************************************)
Return ==
  /\ commits' = 0
  /\ IF exiting
     THEN pc' = "down" /\ exiting' = FALSE /\ mem' = Nothing /\ pool' = {}
     ELSE pc' = "run" /\ UNCHANGED <<exiting, mem, pool>>

StoreBegin ==
  /\ pc = "store"
  /\ changes_since_store' = 0
  /\ temp' = {Torn}
  /\ pc' = "serialize"
  /\ UNCHANGED <<exiting, mem, disk, pool, pool_file, commits, issued, history>>

\* Mutant of Serialize: the main file is written in place.
Serialize_InPlace ==
  /\ pc = "serialize"
  /\ temp' = mem["data"]
  /\ disk' = [disk EXCEPT !["data"] = mem["data"]]
  /\ pc' = "copy"
  /\ UNCHANGED <<exiting, mem, pool, pool_file, commits, changes_since_store, issued, history>>

Serialize ==
  /\ pc = "serialize"
  /\ temp' = mem["data"]
  /\ pc' = "copy"
  /\ UNCHANGED <<exiting, mem, disk, pool, pool_file, commits, changes_since_store, issued,
                 history>>

SerializeFails ==
  /\ pc = "serialize"
  /\ "serialize" \in Failing
  /\ Return
  /\ UNCHANGED <<disk, temp, pool_file, changes_since_store, issued, history>>

(***************************************************************************)
(* The entries' file is overwritten with a copy of the working one.        *)
(***************************************************************************)
CopyEntries ==
  /\ pc = "copy"
  /\ disk' = [disk EXCEPT !["entries"] = {Torn}]
  /\ window' = TRUE
  /\ pc' = "copying"
  /\ UNCHANGED <<exiting, mem, temp, pool, pool_file, commits, changes_since_store, issued,
                 saved, tainted>>

CopyEntriesEnd ==
  /\ pc = "copying"
  /\ disk' = [disk EXCEPT !["entries"] = mem["entries"]]
  /\ pc' = "commit"
  /\ UNCHANGED <<exiting, mem, temp, pool, pool_file, commits, changes_since_store, issued,
                 history>>

CopyEntriesFails ==
  /\ pc = "copying"
  /\ "copying" \in Failing
  /\ Return
  /\ UNCHANGED <<disk, temp, pool_file, changes_since_store, issued, history>>

(***************************************************************************)
(* "commit the sqlite3 maps - shouldn't fail": one after the other.        *)
(***************************************************************************)
Commit ==
  /\ pc = "commit"
  /\ commits' = commits + 1
  /\ disk' = [disk EXCEPT ![Maps[commits + 1]] = mem[Maps[commits + 1]]]
  /\ pc' = IF commits' = Len(Maps) THEN "replace" ELSE "commit"
  /\ UNCHANGED <<exiting, mem, temp, pool, pool_file, changes_since_store, issued, history>>

(***************************************************************************)
(* The temporary file is renamed to the main file; the store has succeeded.*)
(***************************************************************************)
ReplaceFile ==
  /\ pc = "replace"
  /\ disk' = [disk EXCEPT !["data"] = temp]
  /\ temp' = NoFile
  /\ saved' = mem
  /\ window' = FALSE
  /\ Return
  /\ UNCHANGED <<pool_file, changes_since_store, issued, tainted>>

ReplaceFileFails ==
  /\ pc = "replace"
  /\ "replace" \in Failing
  /\ Return
  /\ UNCHANGED <<disk, temp, pool_file, changes_since_store, issued, history>>

(***************************************************************************)
(* The process dies.                                                       *)
(***************************************************************************)
Crash ==
  /\ pc = "run" \/ pc \in CutShort
  /\ pc' = "down"
  /\ exiting' = FALSE
  /\ mem' = Nothing
  /\ pool' = {}
  /\ commits' = 0
  /\ UNCHANGED <<files, changes_since_store, issued, history>>

StoreStep ==
  \/ WritePool \/ WritePoolEnd
  \/ StoreBegin \/ Serialize \/ CopyEntries \/ CopyEntriesEnd \/ Commit \/ ReplaceFile

StoreFails == SerializeFails \/ CopyEntriesFails \/ ReplaceFileFails

Next ==
  \/ Start
  \/ \E kind \in Kinds \ {"torn"} : AddNewBlock(kind)
  \/ AddTx
  \/ TimerStore
  \/ Exit
  \/ StoreStep
  \/ StoreFails
  \/ Crash

Spec == Init /\ [][Next]_vars

(***************************************************************************)
(* The operator starts the node again, its timer keeps going off, and what *)
(* it does goes on.                                                        *)
(***************************************************************************)
Fairness == WF_vars(Start) /\ SF_vars(TimerStore) /\ WF_vars(StoreStep)

FairSpec == Spec /\ Fairness

-----------------------------------------------------------------------------
(* Properties. *)

Content == SUBSET Change

(***************************************************************************)
(* The types, and that the counter of the timer stays below its limit: a   *)
(* change to the main chain is counted once until a store.                 *)
(***************************************************************************)
PersistenceTypeOK ==
  /\ pc \in Steps \cup {"down", "run"}
  /\ exiting \in BOOLEAN
  /\ mem \in [Parts -> Content] /\ disk \in [Parts -> Content] /\ saved \in [Parts -> Content]
  /\ temp \in Content /\ pool \in Content /\ pool_file \in Content
  /\ commits \in 0..Len(Maps)
  /\ changes_since_store \in 0..StoreEvery
  /\ issued \in 0..MaxChanges
  /\ window \in BOOLEAN /\ tainted \in BOOLEAN

(***************************************************************************)
(* Outside the window between the first overwritten file and the rename of *)
(* the main file, the files are those of the last store that succeeded:    *)
(* neither the running node nor a store that failed or was cut short       *)
(* before the window has changed any of them.                              *)
(***************************************************************************)
FilesOfLastStore ==
  ~window /\ disk["data"] # NoFile => disk = saved

AllOrNothing(content) ==
  \A p \in Parts : \A c \in content[p] : \A q \in Touches(c.kind) : c \in content[q]

(***************************************************************************)
(* A process that was not started from files of the window has each change *)
(* in all the parts it goes into or in none.                               *)
(***************************************************************************)
WholeUnlessTainted == ~tainted => AllOrNothing(mem)

(***************************************************************************)
(* When no store has failed, at most StoreEvery changes to the main chain  *)
(* are not in the files, and the node is then storing them.                *)
(***************************************************************************)
UnsavedBounded ==
  Failing = {} /\ pc = "run" => Cardinality(mem["data"] \ disk["data"]) < StoreEvery

(***************************************************************************)
(* "Otherwise, the current progress won't be saved.": a process that was   *)
(* interrupted comes back with a state it had, short of its latest         *)
(* progress.                                                               *)
(***************************************************************************)
OnlyProgressLost == pc = "run" => AllOrNothing(mem)

(***************************************************************************)
(* A node that is down, cleanly or not, can be started again.              *)
(***************************************************************************)
StartsAgain == pc = "down" ~> pc = "run"

(***************************************************************************)
(* Every change is in the files in the end, unless it is lost with a crash.*)
(***************************************************************************)
EventuallySaved ==
  \A id \in 1..MaxChanges :
    LET has(content) == \E c \in content : c.id = id
    IN  has(mem["blocks_by_hash"]) ~>
          (has(disk["blocks_by_hash"]) \/ ~has(mem["blocks_by_hash"]))

=============================================================================
