-------------------------- MODULE PersistenceProofs --------------------------
(***************************************************************************)
(* What a restart finds, for every number of changes, every interval of    *)
(* stores, and every choice of the steps at which a store may be cut short *)
(* or fail.                                                                *)
(***************************************************************************)
EXTENDS Persistence, TLAPS

InStore == {"copy", "copying", "commit", "replace"}

(***************************************************************************)
(* How far a running store has got: the temporary file is that of the      *)
(* memory, and so are the entries and the maps up to the last commit.      *)
(***************************************************************************)
StoreProgress ==
  /\ commits \in 0..5
  /\ pc \notin {"commit", "replace"} => commits = 0
  /\ pc = "commit" => commits < 5
  /\ pc = "replace" => commits = 5
  /\ pc \in {"copying", "commit", "replace"} => window
  /\ pc \in InStore => temp = mem["data"]
  /\ pc \in {"commit", "replace"} =>
       /\ disk["entries"] = mem["entries"]
       /\ \A n \in 1..commits : disk[Maps[n]] = mem[Maps[n]]

Shape ==
  /\ mem \in [Parts -> SUBSET Change]
  /\ saved \in [Parts -> SUBSET Change]
  /\ disk \in [Parts -> SUBSET Change] /\ temp \in SUBSET Change
  /\ tainted \in BOOLEAN /\ window \in BOOLEAN
  /\ issued \in 0..MaxChanges

PInv ==
  /\ Shape
  /\ StoreProgress
  /\ FilesOfLastStore
  /\ ~tainted => AllOrNothing(mem) /\ AllOrNothing(saved)

LEMMA Contents ==
  /\ Nothing \in [Parts -> SUBSET Change]
  /\ Torn \in Change /\ NoFile \in SUBSET Change
  BY PersistenceAssumption DEF Nothing, Torn, NoFile, Change, Kinds

LEMMA NothingIsWhole == AllOrNothing(Nothing)
  BY DEF AllOrNothing, Nothing

(***************************************************************************)
(* One change made by add_new_block goes into every part it touches.       *)
(***************************************************************************)
LEMMA ChangeIsWhole ==
  ASSUME PInv, NEW kind \in Kinds \ {"torn"}, AddNewBlock(kind)
  PROVE  mem' \in [Parts -> SUBSET Change] /\ (~tainted => AllOrNothing(mem'))
<1> DEFINE c == [id |-> issued + 1, kind |-> kind]
<1>1. mem' = [p \in Parts |-> IF p \in Touches(kind) THEN mem[p] \cup {c} ELSE mem[p]]
  BY DEF AddNewBlock
<1>2. c \in Change /\ c.kind = kind
  BY PersistenceAssumption DEF PInv, Shape, Change, AddNewBlock, Kinds
<1>3. mem' \in [Parts -> SUBSET Change]
  BY <1>1, <1>2 DEF PInv, Shape
<1>4. ASSUME ~tainted, NEW p \in Parts, NEW d \in mem'[p], NEW q \in Touches(d.kind)
      PROVE  d \in mem'[q]
  <2>1. q \in Parts
    <3>1. d \in Change
      BY <1>3
    <3>2. d.kind \in Kinds
      BY <3>1 DEF Change
    <3> QED
      BY <3>2 DEF Touches, Kinds, Parts
  <2>2. CASE d = c
    BY <1>1, <1>2, <1>4, <2>1, <2>2
  <2>3. CASE d # c
    <3>1. d \in mem[p]
      BY <1>1, <1>4, <2>3
    <3>2. d \in mem[q]
      BY <1>4, <2>1, <3>1 DEF PInv, AllOrNothing
    <3> QED
      BY <1>1, <2>1, <3>2
  <2> QED
    BY <2>2, <2>3
<1> QED
  BY <1>3, <1>4 DEF AllOrNothing

(***************************************************************************)
(* The rename that ends a store makes the files those of the memory.       *)
(***************************************************************************)
LEMMA ReplaceIsWhole ==
  ASSUME PInv, ReplaceFile
  PROVE  disk' = mem
<1>1. \A n \in 1..5 : disk[Maps[n]] = mem[Maps[n]]
  BY DEF ReplaceFile, PInv, StoreProgress
<1>2. \A p \in Parts \ {"entries", "data"} : disk[p] = mem[p]
  <2>1. /\ disk["blocks_by_hash"] = mem["blocks_by_hash"]
        /\ disk["blocks_index"] = mem["blocks_index"]
        /\ disk["transactions"] = mem["transactions"]
        /\ disk["alternative"] = mem["alternative"]
        /\ disk["invalid"] = mem["invalid"]
    <3>1. 1 \in 1..5 /\ 2 \in 1..5 /\ 3 \in 1..5 /\ 4 \in 1..5 /\ 5 \in 1..5
      OBVIOUS
    <3>2. Maps[1] = "blocks_by_hash" /\ Maps[2] = "blocks_index" /\ Maps[3] = "transactions"
            /\ Maps[4] = "alternative" /\ Maps[5] = "invalid"
      BY DEF Maps
    <3> QED
      BY <1>1, <3>1, <3>2
  <2> QED
    BY <2>1 DEF Parts
<1>3. disk["entries"] = mem["entries"] /\ temp = mem["data"]
  BY DEF ReplaceFile, PInv, StoreProgress, InStore
<1>4. disk' = [disk EXCEPT !["data"] = temp]
  BY DEF ReplaceFile
<1>5. disk' = [p \in Parts |-> mem[p]]
  BY <1>2, <1>3, <1>4 DEF PInv, Shape
<1> QED
  BY <1>5 DEF PInv, Shape

(***************************************************************************)
(* store_blockchain, load_blockchain, add_new_block and a crash keep the   *)
(* invariant.                                                              *)
(***************************************************************************)
LEMMA PersistenceInductive == PInv /\ [Next]_vars => PInv'
<1> SUFFICES ASSUME PInv, [Next]_vars PROVE PInv'
  OBVIOUS
<1>1. CASE UNCHANGED vars
  BY <1>1 DEF vars, PInv, Shape, StoreProgress, FilesOfLastStore, AllOrNothing
<1>2. CASE Start
  <2>1. Shape' /\ StoreProgress' /\ FilesOfLastStore'
    BY <1>2, Contents DEF Start, files, PInv, Shape, StoreProgress, FilesOfLastStore, InStore
  <2>2. ASSUME ~tainted' PROVE AllOrNothing(mem)' /\ AllOrNothing(saved)'
    <3>1. ~tainted /\ saved' = saved /\ (mem' = Nothing \/ mem' = saved)
      BY <1>2, <2>2 DEF Start, PInv, Shape, FilesOfLastStore
    <3> QED
      BY <3>1, NothingIsWhole DEF PInv, AllOrNothing
  <2> QED
    BY <2>1, <2>2 DEF PInv
<1>3. ASSUME NEW kind \in Kinds \ {"torn"}, AddNewBlock(kind) PROVE PInv'
  <2>1. mem' \in [Parts -> SUBSET Change] /\ (~tainted => AllOrNothing(mem'))
    BY <1>3, ChangeIsWhole
  <2>2. pc = "run" /\ pc' \in {"run", "store"} /\ issued' \in 0..MaxChanges
    BY <1>3, PersistenceAssumption DEF AddNewBlock, PInv, Shape
  <2>3. UNCHANGED <<disk, temp, commits, saved, window, tainted>>
    BY <1>3 DEF AddNewBlock, files, history
  <2> QED
    BY <2>1, <2>2, <2>3 DEF PInv, Shape, StoreProgress, FilesOfLastStore, AllOrNothing, InStore
<1>4. CASE AddTx \/ TimerStore \/ Exit \/ WritePool \/ WritePoolEnd
  <2>1. UNCHANGED <<mem, disk, temp, commits, saved, window, tainted>>
    BY <1>4 DEF AddTx, TimerStore, Exit, WritePool, WritePoolEnd, files, history
  <2>2. pc' \notin {"commit", "replace", "copying", "copy"} /\ issued' \in 0..MaxChanges
          /\ pc \notin {"commit", "replace"}
    BY <1>4, PersistenceAssumption DEF AddTx, TimerStore, Exit, WritePool, WritePoolEnd, PInv, Shape
  <2> QED
    BY <2>1, <2>2 DEF PInv, Shape, StoreProgress, FilesOfLastStore, AllOrNothing, InStore
<1>5. CASE StoreBegin \/ Serialize
  <2>1. "data" \in Parts
    BY DEF Parts
  <2> QED
    BY <1>5, <2>1, Contents DEF StoreBegin, Serialize, history, PInv, Shape, StoreProgress,
      FilesOfLastStore, AllOrNothing, InStore
<1>6. CASE CopyEntries \/ CopyEntriesEnd
  <2>1. UNCHANGED <<mem, temp, saved, tainted, issued, commits>> /\ window'
    BY <1>6 DEF CopyEntries, CopyEntriesEnd, history, PInv, StoreProgress
  <2>2. "entries" \in Parts
    BY DEF Parts
  <2>3. Shape'
    BY <1>6, <2>1, <2>2, Contents DEF CopyEntries, CopyEntriesEnd, history, PInv, Shape
  <2>4. StoreProgress'
    BY <1>6, <2>1, <2>2 DEF CopyEntries, CopyEntriesEnd, PInv, Shape, StoreProgress, InStore
  <2> QED
    BY <2>1, <2>3, <2>4 DEF PInv, FilesOfLastStore, AllOrNothing
<1>7. CASE Commit
  <2>1. UNCHANGED <<mem, temp, saved, window, tainted, issued>> /\ window
    BY <1>7 DEF Commit, history, PInv, StoreProgress
  <2>2. commits \in 0..4 /\ commits' = commits + 1
    BY <1>7 DEF Commit, PInv, StoreProgress
  <2>3. Maps[commits + 1] \in Parts \ {"entries", "data"}
    BY <2>2 DEF Maps, Parts
  <2>4. disk' = [disk EXCEPT ![Maps[commits + 1]] = mem[Maps[commits + 1]]]
    BY <1>7 DEF Commit
  <2>5. \A n \in 1..commits' : disk'[Maps[n]] = mem'[Maps[n]]
    <3> SUFFICES ASSUME NEW n \in 1..commits' PROVE disk'[Maps[n]] = mem'[Maps[n]]
      OBVIOUS
    <3>1. Maps[n] \in Parts
      BY <2>2 DEF Maps, Parts
    <3>2. CASE Maps[n] = Maps[commits + 1]
      BY <2>1, <2>3, <2>4, <3>2 DEF PInv, Shape
    <3>3. CASE Maps[n] # Maps[commits + 1]
      <4>1. n \in 1..commits
        BY <2>2, <3>3
      <4> QED
        BY <1>7, <2>1, <2>4, <3>1, <3>3, <4>1 DEF Commit, PInv, Shape, StoreProgress
    <3> QED
      BY <3>2, <3>3
  <2>6. Shape' /\ FilesOfLastStore' /\ disk'["entries"] = mem'["entries"]
    BY <1>7, <2>1, <2>3, <2>4 DEF Commit, PInv, Shape, StoreProgress, FilesOfLastStore, Parts
  <2>7. Len(Maps) = 5
    BY DEF Maps
  <2>8. pc' = IF commits' = 5 THEN "replace" ELSE "commit"
    BY <1>7, <2>7 DEF Commit
  <2>9. StoreProgress'
    BY <1>7, <2>1, <2>2, <2>5, <2>6, <2>8 DEF Commit, PInv, StoreProgress, InStore
  <2> QED
    BY <2>1, <2>6, <2>9 DEF PInv, AllOrNothing
<1>8. CASE ReplaceFile
  <2>1. disk' = mem /\ saved' = mem /\ UNCHANGED <<tainted, issued>> /\ window' = FALSE
    BY <1>8, ReplaceIsWhole DEF ReplaceFile
  <2>2. mem' = mem \/ mem' = Nothing
    BY <1>8 DEF ReplaceFile, Return
  <2>3. commits' = 0 /\ pc' \in {"down", "run"} /\ temp' = NoFile
    BY <1>8 DEF ReplaceFile, Return
  <2>4. Shape'
    BY <2>1, <2>2, <2>3, Contents DEF PInv, Shape
  <2>5. StoreProgress'
    BY <2>1, <2>3 DEF StoreProgress, InStore
  <2>6. FilesOfLastStore'
    BY <2>1 DEF FilesOfLastStore, PInv
  <2> QED
    BY <2>1, <2>2, <2>4, <2>5, <2>6, NothingIsWhole DEF PInv, AllOrNothing
<1>9. CASE SerializeFails \/ CopyEntriesFails \/ ReplaceFileFails \/ Crash
  <2>1. UNCHANGED <<disk, temp, saved, window, tainted, issued>> /\ commits' = 0
    BY <1>9 DEF SerializeFails, CopyEntriesFails, ReplaceFileFails, Crash, Return, files, history
  <2>2. mem' = mem \/ mem' = Nothing
    BY <1>9 DEF SerializeFails, CopyEntriesFails, ReplaceFileFails, Crash, Return
  <2>3. pc' \in {"down", "run"}
    BY <1>9 DEF SerializeFails, CopyEntriesFails, ReplaceFileFails, Crash, Return
  <2>4. Shape'
    BY <2>1, <2>2, <2>3, Contents DEF PInv, Shape
  <2>5. StoreProgress'
    BY <2>1, <2>3 DEF StoreProgress, InStore
  <2>6. FilesOfLastStore'
    BY <2>1 DEF FilesOfLastStore, PInv
  <2> QED
    BY <2>1, <2>2, <2>4, <2>5, <2>6, NothingIsWhole DEF PInv, AllOrNothing
<1> QED
  BY <1>1, <1>2, <1>3, <1>4, <1>5, <1>6, <1>7, <1>8, <1>9 DEF Next, StoreStep, StoreFails

LEMMA PersistenceInvariant == Spec => []PInv
<1>1. Init => PInv
  <2> SUFFICES ASSUME Init PROVE PInv
    OBVIOUS
  <2>1. "data" \in Parts
    BY DEF Parts
  <2>2. disk["data"] = NoFile /\ disk \in [Parts -> SUBSET Change]
    BY <2>1, Contents DEF Init
  <2>3. Shape
    <3>1. issued \in 0..MaxChanges
      BY PersistenceAssumption DEF Init
    <3> QED
      BY <2>2, <3>1, Contents DEF Init, Shape
  <2>4. StoreProgress /\ FilesOfLastStore
    BY <2>2 DEF Init, StoreProgress, FilesOfLastStore, InStore
  <2> QED
    BY <2>3, <2>4, NothingIsWhole DEF Init, PInv
<1> QED
  BY <1>1, PersistenceInductive, PTL DEF Spec

(***************************************************************************)
(* Outside the window between the copy of the entries and the rename of    *)
(* the main file, the files are those of the last store_blockchain that    *)
(* succeeded.                                                              *)
(***************************************************************************)
THEOREM FilesAreLastStore == Spec => []FilesOfLastStore
  BY PersistenceInvariant, PTL DEF PInv

(***************************************************************************)
(* A process that load_blockchain has not started from files of that       *)
(* window has every change in all of its parts or in none, through any     *)
(* failed or interrupted stores.                                           *)
(***************************************************************************)
THEOREM RestartsAreWhole == Spec => []WholeUnlessTainted
<1>1. PInv => WholeUnlessTainted
  BY DEF PInv, WholeUnlessTainted
<1> QED
  BY <1>1, PersistenceInvariant, PTL

=============================================================================
