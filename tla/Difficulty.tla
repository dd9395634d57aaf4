----------------------------- MODULE Difficulty -----------------------------
(***************************************************************************)
(* next_difficulty (difficulty.cpp) and the two ways in which              *)
(* blockchain_storage.cpp feeds it, and check_block_timestamp: once for a  *)
(* block on top of the main chain, once for one on top of an alternative   *)
(* chain.  A switch to the alternative chain checks its blocks again, the  *)
(* first way.  The chains here are what the windows see of them.           *)
(***************************************************************************)
EXTENDS Integers, Sequences, SequencesExt, FiniteSetsExt

CONSTANTS
  DIFFICULTY_WINDOW, DIFFICULTY_CUT,  \* DIFFICULTY_LAG is 0
  TIMESTAMP_WINDOW,    \* BLOCKCHAIN_TIMESTAMP_CHECK_WINDOW
  Spacing,             \* CRYPTONOTE_DPOS_BLOCK_MINIMUM_BLOCK_SPACING
  DPOS_DIFFICULTY,     \* DPOS_BLOCK_DIFFICULTY
  Target,              \* difficulty_target()
  SwitchBlock, EasyWindow,  \* BOULDERHASH_2_SWITCH_BLOCK and _EASY_WINDOW
  DposSwitch,          \* dpos_switch_block
  Word,                \* 2^64
  Times, MaxMain, MaxAlt  \* the timestamps, and bounds on the two chains

DifficultyAssumption ==
  /\ DIFFICULTY_WINDOW >= 2 /\ 2 * DIFFICULTY_CUT <= DIFFICULTY_WINDOW - 2
  /\ Times \subseteq 0..(Word - 1) /\ 0 \in Times

VARIABLES
  main,  \* entry h + 1: timestamp and cumulative difficulty of the main chain's block h
  fork,  \* height of the main chain's block that the alternative chain is on
  alt    \* the alternative chain, front first

vars == <<main, fork, alt>>

-----------------------------------------------------------------------------
(* difficulty.cpp *)

\* Consecutive timestamps' difference; before the switch it can be negative.
Timespan(height, ts, i) ==
  IF height >= SwitchBlock /\ ts[i] > ts[i + 1] THEN 0 ELSE ts[i + 1] - ts[i]

\* The indexes of the timespans, in the order of their lengths.
SortedTimespans(height, ts) ==
  SetToSortSeq(1..(Len(ts) - 1),
    LAMBDA i, j : \/ Timespan(height, ts, i) < Timespan(height, ts, j)
                  \/ Timespan(height, ts, i) = Timespan(height, ts, j) /\ i < j)

Kept == DIFFICULTY_WINDOW - 2 * DIFFICULTY_CUT

\* The places cut_begin + 1 .. cut_end.
Cut(spans) ==
  IF spans <= Kept THEN 1..spans
  ELSE LET begin == (spans - Kept + 1) \div 2 IN (begin + 1)..(begin + Kept)

\* The timespans are summed up in 64 bits without sign, and 0 counts as 1.
TimeSpan(height, ts) ==
  LET sorted == SortedTimespans(height, ts)
      span(n) == Timespan(height, ts, sorted[n])
      sum == MapThenSumSet(span, Cut(Len(ts) - 1)) % Word
  IN  IF sum = 0 THEN 1 ELSE sum

TotalWork(height, ts, cumulative) ==
  LET sorted == SortedTimespans(height, ts)
      work(n) == cumulative[sorted[n] + 1] - cumulative[sorted[n]]
  IN  MapThenSumSet(work, Cut(Len(ts) - 1))

\* Rounded up; 0 when the product, or the sum for the rounding, has no room in 64 bits.
RawDifficulty(work, span) ==
  IF work * Target >= Word \/ work * Target + span - 1 >= Word THEN 0
  ELSE (work * Target + span - 1) \div span

Clamp(x, low, high) == IF x < low THEN low ELSE IF x > high THEN high ELSE x

Eased(height, d) ==
  IF height >= SwitchBlock /\ height < SwitchBlock + EasyWindow
  THEN ((d * EasyWindow) % Word) \div (EasyWindow + 14 * (SwitchBlock + EasyWindow - height))
  ELSE d

AtLeastOne(d) == IF d < 1 THEN 1 ELSE d

\* The blocks of chunk come before the block of this height.
NextDifficulty(height, chunk) ==
  LET ts == [n \in DOMAIN chunk |-> chunk[n].timestamp]
      cumulative == [n \in DOMAIN chunk |-> chunk[n].cumulative_difficulty]
      work == TotalWork(height, ts, cumulative)
      n == Len(ts) - 1
  IN  IF Len(ts) <= 1 THEN 1
      ELSE AtLeastOne(Eased(height, Clamp(RawDifficulty(work, TimeSpan(height, ts)),
                                          (work \div 4) \div n, ((work * 4) % Word) \div n)))

-----------------------------------------------------------------------------
(* blockchain_storage.cpp *)

\* get_difficulty_for_next_block, on top of chain c.
DifficultyForNextBlock(c) ==
  LET offset == Len(c) - Min({Len(c), DIFFICULTY_WINDOW})
  IN  IF Len(c) >= DposSwitch THEN DPOS_DIFFICULTY
      ELSE NextDifficulty(Len(c), SubSeq(c, (IF offset = 0 THEN 1 ELSE offset) + 1, Len(c)))

\* Mutant of AltWindow: the genesis block is not skipped.
AltWindow_Genesis(c, f, a) ==
  IF Len(a) < DIFFICULTY_WINDOW
  THEN LET count == Min({DIFFICULTY_WINDOW - Len(a), f + 1})
           start == f + 1 - count
       IN  SubSeq(c, start + 1, f + 1) \o a
  ELSE SubSeq(a, Len(a) - DIFFICULTY_WINDOW + 1, Len(a))

(***************************************************************************)
(* What get_next_difficulty_for_alternative_chain collects: the end of the *)
(* main chain up to the fork without the genesis block, then a; or the end *)
(* of a alone, if it is long enough.                                       *)
(***************************************************************************)
AltWindow(c, f, a) ==
  IF Len(a) < DIFFICULTY_WINDOW
  THEN LET count == Min({DIFFICULTY_WINDOW - Len(a), f + 1})
           start == f + 1 - count
       IN  SubSeq(c, (IF start = 0 THEN 1 ELSE start) + 1, f + 1) \o a
  ELSE SubSeq(a, Len(a) - DIFFICULTY_WINDOW + 1, Len(a))

NextDifficultyForAlternativeChain(c, f, a) ==
  LET height == f + 1 + Len(a)
  IN  IF height >= DposSwitch THEN DPOS_DIFFICULTY ELSE NextDifficulty(height, AltWindow(c, f, a))

Timestamps(chunk) == [n \in DOMAIN chunk |-> chunk[n].timestamp]

Median(ts) ==
  LET v == SortSeq(ts, <)
      n == Len(v) \div 2
  IN  IF Len(v) % 2 = 1 THEN v[n + 1] ELSE (v[n] + v[n + 1]) \div 2

CheckBlockTimestamp(height, ts, prev, timestamp) ==
  /\ height >= DposSwitch => timestamp >= prev + Spacing
  /\ Len(ts) >= TIMESTAMP_WINDOW => timestamp >= Median(ts)

\* check_block_timestamp_main, for a block on top of c (but for the future limit).
CheckTimestampMain(c, timestamp) ==
  LET offset == IF Len(c) <= TIMESTAMP_WINDOW THEN 0 ELSE Len(c) - TIMESTAMP_WINDOW
  IN  CheckBlockTimestamp(Len(c), Timestamps(SubSeq(c, offset + 1, Len(c))), Last(c).timestamp, timestamp)

(***************************************************************************)
(* complete_timestamps_vector: blocks of the main chain from height top    *)
(* downwards; it stops above stop_offset, which the genesis block is too,  *)
(* unless top itself is that block.                                        *)
(***************************************************************************)
CompleteTimestamps(c, top, have) ==
  LET need == TIMESTAMP_WINDOW - have
      stop == IF top > need THEN top - need ELSE 0
  IN  IF have >= TIMESTAMP_WINDOW THEN <<>>
      ELSE IF top = 0 THEN SubSeq(c, 1, 1) ELSE SubSeq(c, stop + 2, top + 1)

\* The check of handle_alternative_block, for a block on top of a.
CheckTimestampAlt(c, f, a, timestamp) ==
  CheckBlockTimestamp(f + 1 + Len(a), Timestamps(CompleteTimestamps(c, f, Len(a)) \o a),
                      IF a = <<>> THEN c[f + 1].timestamp ELSE Last(a).timestamp, timestamp)

-----------------------------------------------------------------------------

Genesis == [timestamp |-> 0, cumulative_difficulty |-> 1]

Init == main = <<Genesis>> /\ fork = 0 /\ alt = <<>>

HandleBlockToMainChain(timestamp) ==
  /\ Len(main) < MaxMain
  /\ CheckTimestampMain(main, timestamp)
  /\ main' = Append(main,
       [timestamp |-> timestamp,
        cumulative_difficulty |-> Last(main).cumulative_difficulty + DifficultyForNextBlock(main)])
  /\ UNCHANGED <<fork, alt>>

\* The first block of the alternative chain is on any block below the top.
HandleAlternativeBlock(f, timestamp) ==
  /\ IF alt = <<>> THEN f \in 0..(Len(main) - 2) ELSE f = fork
  /\ Len(alt) < MaxAlt
  /\ CheckTimestampAlt(main, f, alt, timestamp)
  /\ fork' = f
  /\ alt' = Append(alt,
       [timestamp |-> timestamp,
        cumulative_difficulty |->
          NextDifficultyForAlternativeChain(main, f, alt)
            + (IF alt = <<>> THEN main[f + 1] ELSE Last(alt)).cumulative_difficulty])
  /\ UNCHANGED main

Next ==
  \E timestamp \in Times :
    \/ HandleBlockToMainChain(timestamp)
    \/ \E f \in 0..MaxMain : HandleAlternativeBlock(f, timestamp)

Spec == Init /\ [][Next]_vars

-----------------------------------------------------------------------------
(* Properties. *)

Entry == [timestamp : Times, cumulative_difficulty : 1..(Word - 1)]

(***************************************************************************)
(* The chains hold entries whose cumulative difficulty fits in 64 bits.    *)
(***************************************************************************)
DifficultyTypeOK ==
  /\ main \in Seq(Entry) /\ alt \in Seq(Entry)
  /\ fork \in 0..(Len(main) - 1)

\* The main chain after a switch to the alternative one.
Switched == SubSeq(main, 1, fork + 1) \o alt

(***************************************************************************)
(* The difficulty that a block was held to, and that its chain was weighed *)
(* with, as an alternative block is the one it is held to when a switch    *)
(* puts it on the main chain (get_next_difficulty_for_alternative_chain    *)
(* and get_difficulty_for_next_block).                                     *)
(***************************************************************************)
DifficultiesAgree ==
  \A n \in (fork + 2)..Len(Switched) :
    Switched[n].cumulative_difficulty
      = Switched[n - 1].cumulative_difficulty + DifficultyForNextBlock(SubSeq(Switched, 1, n - 1))

(***************************************************************************)
(* Each block adds work, whatever the timestamps, rounding and overflow of *)
(* next_difficulty do: of two chains with a common start the longer one    *)
(* is not lighter than its own part.                                       *)
(***************************************************************************)
WorkGrows ==
  \A c \in {main, Switched} :
    \A n \in 2..Len(c) : c[n].cumulative_difficulty > c[n - 1].cumulative_difficulty

(***************************************************************************)
(* The timestamp of an alternative block passes the main chain's check too *)
(* ("less than median of last ... blocks"), so that a switch does not fail *)
(* for it.                                                                 *)
(***************************************************************************)
TimestampsAgree ==
  \A n \in (fork + 2)..Len(Switched) :
    CheckTimestampMain(SubSeq(Switched, 1, n - 1), Switched[n].timestamp)

(***************************************************************************)
(* The same where the alternative chain below the block is no longer than  *)
(* the window, and the block is not the first that has a full window below *)
(* it: there complete_timestamps_vector collects the window of the main    *)
(* chain's check.                                                          *)
(***************************************************************************)
TimestampsAgreeInWindow ==
  \A n \in (fork + 2)..Len(Switched) :
    n - (fork + 2) <= TIMESTAMP_WINDOW /\ n - 1 # TIMESTAMP_WINDOW =>
      CheckTimestampMain(SubSeq(Switched, 1, n - 1), Switched[n].timestamp)
=============================================================================
