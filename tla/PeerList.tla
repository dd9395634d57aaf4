------------------------------ MODULE PeerList ------------------------------
(***************************************************************************)
(* peerlist_manager (p2p/net_peerlist.h): the white list of peers that the *)
(* node has reached, and the gray list of those it has only been told of.  *)
(* Every operation runs under m_peerlist_lock; the loop of merge_peerlist  *)
(* is taken entry by entry, with nothing in between.                       *)
(***************************************************************************)
EXTENDS Integers, FiniteSets, Sequences

CONSTANTS
  Addrs,                  \* net_address
  Allowed,                \* those that is_ip_allowed
  Times,                  \* values of last_seen
  WhiteLimit, GrayLimit,  \* P2P_LOCAL_WHITE_PEERLIST_LIMIT, P2P_LOCAL_GRAY_PEERLIST_LIMIT
  MaxMerge                \* bound on the length of a remote peer list

Absent == -1

PeerListAssumption ==
  /\ IsFiniteSet(Addrs) /\ Allowed \subseteq Addrs
  /\ Times \subseteq Nat
  /\ WhiteLimit \in Nat /\ GrayLimit \in Nat /\ MaxMerge \in Nat

Entries == Addrs \X Times

VARIABLES
  white, gray,  \* m_peers_white, m_peers_gray: last_seen of each address, or Absent
  merging,      \* whether merge_peerlist runs
  outer_bs      \* the entries that it has not appended yet

vars == <<white, gray, merging, outer_bs>>

Members(list) == {a \in Addrs : list[a] # Absent}
Only(list, kept) == [a \in Addrs |-> IF a \in kept THEN list[a] ELSE Absent]

(***************************************************************************)
(* The sets that erasing the oldest entry, until the list is no longer     *)
(* than limit, can leave; entries of one time are erased in any order.     *)
(***************************************************************************)
Newest(list, limit) ==
  {kept \in SUBSET Members(list) :
     /\ Cardinality(kept) = IF Cardinality(Members(list)) > limit
                            THEN limit ELSE Cardinality(Members(list))
     /\ \A a \in kept, b \in Members(list) \ kept : list[b] <= list[a]}

Init ==
  /\ white = [a \in Addrs |-> Absent]
  /\ gray = [a \in Addrs |-> Absent]
  /\ merging = FALSE
  /\ outer_bs = <<>>

\* Mutant of AppendWithPeerWhite: the address stays in the gray list.
AppendWithPeerWhite_StaysGray(adr, last_seen) ==
  /\ ~merging
  /\ adr \in Allowed
  /\ white' = [white EXCEPT ![adr] = last_seen]
  /\ IF adr \in Members(white)
     THEN gray' = gray
     ELSE \E kept \in Newest(gray, GrayLimit) : gray' = Only(gray, kept)
  /\ UNCHANGED <<merging, outer_bs>>

(***************************************************************************)
(* append_with_peer_white: what trim_white_peerlist, called for a new      *)
(* entry, trims is the gray list.                                          *)
(***************************************************************************)
AppendWithPeerWhite(adr, last_seen) ==
  /\ ~merging
  /\ adr \in Allowed
  /\ white' = [white EXCEPT ![adr] = last_seen]
  /\ IF adr \in Members(white)
     THEN gray' = [gray EXCEPT ![adr] = Absent]
     ELSE \E kept \in Newest(gray, GrayLimit) : gray' = Only(gray, kept \ {adr})
  /\ UNCHANGED <<merging, outer_bs>>

MergePeerlist(list) ==
  /\ ~merging
  /\ merging' = TRUE
  /\ outer_bs' = list
  /\ UNCHANGED <<white, gray>>

(***************************************************************************)
(* append_with_peer_gray for the next entry of the remote list; what       *)
(* trim_gray_peerlist trims is the white list.                             *)
(***************************************************************************)
AppendWithPeerGray ==
  /\ outer_bs # <<>>
  /\ LET adr == Head(outer_bs)[1] IN
     IF adr \notin Allowed \/ adr \in Members(white) THEN UNCHANGED <<white, gray>>
     ELSE /\ gray' = [gray EXCEPT ![adr] = Head(outer_bs)[2]]
          /\ IF adr \in Members(gray) THEN white' = white
             ELSE \E kept \in Newest(white, WhiteLimit) : white' = Only(white, kept)
  /\ outer_bs' = Tail(outer_bs)
  /\ UNCHANGED merging

\* The last trim_gray_peerlist of merge_peerlist, and its return.
MergeEnds ==
  /\ merging
  /\ outer_bs = <<>>
  /\ \E kept \in Newest(white, WhiteLimit) : white' = Only(white, kept)
  /\ merging' = FALSE
  /\ UNCHANGED <<gray, outer_bs>>

RemoteLists == UNION {[1..n -> Entries] : n \in 0..MaxMerge}

Next ==
  \/ \E adr \in Addrs, last_seen \in Times : AppendWithPeerWhite(adr, last_seen)
  \/ \E list \in RemoteLists : MergePeerlist(list)
  \/ AppendWithPeerGray
  \/ MergeEnds

Spec == Init /\ [][Next]_vars

-----------------------------------------------------------------------------

(***************************************************************************)
(* The lists hold addresses that is_ip_allowed.                            *)
(***************************************************************************)
PeerListTypeOK ==
  /\ white \in [Addrs -> Times \cup {Absent}] /\ gray \in [Addrs -> Times \cup {Absent}]
  /\ merging \in BOOLEAN
  /\ outer_bs \in Seq(Entries)
  /\ Members(white) \cup Members(gray) \subseteq Allowed

(***************************************************************************)
(* No address is in both lists, even between two entries of a merge: a     *)
(* peer that was reached is not a candidate of the gray list any more.     *)
(***************************************************************************)
WhiteGrayDisjoint == Members(white) \cap Members(gray) = {}

(***************************************************************************)
(* Each insertion trims the other list, so that one of the two lists is    *)
(* within its limit at any time, and never both beyond.                    *)
(***************************************************************************)
OneListBounded ==
  Cardinality(Members(white)) <= WhiteLimit \/ Cardinality(Members(gray)) <= GrayLimit

(***************************************************************************)
(* merge_peerlist: when it has returned, the extra elements of the gray    *)
(* list have been deleted.                                                 *)
(***************************************************************************)
GrayBounded == ~merging => Cardinality(Members(gray)) <= GrayLimit
=============================================================================
