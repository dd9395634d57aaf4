--------------------------- MODULE PeerListProofs ---------------------------
(***************************************************************************)
(* The peer lists never share an address, and one of them is always within *)
(* its limit, for any addresses, times and limits.                         *)
(***************************************************************************)
EXTENDS PeerList, FiniteSetTheorems, TLAPS

\* The inductive invariant: disjointness needs no strengthening; the bound needs to
\* know that an address with a time is a member.
Inv == PeerListTypeOK /\ WhiteGrayDisjoint /\ OneListBounded

(***************************************************************************)
(* What is left of a list after some of its members were erased (Only).    *)
(***************************************************************************)
LEMMA OnlyKept ==
  ASSUME NEW list \in [Addrs -> Times \cup {Absent}], NEW kept \in SUBSET Members(list)
  PROVE  /\ Only(list, kept) \in [Addrs -> Times \cup {Absent}]
         /\ Members(Only(list, kept)) = kept
BY DEF Only, Members

(***************************************************************************)
(* An address that is given a time becomes a member (insert, replace).     *)
(***************************************************************************)
LEMMA PutMember ==
  ASSUME PeerListAssumption,
         NEW list \in [Addrs -> Times \cup {Absent}], NEW adr \in Addrs, NEW t \in Times
  PROVE  /\ [list EXCEPT ![adr] = t] \in [Addrs -> Times \cup {Absent}]
         /\ Members([list EXCEPT ![adr] = t]) = Members(list) \cup {adr}
BY DEF PeerListAssumption, Members, Absent

(***************************************************************************)
(* An erased address is no member (erase).                                 *)
(***************************************************************************)
LEMMA EraseMember ==
  ASSUME NEW list \in [Addrs -> Times \cup {Absent}], NEW adr \in Addrs
  PROVE  /\ [list EXCEPT ![adr] = Absent] \in [Addrs -> Times \cup {Absent}]
         /\ Members([list EXCEPT ![adr] = Absent]) = Members(list) \ {adr}
BY DEF Members, Absent

(***************************************************************************)
(* The trimming loops leave at most limit entries.                         *)
(***************************************************************************)
LEMMA TrimBound ==
  ASSUME PeerListAssumption,
         NEW list, NEW limit \in Nat, NEW kept \in Newest(list, limit), NEW some \in SUBSET kept
  PROVE  kept \subseteq Members(list) /\ Cardinality(some) <= limit
<1>1. kept \subseteq Members(list) /\ Members(list) \subseteq Addrs
  BY DEF Newest, Members
<1>2. IsFiniteSet(Members(list)) /\ IsFiniteSet(kept)
  BY <1>1, FS_Subset DEF PeerListAssumption
<1>3. Cardinality(Members(list)) \in Nat /\ Cardinality(some) <= Cardinality(kept)
      /\ Cardinality(some) \in Nat /\ Cardinality(kept) \in Nat
  BY <1>2, FS_CardinalityType, FS_Subset
<1>4. Cardinality(kept) <= limit
  BY <1>3 DEF Newest
<1> QED  BY <1>1, <1>3, <1>4

(***************************************************************************)
(* Fewer members, no larger cardinality.                                   *)
(***************************************************************************)
LEMMA FewerMembers ==
  ASSUME PeerListAssumption, NEW list, NEW some \in SUBSET Members(list), NEW limit \in Nat,
         Cardinality(Members(list)) <= limit
  PROVE  Cardinality(some) <= limit
<1>1. IsFiniteSet(Members(list))
  BY FS_Subset DEF PeerListAssumption, Members
<1>2. Cardinality(some) <= Cardinality(Members(list)) /\ Cardinality(some) \in Nat
      /\ Cardinality(Members(list)) \in Nat
  BY <1>1, FS_Subset, FS_CardinalityType
<1> QED  BY <1>2

(***************************************************************************)
(* append_with_peer_white keeps the invariant.                             *)
(***************************************************************************)
LEMMA WhiteStep ==
  ASSUME PeerListAssumption, Inv, NEW adr \in Addrs, NEW t \in Times, AppendWithPeerWhite(adr, t)
  PROVE  Inv'
<1> USE DEF PeerListAssumption
<1>0. /\ white \in [Addrs -> Times \cup {Absent}] /\ gray \in [Addrs -> Times \cup {Absent}]
      /\ Members(white) \cup Members(gray) \subseteq Allowed /\ adr \in Allowed
      /\ Members(white) \cap Members(gray) = {}
      /\ merging' = merging /\ outer_bs' = outer_bs
      /\ merging \in BOOLEAN /\ outer_bs \in Seq(Entries)
      /\ white' = [white EXCEPT ![adr] = t]
  BY DEF Inv, PeerListTypeOK, WhiteGrayDisjoint, AppendWithPeerWhite
<1>1. /\ white' \in [Addrs -> Times \cup {Absent}]
      /\ Members(white') = Members(white) \cup {adr}
  BY <1>0, PutMember
<1>2. CASE adr \in Members(white)
  <2>1. gray' = [gray EXCEPT ![adr] = Absent]
    BY <1>2 DEF AppendWithPeerWhite
  <2>2. gray' \in [Addrs -> Times \cup {Absent}] /\ Members(gray') = Members(gray) \ {adr}
    BY <1>0, <2>1, EraseMember
  <2>3. Members(white') = Members(white)
    BY <1>1, <1>2
  <2>4. OneListBounded'
    <3>1. CASE Cardinality(Members(white)) <= WhiteLimit
      BY <2>3, <3>1 DEF OneListBounded, Members
    <3>2. CASE Cardinality(Members(gray)) <= GrayLimit
      <4>1. Cardinality(Members(gray) \ {adr}) <= GrayLimit
        BY <3>2, FewerMembers
      <4> QED  BY <2>2, <4>1 DEF OneListBounded, Members
    <3> QED  BY <3>1, <3>2 DEF Inv, OneListBounded
  <2>5. PeerListTypeOK' /\ WhiteGrayDisjoint'
    BY <1>0, <1>1, <2>2 DEF PeerListTypeOK, WhiteGrayDisjoint, Members
  <2> QED  BY <2>4, <2>5 DEF Inv
<1>3. CASE adr \notin Members(white)
  <2>1. PICK kept \in Newest(gray, GrayLimit) : gray' = Only(gray, kept \ {adr})
    BY <1>3 DEF AppendWithPeerWhite
  <2>2. kept \subseteq Members(gray) /\ Cardinality(kept \ {adr}) <= GrayLimit
    BY TrimBound
  <2>3. gray' \in [Addrs -> Times \cup {Absent}] /\ Members(gray') = kept \ {adr}
    BY <1>0, <2>1, <2>2, OnlyKept
  <2>4. OneListBounded'
    BY <2>2, <2>3 DEF OneListBounded, Members
  <2>5. PeerListTypeOK' /\ WhiteGrayDisjoint'
    BY <1>0, <1>1, <2>2, <2>3 DEF PeerListTypeOK, WhiteGrayDisjoint, Members
  <2> QED  BY <2>4, <2>5 DEF Inv
<1> QED  BY <1>2, <1>3

(***************************************************************************)
(* append_with_peer_gray, for the next entry of a merge, keeps it.         *)
(***************************************************************************)
LEMMA GrayStep ==
  ASSUME PeerListAssumption, Inv, AppendWithPeerGray
  PROVE  Inv'
<1> USE DEF PeerListAssumption
<1> DEFINE adr == Head(outer_bs)[1]
           t == Head(outer_bs)[2]
<1>0. /\ white \in [Addrs -> Times \cup {Absent}] /\ gray \in [Addrs -> Times \cup {Absent}]
      /\ Members(white) \cup Members(gray) \subseteq Allowed
      /\ Members(white) \cap Members(gray) = {}
      /\ merging' = merging /\ merging \in BOOLEAN /\ outer_bs \in Seq(Entries)
      /\ outer_bs # <<>> /\ outer_bs' = Tail(outer_bs)
  BY DEF Inv, PeerListTypeOK, WhiteGrayDisjoint, AppendWithPeerGray
<1>1. outer_bs' \in Seq(Entries) /\ Head(outer_bs) \in Entries
  BY <1>0
<1>2. adr \in Addrs /\ t \in Times
  BY <1>1 DEF Entries
<1>3. CASE adr \notin Allowed \/ adr \in Members(white)
  <2>1. white' = white /\ gray' = gray
    BY <1>3 DEF AppendWithPeerGray
  <2> QED  BY <1>0, <1>1, <2>1 DEF Inv, PeerListTypeOK, WhiteGrayDisjoint, OneListBounded, Members
<1>4. CASE adr \in Allowed /\ adr \notin Members(white)
  <2>1. gray' = [gray EXCEPT ![adr] = t]
    BY <1>4 DEF AppendWithPeerGray
  <2>2. gray' \in [Addrs -> Times \cup {Absent}] /\ Members(gray') = Members(gray) \cup {adr}
    BY <1>0, <1>2, <2>1, PutMember
  <2>3. CASE adr \in Members(gray)
    <3>1. white' = white
      BY <1>4, <2>3 DEF AppendWithPeerGray
    <3>2. Members(gray') = Members(gray) /\ Members(white') = Members(white)
      BY <2>2, <2>3, <3>1
    <3>3. OneListBounded'
      BY <3>2 DEF Inv, OneListBounded, Members
    <3> QED  BY <1>0, <1>1, <2>2, <3>1, <3>2, <3>3
             DEF Inv, PeerListTypeOK, WhiteGrayDisjoint, Members
  <2>4. CASE adr \notin Members(gray)
    <3>1. PICK kept \in Newest(white, WhiteLimit) : white' = Only(white, kept)
      BY <1>4, <2>4 DEF AppendWithPeerGray
    <3>2. kept \subseteq Members(white) /\ Cardinality(kept) <= WhiteLimit
      BY TrimBound
    <3>3. white' \in [Addrs -> Times \cup {Absent}] /\ Members(white') = kept
      BY <1>0, <3>1, <3>2, OnlyKept
    <3>4. OneListBounded'
      BY <3>2, <3>3 DEF OneListBounded, Members
    <3>5. PeerListTypeOK' /\ WhiteGrayDisjoint'
      BY <1>0, <1>1, <1>4, <2>2, <3>2, <3>3 DEF PeerListTypeOK, WhiteGrayDisjoint, Members
    <3> QED  BY <3>4, <3>5 DEF Inv
  <2> QED  BY <2>3, <2>4
<1> QED  BY <1>3, <1>4

(***************************************************************************)
(* The trim at the end of merge_peerlist keeps it.                         *)
(***************************************************************************)
LEMMA EndStep ==
  ASSUME PeerListAssumption, Inv, MergeEnds
  PROVE  Inv'
<1> USE DEF PeerListAssumption
<1>1. PICK kept \in Newest(white, WhiteLimit) : white' = Only(white, kept)
  BY DEF MergeEnds
<1>2. kept \subseteq Members(white) /\ Cardinality(kept) <= WhiteLimit
  BY TrimBound
<1>3. white' \in [Addrs -> Times \cup {Absent}] /\ Members(white') = kept
  BY <1>1, <1>2, OnlyKept DEF Inv, PeerListTypeOK
<1>4. OneListBounded'
  BY <1>2, <1>3 DEF OneListBounded, Members
<1>5. merging' = FALSE /\ outer_bs' = outer_bs /\ gray' = gray
  BY DEF MergeEnds
<1>6. PeerListTypeOK' /\ WhiteGrayDisjoint'
  BY <1>2, <1>3, <1>5 DEF Inv, PeerListTypeOK, WhiteGrayDisjoint, Members
<1> QED  BY <1>4, <1>6 DEF Inv

(***************************************************************************)
(* The invariant holds initially and is kept by every operation of the     *)
(* peer lists.                                                             *)
(***************************************************************************)
THEOREM PeerListInvariant ==
  ASSUME PeerListAssumption PROVE Spec => []Inv
<1> USE DEF PeerListAssumption
<1>1. Init => Inv
  <2> SUFFICES ASSUME Init PROVE Inv
    OBVIOUS
  <2>1. Members(white) = {} /\ Members(gray) = {}
    BY DEF Init, Members
  <2>2. Cardinality({}) = 0
    BY FS_EmptySet
  <2>3. PeerListTypeOK
    <3>1. white \in [Addrs -> Times \cup {Absent}] /\ gray \in [Addrs -> Times \cup {Absent}]
      BY Zenon DEF Init
    <3>2. merging \in BOOLEAN
      BY DEF Init
    <3>3. <<>> \in Seq(Entries)
      OBVIOUS
    <3>4. outer_bs \in Seq(Entries)
      BY <3>3, Zenon DEF Init
    <3> QED  BY <2>1, <3>1, <3>2, <3>4 DEF PeerListTypeOK
  <2>4. WhiteGrayDisjoint
    BY <2>1 DEF WhiteGrayDisjoint
  <2>5. OneListBounded
    BY <2>1, <2>2 DEF OneListBounded
  <2> QED  BY <2>3, <2>4, <2>5 DEF Inv
<1>2. Inv /\ [Next]_vars => Inv'
  <2> SUFFICES ASSUME Inv, [Next]_vars PROVE Inv'
    OBVIOUS
  <2>1. ASSUME NEW adr \in Addrs, NEW t \in Times, AppendWithPeerWhite(adr, t) PROVE Inv'
    BY <2>1, WhiteStep
  <2>2. ASSUME NEW list \in RemoteLists, MergePeerlist(list) PROVE Inv'
    <3>1. PICK n \in 0..MaxMerge : list \in [1..n -> Entries]
      BY DEF RemoteLists
    <3>2. list \in Seq(Entries)
      BY <3>1
    <3> QED  BY <2>2, <3>2 DEF MergePeerlist, Inv, PeerListTypeOK, WhiteGrayDisjoint, OneListBounded, Members
  <2>3. CASE AppendWithPeerGray
    BY <2>3, GrayStep
  <2>4. CASE MergeEnds
    BY <2>4, EndStep
  <2>5. CASE UNCHANGED vars
    BY <2>5 DEF vars, Inv, PeerListTypeOK, WhiteGrayDisjoint, OneListBounded, Members
  <2> QED  BY <2>1, <2>2, <2>3, <2>4, <2>5 DEF Next
<1> QED  BY <1>1, <1>2, PTL DEF Spec

(***************************************************************************)
(* No address is ever in both lists (append_with_peer_white removes it     *)
(* from the gray one, append_with_peer_gray looks into the white one).     *)
(***************************************************************************)
THEOREM ListsAreDisjoint ==
  ASSUME PeerListAssumption PROVE Spec => []WhiteGrayDisjoint
BY PeerListInvariant, PTL DEF Inv

(***************************************************************************)
(* At any time one of the lists is within its limit (each insertion trims  *)
(* the other list).                                                        *)
(***************************************************************************)
THEOREM OneListIsBounded ==
  ASSUME PeerListAssumption PROVE Spec => []OneListBounded
BY PeerListInvariant, PTL DEF Inv
=============================================================================
