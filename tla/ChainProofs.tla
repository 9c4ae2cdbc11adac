---------------------------- MODULE ChainProofs ----------------------------
(***************************************************************************)
(* Proofs about CpioPack, for every tree, every list of devices, every set *)
(* of unreadable files and every order in which os.walk lists them, and    *)
(* about RamdiskChain, from the tree that is packed to the tree that is    *)
(* unpacked.                                                               *)
(***************************************************************************)
EXTENDS RamdiskChain, FiniteSetTheorems, SequenceTheorems, WellFoundedInduction, TLAPS

(* The items: entries of a newc archive. *)
Entries == [hdr : Headers, ino : Nat, strays : SUBSET Nat]

(* An entry made for a device of the list, and one made for a node of the   *)
(* tree that os.walk comes to.                                              *)
OfDevice(e) == \E k \in DOMAIN devs :
                 /\ e.hdr = Header(devs[k].path, "dev", FALSE, devs[k].chars, 0)
                 /\ e.strays = {}
OfNode(e) == \E n \in Reachable : e.hdr = NodeHeader(n) /\ e.strays = tree[n].strays
Makeable == {e \in Entries : OfDevice(e) \/ OfNode(e)}

PackTyped == /\ tree \in Trees /\ devs \in Manifests /\ items \in Seq(Entries)
             /\ pc \in {"packing", "written", "failed"}

AllMade  == \A i \in DOMAIN items : items[i] \in Makeable
Distinct == \A i, j \in DOMAIN items : items[i].hdr.name = items[j].hdr.name => i = j
InTurn   == pc = "packing" =>
              \A i \in DOMAIN items \cap DOMAIN devs : items[i].hdr.name = devs[i].path
NoneLeft == pc = "written" => Paths(devs) \cup Reachable \subseteq Packed
Shallow  == pc = "written" => \A i, j \in DOMAIN items : i < j => Depth(i) <= Depth(j)
Laid     == pc = "written" => out = Archive(items)

PackInv == PackTyped /\ AllMade /\ Distinct /\ InTurn /\ NoneLeft /\ Shallow /\ Laid
-----------------------------------------------------------------------------
(* The tree and the list.                                                  *)

(* A set of natural numbers that is not empty has a least one. *)
LEMMA LeastNumber ==
  ASSUME NEW T \in SUBSET Nat, T # {}
  PROVE  \E x \in T : \A y \in T : x <= y
<1> DEFINE Less == {ss \in Nat \X Nat : ss[1] < ss[2]}
<1>1. IsWellFoundedOn(Less, Nat) BY NatLessThanWellFounded DEF OpToRel
<1>2. PICK x \in T : \A y \in T : ~(<<y, x>> \in Less) BY <1>1, WFMin
<1>3. ASSUME NEW y \in T PROVE x <= y
  <2>1. x \in Nat /\ y \in Nat OBVIOUS
  <2>2. ~(y < x) BY <1>2, <2>1
  <2> QED BY <2>1, <2>2
<1> QED BY <1>3

(* What is above a node: its parent, and what is above that.                *)
LEMMA AboveParent ==
  ASSUME NEW n \in Seq(STRING), n # <<>>
  PROVE  /\ Parent(n) \in Seq(STRING) /\ Len(Parent(n)) = Len(n) - 1
         /\ Len(n) \in Nat \ {0}
         /\ Parent(n) # <<>> => Parent(n) \in Above(n)
         /\ Above(n) \subseteq Above(Parent(n)) \cup {Parent(n)}
         /\ Above(Parent(n)) \subseteq Above(n)
<1> DEFINE up == Parent(n)
<1>1. Len(n) \in Nat \ {0} BY EmptySeq
<1>2. up \in Seq(STRING) /\ Len(up) = Len(n) - 1
  <2>1. \A i \in 1..(Len(n) - 1) : n[i] \in STRING BY <1>1, ElementOfSeq
  <2>2. /\ SubSeq(n, 1, Len(n) - 1) \in Seq(STRING)
        /\ Len(SubSeq(n, 1, Len(n) - 1))
             = IF 1 <= Len(n) - 1 THEN (Len(n) - 1) - 1 + 1 ELSE 0
    BY <1>1, <2>1, SubSeqProperties
  <2> DEFINE s == SubSeq(n, 1, Len(n) - 1)
  <2>3. up = s BY DEF Parent
  <2> HIDE DEF s
  <2>4. \A l \in Nat \ {0} : (IF 1 <= l - 1 THEN (l - 1) - 1 + 1 ELSE 0) = l - 1 OBVIOUS
  <2>5. Len(s) = Len(n) - 1
    <3>1. Len(s) = IF 1 <= Len(n) - 1 THEN (Len(n) - 1) - 1 + 1 ELSE 0 BY <2>2 DEF s
    <3> QED BY <1>1, <2>4, <3>1
  <2> QED BY <2>2, <2>3, <2>5 DEF s
<1>3. \A k \in 1..(Len(n) - 2) : SubSeq(up, 1, k) = SubSeq(n, 1, k)
  <2>1. TAKE k \in 1..(Len(n) - 2)
  <2>2. \A i \in 1..k : up[i] = n[i] BY <1>1 DEF Parent
  <2> HIDE DEF up
  <2> QED BY <1>1, <1>2, <2>2
<1>4. up # <<>> => up \in Above(n)
  <2>1. HAVE up # <<>>
  <2>2. Len(n) - 1 \in 1..(Len(n) - 1) BY <1>1, <1>2, <2>1, EmptySeq
  <2> QED BY <2>2 DEF Above, Parent
<1>5. Above(n) \subseteq Above(up) \cup {up}
  <2>1. ASSUME NEW k \in 1..(Len(n) - 1) PROVE SubSeq(n, 1, k) \in Above(up) \cup {up}
    <3>1. CASE k = Len(n) - 1 BY <3>1 DEF Parent
    <3>2. CASE k # Len(n) - 1
      <4>1. k \in 1..(Len(n) - 2) /\ k \in 1..(Len(up) - 1) BY <1>1, <1>2, <3>2
      <4> QED BY <1>3, <4>1 DEF Above
    <3> QED BY <3>1, <3>2
  <2> QED BY <2>1 DEF Above
<1>6. Above(up) \subseteq Above(n)
  <2>1. ASSUME NEW k \in 1..(Len(up) - 1) PROVE SubSeq(up, 1, k) \in Above(n)
    <3>1. k \in 1..(Len(n) - 2) /\ k \in 1..(Len(n) - 1) BY <1>1, <1>2
    <3> QED BY <1>3, <3>1 DEF Above
  <2> QED BY <2>1 DEF Above
<1> QED BY <1>1, <1>2, <1>4, <1>5, <1>6

(* What the assumptions say of the tree that is packed and of its devices.  *)
LEMMA TreeIs ==
  ASSUME tree \in Trees, devs \in Manifests
  PROVE  /\ \A n \in DOMAIN tree :
              /\ n \in Seq(STRING) /\ n # <<>>
              /\ tree[n] \in Nodes /\ tree[n].chars >= 1
              /\ \A d \in Above(n) : d \in DOMAIN tree /\ tree[d].kind = "dir"
              /\ \A k \in tree[n].strays :
                   tree[n].kind \in {"reg", "lnk"} /\ k + MAGIC <= tree[n].size
              /\ n \in DOMAIN Rank /\ Rank[n] \in Int
         /\ \A n \in Paths(devs) :
              /\ n \in Seq(STRING) /\ n # <<>> /\ n \notin DOMAIN tree
              /\ \A d \in Above(n) \cap DOMAIN tree : tree[d].kind = "dir"
              /\ n \in DOMAIN Rank /\ Rank[n] \in Int
         /\ devs \in Seq([path : Seq(STRING) \ {<<>>}, chars : Nat])
         /\ Len(devs) \in Nat /\ DOMAIN devs = 1..Len(devs)
         /\ \A i, j \in DOMAIN devs : /\ devs[i].path = devs[j].path => i = j
                                      /\ devs[i].path \notin Above(devs[j].path)
<1>1. IsFileTree(tree) /\ IsDeviceList(devs) BY TreesAssumption, ManifestsAssumption
<1>2. DOMAIN tree \in {DOMAIN t : t \in Trees} OBVIOUS
<1>3. Paths(devs) \in {Paths(m) : m \in Manifests} OBVIOUS
<1>4. /\ devs \in Seq([path : Seq(STRING) \ {<<>>}, chars : Nat])
      /\ \A i, j \in DOMAIN devs : /\ devs[i].path = devs[j].path => i = j
                                   /\ devs[i].path \notin Above(devs[j].path)
  BY <1>1 DEF IsDeviceList
<1>5. Len(devs) \in Nat /\ DOMAIN devs = 1..Len(devs) BY <1>4
<1>6. ASSUME NEW n \in DOMAIN tree
      PROVE  /\ n \in Seq(STRING) /\ n # <<>>
             /\ tree[n] \in Nodes /\ tree[n].chars >= 1
             /\ \A d \in Above(n) : d \in DOMAIN tree /\ tree[d].kind = "dir"
             /\ \A k \in tree[n].strays :
                  tree[n].kind \in {"reg", "lnk"} /\ k + MAGIC <= tree[n].size
  BY <1>1 DEF IsFileTree
<1>7. ASSUME NEW n \in Paths(devs)
      PROVE  /\ n \in Seq(STRING) /\ n # <<>> /\ n \notin DOMAIN tree
             /\ \A d \in Above(n) \cap DOMAIN tree : tree[d].kind = "dir"
  <2>1. n \in Seq(STRING) \ {<<>>}
    <3>1. PICK i \in DOMAIN devs : n = devs[i].path BY DEF Paths
    <3>2. devs[i] \in [path : Seq(STRING) \ {<<>>}, chars : Nat]
      BY <1>4, <1>5, ElementOfSeq
    <3> QED BY <3>1, <3>2
  <2> QED BY <1>1, <2>1 DEF IsFileTree
<1>8. \A n \in DOMAIN tree \cup Paths(devs) : n \in DOMAIN Rank /\ Rank[n] \in Int
  BY <1>2, <1>3, RankAssumption
<1> QED BY <1>4, <1>5, <1>6, <1>7, <1>8

(* The header of a node says what the node is. *)
LEMMA NodeHeaderIs ==
  ASSUME tree \in Trees, devs \in Manifests, NEW n \in DOMAIN tree
  PROVE  /\ NodeHeader(n) \in Headers /\ NodeHeader(n).name = n /\ NodeHeader(n).ns >= 1
         /\ tree[n].strays \subseteq Nat
         /\ NodeHeader(n).kind = IF tree[n].kind \in {"dir", "dirlink"} THEN "dir" ELSE tree[n].kind
         /\ NodeHeader(n).slash => NodeHeader(n).kind = "dir"
         /\ tree[n].kind \in {"reg", "lnk"} => NodeHeader(n).fs = tree[n].size
<1>1. n \in Seq(STRING) /\ tree[n] \in Nodes BY TreeIs
<1>2. /\ tree[n].chars \in Nat /\ tree[n].size \in Nat /\ tree[n].strays \subseteq Nat
      /\ tree[n].kind \in {"dir", "reg", "lnk", "dirlink"}
  BY <1>1 DEF Nodes
<1>3. CASE tree[n].kind \in {"dir", "dirlink"}
  <2>1. NodeHeader(n) = Header(n, "dir", TRUE, tree[n].chars, 0) BY <1>3 DEF NodeHeader
  <2>2. "dir" \in Kinds BY DEF Kinds
  <2> DEFINE h == Header(n, "dir", TRUE, tree[n].chars, 0)
  <2>3. /\ h \in Headers /\ h.name = n /\ h.ns >= 1 /\ h.kind = "dir"
        /\ h.slash = TRUE /\ h.fs = 0
    BY <1>1, <1>2, <2>2 DEF Header, Headers
  <2> HIDE DEF h
  <2> QED BY <1>2, <1>3, <2>1, <2>3 DEF h
<1>4. CASE tree[n].kind \in {"reg", "lnk"}
  <2>1. NodeHeader(n) = Header(n, tree[n].kind, FALSE, tree[n].chars, tree[n].size)
    BY <1>4 DEF NodeHeader
  <2>2. tree[n].kind \in Kinds BY <1>4 DEF Kinds
  <2> DEFINE h == Header(n, tree[n].kind, FALSE, tree[n].chars, tree[n].size)
  <2>3. /\ h \in Headers /\ h.name = n /\ h.ns >= 1 /\ h.kind = tree[n].kind
        /\ h.slash = FALSE /\ h.fs = tree[n].size
    BY <1>1, <1>2, <2>2 DEF Header, Headers
  <2> HIDE DEF h
  <2> QED BY <1>2, <1>4, <2>1, <2>3 DEF h
<1> QED BY <1>2, <1>3, <1>4


-----------------------------------------------------------------------------
(* The items, one after the other.                                         *)

(* What an item says of the name it stands for. *)
LEMMA MadeIs ==
  ASSUME PackTyped, NEW e \in Makeable
  PROVE  /\ e.hdr.name \in Paths(devs) \cup Reachable
         /\ e.hdr.name \in Seq(STRING) /\ e.hdr.name # <<>>
         /\ e.hdr.name \in DOMAIN Rank /\ Rank[e.hdr.name] \in Int
<1>1. CASE OfDevice(e)
  <2>1. PICK k \in DOMAIN devs : e.hdr = Header(devs[k].path, "dev", FALSE, devs[k].chars, 0)
    BY <1>1 DEF OfDevice
  <2>2. e.hdr.name = devs[k].path BY <2>1 DEF Header
  <2>3. devs[k].path \in Paths(devs) BY DEF Paths
  <2> QED BY <2>2, <2>3, TreeIs DEF PackTyped
<1>2. CASE OfNode(e)
  <2>1. PICK n \in Reachable : e.hdr = NodeHeader(n) BY <1>2 DEF OfNode
  <2>2. n \in DOMAIN tree BY DEF Reachable
  <2>3. e.hdr.name = n BY <2>1, <2>2, NodeHeaderIs DEF PackTyped
  <2> QED BY <2>2, <2>3, TreeIs DEF PackTyped
<1> QED BY <1>1, <1>2 DEF Makeable

(* While the tree and the list stay, so does what can be made of them. *)
LEMMA MakeableStays ==
  ASSUME UNCHANGED <<tree, devs, unreadable>>
  PROVE  Makeable' = Makeable /\ Reachable' = Reachable
<1>1. Reachable' = Reachable BY DEF Reachable
<1>2. ASSUME NEW e
      PROVE  (OfDevice(e)' <=> OfDevice(e)) /\ (OfNode(e)' <=> OfNode(e))
  BY <1>1 DEF OfDevice, OfNode, NodeHeader
<1> QED BY <1>1, <1>2 DEF Makeable

(* One more item keeps what is said of each of them. *)
LEMMA OneMore ==
  ASSUME PackInv, pc = "packing", NEW hdr \in Headers, NEW strays \in SUBSET Nat,
         MakeEntry(hdr, strays), UNCHANGED <<tree, devs, unreadable, out, pc>>,
         hdr.name \notin Packed,
         OfDevice([hdr |-> hdr, ino |-> FIRSTINO + Len(items), strays |-> strays])
           \/ OfNode([hdr |-> hdr, ino |-> FIRSTINO + Len(items), strays |-> strays]),
         Len(items) + 1 \in DOMAIN devs => hdr.name = devs[Len(items) + 1].path
  PROVE  PackInv'
<1> DEFINE e == [hdr |-> hdr, ino |-> FIRSTINO + Len(items), strays |-> strays]
           n == Len(items)
<1>1. items \in Seq(Entries) /\ items' = Append(items, e) BY DEF PackInv, PackTyped, MakeEntry
<1>2. n \in Nat /\ DOMAIN items = 1..n BY <1>1
<1>3. e \in Entries
  <2>1. FIRSTINO + n \in Nat BY <1>2 DEF FIRSTINO
  <2> QED BY <2>1 DEF Entries
<1>4. e.hdr = hdr OBVIOUS
<1>5. OfDevice(e) \/ OfNode(e) OBVIOUS
<1> HIDE DEF e, n
<1>6. /\ items' \in Seq(Entries) /\ DOMAIN items' = 1..(n + 1) /\ items'[n + 1] = e
      /\ \A i \in 1..n : items'[i] = items[i]
  BY <1>1, <1>2, <1>3 DEF n
<1>7. \A i \in 1..(n + 1) : i \in 1..n \/ i = n + 1 BY <1>2
<1>8. PackTyped' BY <1>6 DEF PackInv, PackTyped
<1>9. AllMade'
  <2>1. e \in Makeable BY <1>3, <1>5 DEF Makeable
  <2>2. \A i \in 1..n : items[i] \in Makeable BY <1>2 DEF PackInv, AllMade
  <2> QED BY <1>6, <1>7, <2>1, <2>2, MakeableStays DEF AllMade
<1>10. Distinct'
  <2>1. \A i \in 1..n : items[i].hdr.name # hdr.name BY <1>2 DEF Packed
  <2>2. \A i, j \in 1..n : items[i].hdr.name = items[j].hdr.name => i = j
    BY <1>2 DEF PackInv, Distinct
  <2> QED BY SMTT(60), <1>4, <1>6, <1>7, <2>1, <2>2 DEF Distinct
<1>11. InTurn'
  <2>1. \A i \in 1..n \cap DOMAIN devs : items[i].hdr.name = devs[i].path
    BY <1>2 DEF PackInv, InTurn
  <2> QED BY <1>4, <1>6, <1>7, <2>1 DEF InTurn, n
<1>12. pc' = "packing" OBVIOUS
<1> QED BY <1>8, <1>9, <1>10, <1>11, <1>12 DEF PackInv, NoneLeft, Shallow, Laid

(* A device of the list keeps the invariant: no item has its name yet. *)
LEMMA AddDeviceKeeps ==
  ASSUME PackInv, AddDevice
  PROVE  PackInv'
<1> DEFINE d == devs[Len(items) + 1]
           hdr == Header(d.path, "dev", FALSE, d.chars, 0)
<1>1. /\ pc = "packing" /\ Len(items) < Len(devs) /\ MakeEntry(hdr, {})
      /\ UNCHANGED <<tree, devs, unreadable, out, pc>>
  BY DEF AddDevice
<1>2. /\ tree \in Trees /\ devs \in Manifests /\ items \in Seq(Entries)
  BY DEF PackInv, PackTyped
<1>3. /\ Len(items) \in Nat /\ DOMAIN items = 1..Len(items)
      /\ Len(devs) \in Nat /\ DOMAIN devs = 1..Len(devs)
      /\ devs \in Seq([path : Seq(STRING) \ {<<>>}, chars : Nat])
      /\ \A i, j \in DOMAIN devs : devs[i].path = devs[j].path => i = j
  BY SMTT(60), <1>2, TreeIs
<1>4. Len(items) + 1 \in DOMAIN devs BY <1>1, <1>3
<1>5. d.path \in Seq(STRING) /\ d.chars \in Nat
  <2>1. d \in [path : Seq(STRING) \ {<<>>}, chars : Nat] BY <1>3, <1>4, ElementOfSeq
  <2> QED BY <2>1
<1>6. hdr \in Headers /\ hdr.name = d.path BY <1>5 DEF Header, Headers, Kinds
<1>7. hdr.name \notin Packed
  <2>1. \A i \in DOMAIN items : i \in DOMAIN devs /\ i # Len(items) + 1 BY SMTT(60), <1>1, <1>3
  <2>2. \A i \in DOMAIN items : items[i].hdr.name = devs[i].path
    BY <1>1, <2>1 DEF PackInv, InTurn
  <2> QED BY <1>3, <1>4, <1>6, <2>1, <2>2 DEF Packed
<1>8. OfDevice([hdr |-> hdr, ino |-> FIRSTINO + Len(items), strays |-> {}])
  BY <1>4 DEF OfDevice
<1> HIDE DEF hdr
<1> QED BY <1>1, <1>6, <1>7, <1>8, OneMore

(* A node that os.walk comes to lies below no directory that is not listed. *)
LEMMA ReadyIs ==
  ASSUME PackInv, NEW n \in Ready
  PROVE  n \in Reachable /\ n \in DOMAIN tree /\ n \notin Packed
<1>1. n \in DOMAIN tree /\ n \notin Packed /\ Listed(Parent(n)) BY DEF Ready
<1>2. /\ n \in Seq(STRING) /\ n # <<>> /\ \A d \in Above(n) : d \in DOMAIN tree
  BY <1>1, TreeIs DEF PackInv, PackTyped
<1>3. Parent(n) \notin unreadable /\ (Parent(n) = <<>> \/ Parent(n) \in Packed)
  BY <1>1 DEF Listed
<1>4. CASE Parent(n) = <<>>
  <2>1. Above(n) \subseteq {<<>>}
    <3>1. Above(<<>>) = {} BY DEF Above
    <3> QED BY <1>2, <1>4, <3>1, AboveParent
  <2> QED BY <1>1, <1>3, <1>4, <2>1 DEF Reachable
<1>5. CASE Parent(n) # <<>>
  <2>1. Parent(n) \in DOMAIN tree BY <1>2, <1>5, AboveParent
  <2>2. Parent(n) \in Packed BY <1>3, <1>5
  <2>3. PICK i \in DOMAIN items : items[i].hdr.name = Parent(n) BY <2>2 DEF Packed
  <2>4. items[i] \in Makeable BY DEF PackInv, AllMade
  <2>5. Parent(n) \in Paths(devs) \cup Reachable BY <2>3, <2>4, MadeIs DEF PackInv
  <2>6. Parent(n) \notin Paths(devs) BY <2>1, TreeIs DEF PackInv, PackTyped
  <2>7. unreadable \cap (Above(Parent(n)) \cup {<<>>}) = {} BY <2>5, <2>6 DEF Reachable
  <2>8. Above(n) \subseteq Above(Parent(n)) \cup {Parent(n)} BY <1>2, AboveParent
  <2>9. unreadable \cap (Above(n) \cup {<<>>}) = {} BY <1>3, <2>7, <2>8
  <2> QED BY <1>1, <2>9 DEF Reachable
<1> QED BY <1>4, <1>5

(* Nor does a node of the tree: it is packed once, and under its own name. *)
LEMMA AddNodeKeeps ==
  ASSUME PackInv, NEW n \in DOMAIN tree, AddNode(n)
  PROVE  PackInv'
<1>1. /\ pc = "packing" /\ Len(items) >= Len(devs) /\ n \in Ready
      /\ MakeEntry(NodeHeader(n), tree[n].strays)
      /\ UNCHANGED <<tree, devs, unreadable, out, pc>>
  BY DEF AddNode
<1>2. tree \in Trees /\ devs \in Manifests /\ items \in Seq(Entries) BY DEF PackInv, PackTyped
<1>3. n \in Reachable /\ n \notin Packed BY <1>1, ReadyIs
<1>4. NodeHeader(n) \in Headers /\ NodeHeader(n).name = n /\ tree[n].strays \subseteq Nat
  BY <1>2, NodeHeaderIs
<1>5. OfNode([hdr |-> NodeHeader(n), ino |-> FIRSTINO + Len(items), strays |-> tree[n].strays])
  BY <1>3 DEF OfNode
<1>6. Len(items) + 1 \notin DOMAIN devs
  <2>1. Len(items) \in Nat /\ Len(devs) \in Nat /\ DOMAIN devs = 1..Len(devs) BY <1>2, TreeIs
  <2> QED BY <1>1, <2>1
<1> QED BY <1>1, <1>3, <1>4, <1>5, <1>6, OneMore

(* When nothing is left to list, every node that can be reached was packed. *)
LEMMA AllPacked ==
  ASSUME PackInv, pc = "packing", Len(items) >= Len(devs), Ready = {}
  PROVE  Paths(devs) \cup Reachable \subseteq Packed
<1>1. tree \in Trees /\ devs \in Manifests /\ items \in Seq(Entries) BY DEF PackInv, PackTyped
<1>2. Paths(devs) \subseteq Packed
  <2>1. /\ Len(items) \in Nat /\ DOMAIN items = 1..Len(items)
        /\ Len(devs) \in Nat /\ DOMAIN devs = 1..Len(devs)
    BY <1>1, TreeIs
  <2>2. ASSUME NEW k \in DOMAIN devs PROVE devs[k].path \in Packed
    <3>1. k \in DOMAIN items \cap DOMAIN devs BY <2>1
    <3> QED BY <3>1 DEF PackInv, InTurn, Packed
  <2> QED BY <2>2 DEF Paths
<1>3. Reachable \subseteq Packed
  <2> DEFINE T == {l \in Nat : \E n \in Reachable \ Packed : Len(n) = l}
  <2>1. SUFFICES ASSUME NEW n0 \in Reachable \ Packed PROVE FALSE OBVIOUS
  <2>2. \A n \in Reachable : /\ n \in DOMAIN tree /\ n \in Seq(STRING) /\ n # <<>>
                             /\ \A d \in Above(n) : d \in DOMAIN tree /\ tree[d].kind = "dir"
    BY <1>1, TreeIs DEF Reachable
  <2>3. \A n \in Reachable : Len(n) \in Nat BY <2>2
  <2>4. T # {} /\ T \subseteq Nat BY <2>1, <2>3
  <2>5. PICK l \in T : \A y \in T : l <= y BY <2>4, LeastNumber
  <2>6. PICK n \in Reachable \ Packed : Len(n) = l BY <2>5
  <2>7. \A m \in Reachable : Len(m) < l => m \in Packed BY <2>3, <2>5, <2>4
  <2> HIDE DEF T
  <2> DEFINE d == Parent(n)
  <2>8. /\ Len(d) = l - 1 /\ (d # <<>> => d \in Above(n)) /\ Above(d) \subseteq Above(n)
        /\ Len(n) \in Nat
    BY <2>2, <2>6, AboveParent
  <2>9. unreadable \cap (Above(n) \cup {<<>>}) = {} BY <2>6 DEF Reachable
  <2>10. Listed(d)
    <3>1. CASE d = <<>> BY <2>9, <3>1 DEF Listed
    <3>2. CASE d # <<>>
      <4>1. d \in DOMAIN tree /\ tree[d].kind = "dir" /\ d \notin unreadable
        BY <2>2, <2>6, <2>8, <2>9, <3>2
      <4>2. d \in Reachable BY <2>8, <2>9, <4>1 DEF Reachable
      <4>3. d \in Packed BY <2>6, <2>7, <2>8, <4>2
      <4> QED BY <4>1, <4>3 DEF Listed
    <3> QED BY <3>1, <3>2
  <2>11. n \in Ready BY <2>2, <2>6, <2>10 DEF Ready
  <2> QED BY <2>11
<1> QED BY <1>2, <1>3

-----------------------------------------------------------------------------
(* The sort.                                                               *)

(* The order of the items is a strict one, and total. *)
LEMMA PrecedesOrders ==
  ASSUME PackTyped, AllMade
  PROVE  /\ \A j \in DOMAIN items : ~Precedes(j, j)
         /\ \A j, k \in DOMAIN items : j # k => Precedes(j, k) \/ Precedes(k, j)
         /\ \A i, j, k \in DOMAIN items : Precedes(i, j) /\ Precedes(j, k) => Precedes(i, k)
         /\ \A j, k \in DOMAIN items : Precedes(j, k) => Depth(j) <= Depth(k)
<1>1. DOMAIN items \subseteq Nat BY LenProperties DEF PackTyped
<1>2. \A k \in DOMAIN items : Depth(k) \in Nat /\ Key(k) \in Int
  <2>1. TAKE k \in DOMAIN items
  <2>2. items[k] \in Makeable BY DEF AllMade
  <2>3. items[k].hdr.name \in Seq(STRING) /\ Rank[items[k].hdr.name] \in Int BY <2>2, MadeIs
  <2> QED BY <2>3 DEF Depth, Key
<1>3. \A j, k \in DOMAIN items : j \in Nat /\ k \in Nat /\ Depth(j) \in Nat /\ Depth(k) \in Nat
                                 /\ Key(j) \in Int /\ Key(k) \in Int
  BY <1>1, <1>2
<1>4. \A j \in DOMAIN items : ~Precedes(j, j) BY <1>3 DEF Precedes
<1>5. \A j, k \in DOMAIN items : j # k => Precedes(j, k) \/ Precedes(k, j) BY <1>3 DEF Precedes
<1>6. ASSUME NEW i \in DOMAIN items, NEW j \in DOMAIN items, NEW k \in DOMAIN items,
             Precedes(i, j), Precedes(j, k)
      PROVE  Precedes(i, k)
  BY <1>3, <1>6 DEF Precedes
<1>7. \A j, k \in DOMAIN items : Precedes(j, k) => Depth(j) <= Depth(k) BY <1>3 DEF Precedes
<1> QED BY <1>4, <1>5, <1>6, <1>7

(* Counting what comes before gives each item a place of its own. *)
LEMMA Places ==
  ASSUME PackTyped, AllMade,
         NEW place, place = [k \in DOMAIN items |->
                               1 + Cardinality({j \in DOMAIN items : Precedes(j, k)})]
  PROVE  /\ place \in [DOMAIN items -> DOMAIN items]
         /\ \A j, k \in DOMAIN items : Precedes(j, k) => place[j] < place[k]
         /\ \A j, k \in DOMAIN items : place[j] = place[k] => j = k
         /\ \A i \in DOMAIN items : \E k \in DOMAIN items : place[k] = i
<1> DEFINE D == DOMAIN items   n == Len(items)
           B(k) == {j \in D : Precedes(j, k)}
<1>1. n \in Nat /\ D = 1..n BY LenProperties DEF PackTyped
<1> HIDE DEF n
<1>2. IsFiniteSet(D) /\ Cardinality(D) = n
  <2>1. IsFiniteSet(1..n) /\ Cardinality(1..n) = IF 1 > n THEN 0 ELSE n - 1 + 1
    BY <1>1, FS_Interval
  <2> QED BY <1>1, <2>1
<1>3. /\ \A j \in D : ~Precedes(j, j)
      /\ \A j, k \in D : j # k => Precedes(j, k) \/ Precedes(k, j)
      /\ \A i, j, k \in D : Precedes(i, j) /\ Precedes(j, k) => Precedes(i, k)
  BY PrecedesOrders
<1>4. \A k \in D : place[k] = 1 + Cardinality(B(k)) OBVIOUS
<1> HIDE DEF D
<1>5. ASSUME NEW k \in D
      PROVE  IsFiniteSet(B(k)) /\ Cardinality(B(k)) \in 0..(n - 1)
  <2>1. B(k) \subseteq D \ {k} BY <1>3
  <2>2. IsFiniteSet(D \ {k}) /\ Cardinality(D \ {k}) = n - 1 BY <1>2, FS_RemoveElement
  <2>3. IsFiniteSet(B(k)) /\ Cardinality(B(k)) <= n - 1 BY <2>1, <2>2, FS_Subset
  <2>4. Cardinality(B(k)) \in Nat BY <2>3, FS_CardinalityType
  <2> QED BY <1>1, <2>3, <2>4
<1>6. ASSUME NEW k \in D PROVE place[k] \in D
  <2>1. place[k] = 1 + Cardinality(B(k)) BY <1>4
  <2>2. Cardinality(B(k)) \in 0..(n - 1) BY <1>5
  <2> HIDE DEF B
  <2> QED BY <1>1, <2>1, <2>2
<1>7. ASSUME NEW j \in D, NEW k \in D, Precedes(j, k) PROVE place[j] < place[k]
  <2>1. B(j) \subseteq B(k) \ {j} BY <1>3, <1>7
  <2>2. j \in B(k) BY <1>7
  <2>3. IsFiniteSet(B(k)) /\ Cardinality(B(k)) \in 0..(n - 1) /\ Cardinality(B(j)) \in 0..(n - 1)
    BY <1>5
  <2> HIDE DEF B
  <2>4. IsFiniteSet(B(k) \ {j}) /\ Cardinality(B(k) \ {j}) = Cardinality(B(k)) - 1
    BY <2>2, <2>3, FS_RemoveElement
  <2>5. Cardinality(B(j)) <= Cardinality(B(k)) - 1 BY <2>1, <2>4, FS_Subset
  <2>6. Cardinality(B(j)) \in Int /\ Cardinality(B(k)) \in Int BY <1>1, <2>3
  <2>7. place[j] = 1 + Cardinality(B(j)) /\ place[k] = 1 + Cardinality(B(k)) BY <1>4
  <2>8. \A x, y \in Int : x <= y - 1 => 1 + x < 1 + y OBVIOUS
  <2>9. 1 + Cardinality(B(j)) < 1 + Cardinality(B(k)) BY <2>5, <2>6, <2>8
  <2> QED BY <2>7, <2>9
<1>8. ASSUME NEW j \in D, NEW k \in D, place[j] = place[k] PROVE j = k
  <2>1. ASSUME j # k PROVE FALSE
    <3>1. place[j] \in Int /\ place[k] \in Int
      <4>1. place[j] \in D /\ place[k] \in D BY <1>6
      <4>2. D \subseteq Int BY <1>1
      <4> QED BY <4>1, <4>2
    <3>2. Precedes(j, k) \/ Precedes(k, j) BY <1>3, <2>1
    <3>3. place[j] < place[k] \/ place[k] < place[j] BY <1>7, <3>2
    <3> QED BY <1>8, <3>1, <3>3
  <2> QED BY <2>1
<1>9. place \in [D -> D] BY <1>6 DEF D
<1>10. place \in Injection(D, D) BY ZenonT(60), <1>8, <1>9 DEF Injection, IsInjective
<1>11. place \in Surjection(D, D) BY <1>2, <1>10, FS_Injection
<1>12. \A i \in D : \E k \in D : place[k] = i BY <1>11 DEF Surjection
<1> QED BY <1>7, <1>8, <1>9, <1>12 DEF D

(* The sort loses nothing, repeats nothing, and puts the shallow first. *)
LEMMA SortedIs ==
  ASSUME PackTyped, AllMade, Distinct
  PROVE  /\ Sorted \in Seq(Entries) /\ DOMAIN Sorted = DOMAIN items /\ Len(Sorted) = Len(items)
         /\ \A i \in DOMAIN items : \E k \in DOMAIN items : Sorted[i] = items[k]
         /\ \A k \in DOMAIN items : \E i \in DOMAIN items : Sorted[i] = items[k]
         /\ \A i, j \in DOMAIN items : Sorted[i].hdr.name = Sorted[j].hdr.name => i = j
         /\ \A i, j \in DOMAIN items : i < j => Len(Sorted[i].hdr.name) <= Len(Sorted[j].hdr.name)
<1> DEFINE D == DOMAIN items
           place == [k \in D |-> 1 + Cardinality({j \in D : Precedes(j, k)})]
           at == [i \in D |-> CHOOSE k \in D : place[k] = i]
<1>1. D \subseteq Nat /\ D = 1..Len(items) /\ Len(items) \in Nat /\ items \in [D -> Entries]
  BY LenProperties DEF PackTyped
<1>2. Sorted = [i \in D |-> items[at[i]]]
  <2> DEFINE at0(i) == CHOOSE k \in D : 1 + Cardinality({j \in D : Precedes(j, k)}) = i
  <2>1. Sorted = [i \in D |-> items[at0(i)]] BY DEF Sorted
  <2>2. \A i \in D : at0(i) = at[i]
    <3>1. TAKE i \in D
    <3>2. \A k \in D : place[k] = 1 + Cardinality({j \in D : Precedes(j, k)}) OBVIOUS
    <3>3. at[i] = CHOOSE k \in D : place[k] = i OBVIOUS
    <3> HIDE DEF place, at
    <3> QED BY <3>2, <3>3
  <2> HIDE DEF at0, at, D
  <2> QED BY <2>1, <2>2
<1>3. /\ place \in [D -> D]
      /\ \A j, k \in D : Precedes(j, k) => place[j] < place[k]
      /\ \A j, k \in D : place[j] = place[k] => j = k
      /\ \A i \in D : \E k \in D : place[k] = i
  BY Places
<1> HIDE DEF place
<1>4. \A i \in D : at[i] \in D /\ place[at[i]] = i BY <1>3
<1> HIDE DEF at
<1> HIDE DEF D
<1>5. \A k \in D : place[k] \in D /\ at[place[k]] = k
  <2>1. TAKE k \in D
  <2>2. place[k] \in D BY <1>3
  <2>3. at[place[k]] \in D /\ place[at[place[k]]] = place[k] BY <1>4, <2>2
  <2> QED BY <1>3, <2>2, <2>3
<1>6. Sorted \in [D -> Entries] BY <1>1, <1>2, <1>4
<1>7. Sorted \in Seq(Entries) /\ Len(Sorted) = Len(items) BY <1>1, <1>6
<1>8. \A i, j \in D : i < j => Len(Sorted[i].hdr.name) <= Len(Sorted[j].hdr.name)
  <2>1. TAKE i, j \in D
  <2>2. HAVE i < j
  <2>3. at[i] \in D /\ at[j] \in D /\ place[at[i]] = i /\ place[at[j]] = j BY <1>4
  <2>4. i \in Nat /\ j \in Nat BY <1>1
  <2>5. ASSUME Precedes(at[j], at[i]) PROVE FALSE
    <3>1. place[at[j]] < place[at[i]] BY <1>3, <2>3, <2>5
    <3> QED BY <2>2, <2>3, <2>4, <3>1
  <2>6. at[i] # at[j] BY <2>2, <2>3, <2>4
  <2>7. /\ \A x, y \in D : x # y => Precedes(x, y) \/ Precedes(y, x)
        /\ \A x, y \in D : Precedes(x, y) => Depth(x) <= Depth(y)
    BY PrecedesOrders DEF D
  <2>8. Precedes(at[i], at[j]) BY <2>3, <2>5, <2>6, <2>7
  <2>9. Depth(at[i]) <= Depth(at[j]) BY <2>3, <2>7, <2>8
  <2> QED BY <1>2, <2>9 DEF Depth
<1>9. \A i, j \in D : Sorted[i].hdr.name = Sorted[j].hdr.name => i = j
  <2>1. TAKE i, j \in D
  <2>2. HAVE Sorted[i].hdr.name = Sorted[j].hdr.name
  <2>3. Sorted[i] = items[at[i]] /\ Sorted[j] = items[at[j]] BY <1>2
  <2>4. at[i] = at[j] BY <1>4, <2>2, <2>3 DEF Distinct, D
  <2> QED BY <1>4, <2>4
<1>10. \A i \in D : \E k \in D : Sorted[i] = items[k] BY <1>2, <1>4
<1>11. \A k \in D : \E i \in D : Sorted[i] = items[k] BY <1>2, <1>5
<1> QED BY <1>6, <1>7, <1>8, <1>9, <1>10, <1>11 DEF D

(* The items are put in order and the archive is laid out. *)
LEMMA WriteKeeps ==
  ASSUME PackInv, Write
  PROVE  PackInv'
<1>1. /\ pc = "packing" /\ Len(items) >= Len(devs) /\ Ready = {} /\ items' = Sorted
      /\ out' = Archive(items') /\ pc' = "written" /\ UNCHANGED <<tree, devs, unreadable>>
  BY DEF Write
<1>2. PackTyped /\ AllMade /\ Distinct BY DEF PackInv
<1>3. /\ Sorted \in Seq(Entries) /\ DOMAIN Sorted = DOMAIN items
      /\ \A i \in DOMAIN items : \E k \in DOMAIN items : Sorted[i] = items[k]
      /\ \A k \in DOMAIN items : \E i \in DOMAIN items : Sorted[i] = items[k]
      /\ \A i, j \in DOMAIN items : Sorted[i].hdr.name = Sorted[j].hdr.name => i = j
      /\ \A i, j \in DOMAIN items : i < j => Len(Sorted[i].hdr.name) <= Len(Sorted[j].hdr.name)
  BY <1>2, SortedIs
<1>4. PackTyped' BY <1>1, <1>2, <1>3 DEF PackTyped
<1>5. AllMade' BY <1>1, <1>2, <1>3, MakeableStays DEF AllMade
<1>6. Distinct' BY <1>1, <1>3 DEF Distinct
<1>7. Packed \subseteq Packed'
  <2>1. ASSUME NEW k \in DOMAIN items PROVE items[k].hdr.name \in Packed'
    <3>1. PICK i \in DOMAIN items : Sorted[i] = items[k] BY <1>3
    <3>2. i \in DOMAIN items' /\ items'[i] = items[k] BY <1>1, <1>3, <3>1
    <3> QED BY <3>2 DEF Packed
  <2> QED BY <2>1 DEF Packed
<1>8. NoneLeft' BY <1>1, <1>7, AllPacked, MakeableStays DEF NoneLeft
<1>9. Shallow' BY SMTT(60), <1>1, <1>3 DEF Shallow, Depth
<1>10. Laid' BY <1>1 DEF Laid, Archive
<1> QED BY <1>1, <1>4, <1>5, <1>6, <1>8, <1>9, <1>10 DEF PackInv, InTurn

-----------------------------------------------------------------------------
(* The specification.                                                      *)

(* At the start there are no items. *)
LEMMA PackStarts == Init => PackInv
<1>1. HAVE Init
<1>2. items \in Seq(Entries) /\ DOMAIN items = {} /\ pc = "packing" /\ tree \in Trees
      /\ devs \in Manifests
  BY <1>1 DEF Init
<1> QED
  BY <1>2 DEF PackInv, PackTyped, AllMade, Distinct, InTurn, NoneLeft, Shallow, Laid

(* A file that cannot be opened ends the program without an archive. *)
LEMMA CannotOpenKeeps ==
  ASSUME PackInv, NEW n \in DOMAIN tree, CannotOpen(n)
  PROVE  PackInv'
<1>1. pc' = "failed" /\ UNCHANGED <<tree, devs, unreadable, items, out>> BY DEF CannotOpen
<1>2. PackTyped' BY <1>1 DEF PackInv, PackTyped
<1>3. AllMade' BY <1>1, MakeableStays DEF PackInv, AllMade
<1>4. Distinct' BY <1>1 DEF PackInv, Distinct
<1> QED BY <1>1, <1>2, <1>3, <1>4 DEF PackInv, InTurn, NoneLeft, Shallow, Laid

(* Nor does a step that changes nothing of it. *)
LEMMA PackStays ==
  ASSUME PackInv, UNCHANGED packVars
  PROVE  PackInv'
<1>1. UNCHANGED <<tree, devs, unreadable, items, out, pc>> BY DEF packVars
<1>2. PackTyped' BY <1>1 DEF PackInv, PackTyped
<1>3. AllMade' BY <1>1, MakeableStays DEF PackInv, AllMade
<1>4. Distinct' /\ InTurn' BY <1>1 DEF PackInv, Distinct, InTurn
<1>5. NoneLeft' BY <1>1, MakeableStays DEF PackInv, NoneLeft, Packed
<1>6. Shallow' BY <1>1 DEF PackInv, Shallow, Depth
<1>7. Laid' BY <1>1 DEF PackInv, Laid
<1> QED BY <1>2, <1>3, <1>4, <1>5, <1>6, <1>7 DEF PackInv

(* No step of the packer breaks the invariant. *)
LEMMA PackNext ==
  ASSUME PackInv, [Next]_packVars
  PROVE  PackInv'
<1>1. CASE AddDevice BY <1>1, AddDeviceKeeps
<1>2. CASE Write BY <1>2, WriteKeeps
<1>3. CASE \E n \in DOMAIN tree : AddNode(n) BY <1>3, AddNodeKeeps
<1>4. CASE \E n \in DOMAIN tree : CannotOpen(n) BY <1>4, CannotOpenKeeps
<1>5. CASE UNCHANGED packVars BY <1>5, PackStays
<1> QED BY <1>1, <1>2, <1>3, <1>4, <1>5 DEF Next

(* The invariant of the packer: every item was made from a device or a node *)
(* that can be reached, none twice, and when the archive is written none is *)
(* left and the shallow come first.                                         *)
THEOREM PackInvariant == Spec => []PackInv
<1>1. Init => PackInv BY PackStarts
<1>2. PackInv /\ [Next]_packVars => PackInv' BY PackNext
<1> QED BY <1>1, <1>2, PTL DEF Spec

(* The archive holds the devices and every node of the tree that lies below *)
(* no directory that cannot be listed, each once (pack_dir).                *)
THEOREM NothingLostTheorem == Spec => []NothingLost
<1>1. PackInv => NothingLost
  <2>1. SUFFICES ASSUME PackInv, pc = "written"
                 PROVE  /\ Packed = Paths(devs) \cup Reachable
                        /\ Len(items) = Cardinality(Packed)
    BY DEF NothingLost
  <2>2. Packed \subseteq Paths(devs) \cup Reachable
    <3>1. \A i \in DOMAIN items : items[i].hdr.name \in Paths(devs) \cup Reachable
      BY <2>1, MadeIs DEF PackInv, AllMade
    <3> QED BY <3>1 DEF Packed
  <2>3. Paths(devs) \cup Reachable \subseteq Packed BY <2>1 DEF PackInv, NoneLeft
  <2>4. Len(items) = Cardinality(Packed)
    <3> DEFINE n == Len(items)
               f == [i \in 1..n |-> items[i].hdr.name]
    <3>1. n \in Nat /\ DOMAIN items = 1..n BY <2>1, LenProperties DEF PackInv, PackTyped
    <3> HIDE DEF n
    <3>2. f \in [1..n -> Packed] BY <3>1 DEF Packed
    <3>3. \A i, j \in 1..n : f[i] = f[j] => i = j BY <2>1, <3>1 DEF PackInv, Distinct
    <3>4. \A m \in Packed : \E i \in 1..n : f[i] = m BY <3>1 DEF Packed
    <3> HIDE DEF f
    <3>5. f \in Bijection(1..n, Packed)
      BY <3>2, <3>3, <3>4 DEF Bijection, Injection, Surjection, IsInjective
    <3>6. ExistsBijection(1..n, Packed) BY <3>5 DEF ExistsBijection
    <3>7. Cardinality(Packed) = n BY <3>1, <3>6, FS_CountingElements
    <3> QED BY <3>7 DEF n
  <2> QED BY <2>2, <2>3, <2>4
<1> QED BY <1>1, PackInvariant, PTL

(* "every parent directory appearing before its children (required by the   *)
(* kernel initramfs unpacker)" (pack_cpio.py:53): the sort by depth puts    *)
(* every directory that is packed before what lies in it.                   *)
THEOREM ParentsFirstTheorem == Spec => []ParentsFirst
<1>1. PackInv => ParentsFirst
  <2>1. SUFFICES ASSUME PackInv, pc = "written", NEW i \in DOMAIN items,
                        NEW d \in Above(items[i].hdr.name) \cap Packed
                 PROVE  \E j \in 1..(i - 1) : items[j].hdr.name = d
    BY DEF ParentsFirst
  <2>2. PICK j \in DOMAIN items : items[j].hdr.name = d BY DEF Packed
  <2>3. i \in Nat \ {0} /\ j \in Nat \ {0} BY <2>1, LenProperties DEF PackInv, PackTyped
  <2> DEFINE m == items[i].hdr.name
  <2>4. m \in Seq(STRING) BY <2>1, MadeIs DEF PackInv, AllMade
  <2>5. Len(d) \in Nat /\ Len(m) \in Nat /\ Len(d) < Len(m)
    <3>1. PICK k \in 1..(Len(m) - 1) : d = SubSeq(m, 1, k) BY DEF Above
    <3>2. Len(m) \in Nat BY <2>4, LenProperties
    <3>3. Len(d) = k
      <4>1. \A l \in 1..k : m[l] \in STRING BY <2>4, <3>2, ElementOfSeq
      <4>2. Len(SubSeq(m, 1, k)) = IF 1 <= k THEN k - 1 + 1 ELSE 0 BY <3>2, <4>1, SubSeqProperties
      <4> QED BY <3>1, <3>2, <4>2
    <3> QED BY <3>2, <3>3
  <2>6. Depth(j) = Len(d) /\ Depth(i) = Len(m) BY <2>2 DEF Depth
  <2>7. i # j BY <2>5, <2>6
  <2>8. ~(i < j)
    <3>1. i < j => Depth(i) <= Depth(j) BY <2>1 DEF PackInv, Shallow
    <3> QED BY <2>5, <2>6, <3>1
  <2>9. j \in 1..(i - 1) BY <2>3, <2>7, <2>8
  <2> QED BY <2>2, <2>9
<1> QED BY <1>1, PackInvariant, PTL

-----------------------------------------------------------------------------
(* The archive that is written.                                            *)

(* What an item says of its entry: a header of newc that is no trailer,     *)
(* and stray copies of "070701" within its data.                            *)
LEMMA EntryIs ==
  ASSUME PackTyped, NEW e \in Makeable
  PROVE  /\ e.hdr \in Headers /\ e.hdr.ns >= 1 /\ e.hdr.kind # "end"
         /\ e.hdr.ns \in Nat /\ e.hdr.fs \in Nat
         /\ e.hdr.slash => e.hdr.kind = "dir"
         /\ \A k \in e.strays : k \in Nat /\ k + MAGIC <= e.hdr.fs
<1>1. e.hdr \in Headers BY DEF Makeable, Entries
<1>2. e.hdr.ns \in Nat /\ e.hdr.fs \in Nat BY <1>1 DEF Headers
<1>3. CASE OfDevice(e)
  <2>1. PICK k \in DOMAIN devs : /\ e.hdr = Header(devs[k].path, "dev", FALSE, devs[k].chars, 0)
                                 /\ e.strays = {}
    BY <1>3 DEF OfDevice
  <2>2. e.hdr.kind = "dev" /\ e.hdr.slash = FALSE /\ e.hdr.ns = devs[k].chars + 1
    BY <2>1 DEF Header
  <2>3. devs[k].chars \in Nat
    <3>1. /\ devs \in Seq([path : Seq(STRING) \ {<<>>}, chars : Nat])
          /\ Len(devs) \in Nat /\ DOMAIN devs = 1..Len(devs)
      BY TreeIs DEF PackTyped
    <3>2. devs[k] \in [path : Seq(STRING) \ {<<>>}, chars : Nat] BY <3>1, ElementOfSeq
    <3> QED BY <3>2
  <2>4. e.hdr.ns >= 1 BY <2>2, <2>3
  <2> QED BY <1>1, <1>2, <2>1, <2>2, <2>4
<1>4. CASE OfNode(e)
  <2>1. PICK n \in Reachable : e.hdr = NodeHeader(n) /\ e.strays = tree[n].strays
    BY <1>4 DEF OfNode
  <2>2. n \in DOMAIN tree BY DEF Reachable
  <2>3. /\ tree[n].strays \subseteq Nat /\ NodeHeader(n).ns >= 1
        /\ NodeHeader(n).kind = IF tree[n].kind \in {"dir", "dirlink"} THEN "dir" ELSE tree[n].kind
        /\ NodeHeader(n).slash => NodeHeader(n).kind = "dir"
    BY <2>2, NodeHeaderIs DEF PackTyped
  <2>4. tree[n].kind \in {"reg", "lnk"} => NodeHeader(n).fs = tree[n].size
    BY <2>2, NodeHeaderIs DEF PackTyped
  <2>5. /\ tree[n] \in Nodes
        /\ \A k \in tree[n].strays : tree[n].kind \in {"reg", "lnk"} /\ k + MAGIC <= tree[n].size
    BY <2>2, TreeIs DEF PackTyped
  <2>6. tree[n].kind \in {"dir", "reg", "lnk", "dirlink"} BY <2>5 DEF Nodes
  <2>7. e.hdr.kind # "end" BY <2>1, <2>3, <2>6
  <2>8. \A k \in e.strays : k \in Nat /\ k + MAGIC <= e.hdr.fs BY <2>1, <2>3, <2>4, <2>5
  <2> QED BY <1>1, <1>2, <2>1, <2>3, <2>7, <2>8
<1> QED BY <1>3, <1>4 DEF Makeable

(* Nothing that is packed lies below what is no directory. *)
LEMMA OnlyBelowDirectories ==
  ASSUME PackTyped, NEW g \in Makeable, NEW h \in Makeable, g.hdr.name \in Above(h.hdr.name)
  PROVE  g.hdr.kind = "dir"
<1>1. h.hdr.name \in Paths(devs) \cup Reachable BY MadeIs
<1>2. CASE OfDevice(g)
  <2>1. PICK k \in DOMAIN devs : g.hdr = Header(devs[k].path, "dev", FALSE, devs[k].chars, 0)
    BY <1>2 DEF OfDevice
  <2>2. g.hdr.name = devs[k].path BY <2>1 DEF Header
  <2>3. CASE h.hdr.name \in Paths(devs)
    <3>1. PICK l \in DOMAIN devs : h.hdr.name = devs[l].path BY <2>3 DEF Paths
    <3>2. devs[k].path \notin Above(devs[l].path) BY TreeIs DEF PackTyped
    <3> QED BY <2>2, <3>1, <3>2
  <2>4. CASE h.hdr.name \in Reachable
    <3>1. h.hdr.name \in DOMAIN tree BY <2>4 DEF Reachable
    <3>2. g.hdr.name \in DOMAIN tree BY <3>1, TreeIs DEF PackTyped
    <3>3. g.hdr.name \in Paths(devs) BY <2>2 DEF Paths
    <3>4. g.hdr.name \notin DOMAIN tree BY <3>3, TreeIs DEF PackTyped
    <3> QED BY <3>2, <3>4
  <2> QED BY <1>1, <2>3, <2>4
<1>3. CASE OfNode(g)
  <2>1. PICK n \in Reachable : g.hdr = NodeHeader(n) BY <1>3 DEF OfNode
  <2>2. n \in DOMAIN tree BY DEF Reachable
  <2>3. /\ g.hdr.name = n
        /\ g.hdr.kind = IF tree[n].kind \in {"dir", "dirlink"} THEN "dir" ELSE tree[n].kind
    BY <2>1, <2>2, NodeHeaderIs DEF PackTyped
  <2>4. CASE h.hdr.name \in Paths(devs)
    <3>1. tree[n].kind = "dir" BY <2>2, <2>3, <2>4, TreeIs DEF PackTyped
    <3> QED BY <2>3, <3>1
  <2>5. CASE h.hdr.name \in Reachable
    <3>1. h.hdr.name \in DOMAIN tree BY <2>5 DEF Reachable
    <3>2. tree[n].kind = "dir" BY <2>3, <3>1, TreeIs DEF PackTyped
    <3> QED BY <2>3, <3>2
  <2> QED BY <1>1, <2>4, <2>5
<1> QED BY <1>2, <1>3 DEF Makeable

(* The sums of a list of sizes exist, and there is one list of them. *)
LEMMA SumsExist ==
  ASSUME NEW n \in Nat, NEW s \in [1..n -> Nat]
  PROVE  \E f : f = [i \in 1..(n + 1) |-> IF i = 1 THEN 0 ELSE f[i - 1] + s[i - 1]]
<1> DEFINE Sums(f, m) == /\ f \in [1..(m + 1) -> Nat] /\ f[1] = 0
                         /\ \A i \in 1..m : f[i + 1] = f[i] + s[i]
           T == {m \in 0..n : \A f : ~Sums(f, m)}
<1>1. T = {}
  <2>1. SUFFICES ASSUME T # {} PROVE FALSE OBVIOUS
  <2>2. T \subseteq Nat OBVIOUS
  <2>3. PICK m \in T : \A y \in T : m <= y BY <2>1, <2>2, LeastNumber
  <2>4. m \in 0..n /\ \A f : ~Sums(f, m) OBVIOUS
  <2>5. CASE m = 0
    <3> DEFINE f == [i \in 1..1 |-> 0]
    <3>1. Sums(f, 0) OBVIOUS
    <3> QED BY <2>4, <2>5, <3>1
  <2>6. CASE m # 0
    <3>1. m - 1 \in 0..n /\ m - 1 < m /\ m \in Nat /\ m \in 1..n BY <2>4, <2>6
    <3>2. m - 1 \notin T
      <4> HIDE DEF T
      <4>1. m \in Nat /\ (m - 1 \in T => m <= m - 1) BY <2>2, <2>3
      <4> QED BY <3>1, <4>1
    <3>3. PICK f : Sums(f, m - 1) BY <3>1, <3>2
    <3>4. /\ f \in [1..m -> Nat] /\ f[1] = 0
          /\ \A i \in 1..(m - 1) : f[i + 1] = f[i] + s[i]
      BY <3>1, <3>3
    <3> DEFINE g == [i \in 1..(m + 1) |-> IF i = m + 1 THEN f[m] + s[m] ELSE f[i]]
    <3>5. f[m] \in Nat /\ s[m] \in Nat /\ f[m] + s[m] \in Nat BY <3>1, <3>4
    <3>6. \A i \in 1..m : i \in 1..(m + 1) /\ g[i] = f[i] /\ f[i] \in Nat BY <3>1, <3>4
    <3>7. g[m + 1] = f[m] + s[m] BY <3>1
    <3>8. g \in [1..(m + 1) -> Nat]
      <4>1. \A i \in 1..(m + 1) : i \in 1..m \/ i = m + 1 BY <3>1
      <4> QED BY <3>5, <3>6, <3>7, <4>1
    <3>9. g[1] = 0 BY <3>1, <3>4, <3>6
    <3>10. \A i \in 1..m : g[i + 1] = g[i] + s[i]
      <4>1. TAKE i \in 1..m
      <4>2. CASE i = m BY <3>6, <3>7, <4>2
      <4>3. CASE i # m
        <5>1. i \in 1..(m - 1) /\ i + 1 \in 1..m BY <3>1, <4>3
        <5> QED BY <3>4, <3>6, <5>1
      <4> QED BY <4>2, <4>3
    <3> HIDE DEF g
    <3>11. Sums(g, m) BY <3>8, <3>9, <3>10
    <3> QED BY <2>4, <3>11
  <2> QED BY <2>5, <2>6
<1>2. n \notin T BY <1>1
<1>3. PICK f : Sums(f, n)
  <2>1. n \in 0..n OBVIOUS
  <2> HIDE DEF Sums
  <2> QED BY <1>2, <2>1
<1>4. f = [i \in 1..(n + 1) |-> f[i]] BY <1>3
<1>5. \A i \in 1..(n + 1) : f[i] = IF i = 1 THEN 0 ELSE f[i - 1] + s[i - 1]
  <2>1. TAKE i \in 1..(n + 1)
  <2>2. CASE i = 1 BY <1>3, <2>2
  <2>3. CASE i # 1
    <3>1. i - 1 \in 1..n /\ (i - 1) + 1 = i BY <2>3
    <3>2. f[(i - 1) + 1] = f[i - 1] + s[i - 1] BY <1>3, <3>1
    <3> QED BY <2>3, <3>1, <3>2
  <2> QED BY <2>2, <2>3
<1>6. f = [i \in 1..(n + 1) |-> IF i = 1 THEN 0 ELSE f[i - 1] + s[i - 1]] BY <1>4, <1>5
<1> QED BY <1>6

(* The sums begin at 0 and grow by what is added. *)
LEMMA SumsGrow ==
  ASSUME NEW n \in Nat, NEW s \in [1..n -> Nat],
         NEW f, f = [i \in 1..(n + 1) |-> IF i = 1 THEN 0 ELSE f[i - 1] + s[i - 1]]
  PROVE  /\ f \in [1..(n + 1) -> Nat] /\ f[1] = 0
         /\ \A i \in 1..n : f[i + 1] = f[i] + s[i]
         /\ \A i, j \in 1..(n + 1) : i < j => i \in 1..n /\ f[j] >= f[i] + s[i]
<1>1. DOMAIN f = 1..(n + 1) OBVIOUS
<1>2. \A i \in 1..(n + 1) : f[i] = IF i = 1 THEN 0 ELSE f[i - 1] + s[i - 1] OBVIOUS
<1>3. f[1] = 0 BY <1>2
<1>4. \A i \in 1..n : f[i + 1] = f[i] + s[i]
  <2>1. TAKE i \in 1..n
  <2>2. i + 1 \in 1..(n + 1) /\ i + 1 # 1 /\ (i + 1) - 1 = i OBVIOUS
  <2>3. f[i + 1] = f[(i + 1) - 1] + s[(i + 1) - 1] BY <1>2, <2>2
  <2> QED BY <2>2, <2>3
<1>5. f = [i \in 1..(n + 1) |-> f[i]] BY <1>1
<1>6. \A i \in 1..(n + 1) : f[i] \in Nat
  <2> DEFINE T == {i \in 1..(n + 1) : f[i] \notin Nat}
  <2>1. SUFFICES ASSUME T # {} PROVE FALSE OBVIOUS
  <2>2. T \subseteq Nat OBVIOUS
  <2>3. PICK m \in T : \A y \in T : m <= y BY <2>1, <2>2, LeastNumber
  <2>4. m \in 1..(n + 1) /\ f[m] \notin Nat OBVIOUS
  <2>5. m # 1 BY <1>3, <2>4
  <2>6. m - 1 \in 1..n /\ m - 1 \in 1..(n + 1) /\ m - 1 < m /\ (m - 1) + 1 = m BY <2>4, <2>5
  <2>7. f[m - 1] \in Nat
    <3>1. m - 1 \notin T
      <4> HIDE DEF T
      <4>1. m \in Nat /\ (m - 1 \in T => m <= m - 1) BY <2>2, <2>3
      <4> QED BY <4>1
    <3> QED BY <2>6, <3>1
  <2>8. s[m - 1] \in Nat BY <2>6
  <2>9. f[(m - 1) + 1] = f[m - 1] + s[m - 1] BY <1>4, <2>6
  <2> QED BY <2>4, <2>6, <2>7, <2>8, <2>9
<1>7. f \in [1..(n + 1) -> Nat] BY <1>5, <1>6
<1>8. ASSUME NEW i \in 1..n PROVE \A j \in 1..(n + 1) : i < j => f[j] >= f[i] + s[i]
  <2> DEFINE T == {j \in 1..(n + 1) : i < j /\ ~(f[j] >= f[i] + s[i])}
  <2>1. SUFFICES ASSUME T # {} PROVE FALSE OBVIOUS
  <2>2. T \subseteq Nat OBVIOUS
  <2>3. PICK j \in T : \A y \in T : j <= y BY <2>1, <2>2, LeastNumber
  <2>4. j \in 1..(n + 1) /\ i < j /\ ~(f[j] >= f[i] + s[i]) OBVIOUS
  <2>5. i \in 1..(n + 1) /\ f[i] \in Nat /\ f[j] \in Nat /\ s[i] \in Nat BY <1>7, <2>4
  <2>6. CASE j = i + 1 BY <1>4, <2>4, <2>5, <2>6
  <2>7. CASE j # i + 1
    <3>1. j - 1 \in 1..n /\ j - 1 \in 1..(n + 1) /\ i < j - 1 /\ j - 1 < j /\ (j - 1) + 1 = j
      BY <2>4, <2>7
    <3>2. j - 1 \notin T
      <4> HIDE DEF T
      <4>1. j \in Nat /\ (j - 1 \in T => j <= j - 1) BY <2>2, <2>3
      <4> QED BY <3>1, <4>1
    <3>3. f[j - 1] >= f[i] + s[i] BY <3>1, <3>2
    <3>4. f[(j - 1) + 1] = f[j - 1] + s[j - 1] BY <1>4, <3>1
    <3>5. f[j - 1] \in Nat /\ s[j - 1] \in Nat BY <1>7, <3>1
    <3>6. f[j] = f[j - 1] + s[j - 1] BY <3>1, <3>4
    <3> QED BY SMTT(60), <2>4, <2>5, <3>3, <3>5, <3>6
  <2> QED BY <2>6, <2>7
<1>9. \A i, j \in 1..(n + 1) : i < j => i \in 1..n OBVIOUS
<1> QED BY <1>3, <1>4, <1>7, <1>8, <1>9

(* Sums of multiples of four are multiples of four. *)
LEMMA SumsByFour ==
  ASSUME NEW n \in Nat, NEW s \in [1..n -> Nat], \A i \in 1..n : s[i] % 4 = 0,
         NEW f, f = [i \in 1..(n + 1) |-> IF i = 1 THEN 0 ELSE f[i - 1] + s[i - 1]]
  PROVE  \A i \in 1..(n + 1) : f[i] % 4 = 0
<1>20. /\ f \in [1..(n + 1) -> Nat] /\ f[1] = 0 /\ \A i \in 1..n : f[i + 1] = f[i] + s[i]
  <2> DEFINE Summed(g) == g = [i \in 1..(n + 1) |-> IF i = 1 THEN 0 ELSE g[i - 1] + s[i - 1]]
  <2>1. Summed(f) OBVIOUS
  <2>2. \A g : Summed(g) => /\ g \in [1..(n + 1) -> Nat] /\ g[1] = 0
                            /\ \A i \in 1..n : g[i + 1] = g[i] + s[i]
                            /\ \A i, j \in 1..(n + 1) :
                                 i < j => i \in 1..n /\ g[j] >= g[i] + s[i]
    BY SumsGrow
  <2> HIDE DEF Summed
  <2> QED BY <2>1, <2>2
<1> DEFINE T == {i \in 1..(n + 1) : f[i] % 4 # 0}
<1>1. SUFFICES ASSUME T # {} PROVE FALSE OBVIOUS
<1>2. T \subseteq Nat OBVIOUS
<1>3. PICK m \in T : \A y \in T : m <= y BY <1>1, <1>2, LeastNumber
<1>4. m \in 1..(n + 1) /\ f[m] % 4 # 0 OBVIOUS
<1>5. m # 1 BY <1>20, <1>4
<1>6. m - 1 \in 1..n /\ m - 1 \in 1..(n + 1) /\ m - 1 < m /\ (m - 1) + 1 = m BY <1>4, <1>5
<1>7. f[m - 1] % 4 = 0
  <2>1. m - 1 \notin T
    <3> HIDE DEF T
    <3>1. m \in Nat /\ (m - 1 \in T => m <= m - 1) BY <1>2, <1>3
    <3> QED BY <3>1
  <2> QED BY <1>6, <2>1
<1>8. s[m - 1] \in Nat /\ s[m - 1] % 4 = 0 /\ f[m - 1] \in Nat BY <1>20, <1>6
<1>9. f[(m - 1) + 1] = f[m - 1] + s[m - 1] BY <1>20, <1>6
<1>10. \A x, y \in Nat : x % 4 = 0 /\ y % 4 = 0 => (x + y) % 4 = 0
  <2>1. TAKE x, y \in Nat
  <2>2. HAVE x % 4 = 0 /\ y % 4 = 0
  <2>3. x = 4 * (x \div 4) /\ y = 4 * (y \div 4) BY <2>2
  <2>4. x \div 4 \in Nat /\ y \div 4 \in Nat OBVIOUS
  <2>5. x + y = 4 * ((x \div 4) + (y \div 4)) BY <2>3, <2>4
  <2>6. \A z \in Nat : (4 * z) % 4 = 0 OBVIOUS
  <2> DEFINE z == (x \div 4) + (y \div 4)
  <2>7. z \in Nat /\ x + y = 4 * z BY <2>4, <2>5
  <2> HIDE DEF z
  <2>8. (4 * z) % 4 = 0 BY <2>6, <2>7
  <2> QED BY <2>7, <2>8
<1>11. (f[m - 1] + s[m - 1]) % 4 = 0 BY <1>7, <1>8, <1>10
<1> QED BY <1>4, <1>6, <1>9, <1>11

(* The number that a reader makes of the name of the trailer is no zero. *)
LEMMA TrailerIs == Trailer \in Headers /\ Trailer.ns >= 1 /\ Trailer.kind = "end"
<1> DEFINE ds == <<0, 0, 10, 0, 0, 14, 0, 0>>
           V(v) == v = [i \in 0..8 |-> IF i = 0 THEN 0 ELSE 16 * v[i - 1] + ds[i]]
           w == [i \in 0..8 |-> IF i <= 2 THEN 0 ELSE IF i = 3 THEN 10 ELSE IF i = 4 THEN 160
                   ELSE IF i = 5 THEN 2560 ELSE IF i = 6 THEN 40974 ELSE IF i = 7 THEN 655584
                   ELSE 10489344]
<1>1. V(w)
  <2>1. \A i \in 0..8 : w[i] = IF i = 0 THEN 0 ELSE 16 * w[i - 1] + ds[i]
    <3>1. TAKE i \in 0..8
    <3>2. i \in {0, 1, 2, 3, 4, 5, 6, 7, 8} OBVIOUS
    <3> QED BY <3>2
  <2>2. w = [i \in 0..8 |-> w[i]] OBVIOUS
  <2> HIDE DEF w, ds
  <2> QED BY <2>1, <2>2
<1> DEFINE v == CHOOSE v : V(v)
<1> HIDE DEF w
<1>2. V(v)
  <2> HIDE DEF V
  <2> QED BY <1>1
<1> HIDE DEF v
<1>3. \A i \in 0..8 : v[i] = IF i = 0 THEN 0 ELSE 16 * v[i - 1] + ds[i] BY <1>2
<1>4. v[0] = 0 BY <1>3
<1>5. \A i \in 1..8 : v[i] = 16 * v[i - 1] + ds[i] BY <1>3
<1>6. v[1] = 0 /\ v[2] = 0 /\ v[3] = 10
  <2>1. v[1] = 16 * v[0] + 0 BY <1>5
  <2>2. v[2] = 16 * v[1] + 0 BY <1>5
  <2>3. v[3] = 16 * v[2] + 10 BY <1>5
  <2> QED BY <1>4, <2>1, <2>2, <2>3
<1>7. v[4] = 160 /\ v[5] = 2560 /\ v[6] = 40974
  <2>1. v[4] = 16 * v[3] + 0 BY <1>5
  <2>2. v[5] = 16 * v[4] + 0 BY <1>5
  <2>3. v[6] = 16 * v[5] + 14 BY <1>5
  <2> QED BY <1>6, <2>1, <2>2, <2>3
<1>8. v[8] = 10489344
  <2>1. v[7] = 16 * v[6] + 0 BY <1>5
  <2>2. v[8] = 16 * v[7] + 0 BY <1>5
  <2> QED BY <1>7, <2>1, <2>2
<1>9. Hex(ds) = v[8]
  <2>1. Len(ds) = 8 OBVIOUS
  <2>2. Hex(ds) = (CHOOSE u : u = [i \in 0..Len(ds) |->
                                 IF i = 0 THEN 0 ELSE 16 * u[i - 1] + ds[i]])[Len(ds)]
    BY DEF Hex
  <2> HIDE DEF ds
  <2> QED BY <2>1, <2>2 DEF v, V
<1>10. TrailerName = 10489344
  <2>1. MAGIC + 8 * TRAILERFIELDS # HDR BY DEF MAGIC, TRAILERFIELDS, HDR
  <2> QED BY <1>8, <1>9, <2>1 DEF TrailerName
<1> HIDE DEF ds, V
<1>11. Trailer.name \in Seq(STRING) BY TrailerAssumption
<1> QED BY <1>10, <1>11 DEF Trailer, Headers, Kinds

(* How large an entry is: a header, its name and its data, and padding. *)
LEMMA EntrySizeIs ==
  ASSUME NEW h, h.ns \in Nat, h.fs \in Nat
  PROVE  /\ EntrySize(h) \in Nat /\ EntrySize(h) >= HDR /\ EntrySize(h) % 4 = 0
         /\ PackedData(h.ns) \in Nat /\ PackedData(h.ns) >= HDR
         /\ PackedData(h.ns) + h.fs <= EntrySize(h)
<1> DEFINE a == HDR + h.ns   b == Align4(a) + h.fs
<1>1. \A x \in Nat : /\ Align4(x) \in Nat /\ Align4(x) >= x /\ Align4(x) % 4 = 0
  BY DEF Align4, Pad4
<1>2. a \in Nat /\ a >= HDR /\ HDR \in Nat BY DEF HDR
<1>3. Align4(a) \in Nat /\ Align4(a) >= a BY <1>1, <1>2
<1>4. b \in Nat /\ b >= Align4(a) BY <1>3
<1>5. Align4(b) \in Nat /\ Align4(b) >= b /\ Align4(b) % 4 = 0 BY <1>1, <1>4
<1>6. EntrySize(h) = Align4(b) /\ PackedData(h.ns) = Align4(a)
  BY DEF EntrySize, PackedSize, PackedData
<1> HIDE DEF a
<1> QED BY <1>2, <1>3, <1>4, <1>5, <1>6

(* What Archive puts where. *)
LEMMA ArchiveIs ==
  ASSUME NEW es \in Seq(Entries)
  PROVE  LET n == Len(es)   a == Archive(es) IN
         /\ n \in Nat /\ a.off \in [1..(n + 1) -> Nat] /\ a.off[1] = 0
         /\ \A i, j \in 1..(n + 1) :
              i < j => i \in 1..n /\ a.off[j] >= a.off[i] + EntrySize(es[i].hdr)
         /\ \A i \in 1..(n + 1) : /\ a.off[i] \in DOMAIN a.hdr
                                  /\ a.hdr[a.off[i]] = IF i = n + 1 THEN Trailer ELSE es[i].hdr
         /\ \A m \in DOMAIN a.hdr :
              \/ \E i \in 1..(n + 1) : m = a.off[i]
              \/ /\ a.hdr[m] = Stray
                 /\ \E i \in 1..n : \E k \in es[i].strays :
                      m = a.off[i] + PackedData(es[i].hdr.ns) + k
         /\ a.len = a.off[n + 1] + TRAILERSIZE
         /\ \A i \in 1..(n + 1) : a.off[i] % 4 = 0
<1> DEFINE n == Len(es)
           D == 1..(n + 1)
           s == [i \in 1..n |-> EntrySize(es[i].hdr)]
           at == CHOOSE f : f = [i \in D |-> IF i = 1 THEN 0 ELSE f[i - 1] + EntrySize(es[i - 1].hdr)]
<1>1. n \in Nat /\ DOMAIN es = 1..n BY LenProperties
<1> HIDE DEF n
<1>2. s \in [1..n -> Nat]
  <2>1. ASSUME NEW i \in 1..n PROVE EntrySize(es[i].hdr) \in Nat
    <3>1. es[i] \in Entries BY <1>1, ElementOfSeq DEF n
    <3>2. es[i].hdr.ns \in Nat /\ es[i].hdr.fs \in Nat BY <3>1 DEF Entries, Headers
    <3> QED BY <3>2, EntrySizeIs
  <2> QED BY <2>1
<1>3. \A i \in 1..n : s[i] = EntrySize(es[i].hdr) OBVIOUS
<1> HIDE DEF s
<1>4. \A f : (f = [i \in D |-> IF i = 1 THEN 0 ELSE f[i - 1] + s[i - 1]])
               <=> (f = [i \in D |-> IF i = 1 THEN 0 ELSE f[i - 1] + EntrySize(es[i - 1].hdr)])
  <2>1. TAKE f
  <2>2. \A i \in D : i = 1 \/ i - 1 \in 1..n BY <1>1
  <2>3. [i \in D |-> IF i = 1 THEN 0 ELSE f[i - 1] + s[i - 1]]
          = [i \in D |-> IF i = 1 THEN 0 ELSE f[i - 1] + EntrySize(es[i - 1].hdr)]
    BY <1>3, <2>2
  <2> QED BY <2>3
<1>5. \E f : f = [i \in D |-> IF i = 1 THEN 0 ELSE f[i - 1] + s[i - 1]] BY <1>1, <1>2, SumsExist
<1>6. at = [i \in D |-> IF i = 1 THEN 0 ELSE at[i - 1] + s[i - 1]]
  <2> DEFINE P(f) == f = [i \in D |-> IF i = 1 THEN 0 ELSE f[i - 1] + EntrySize(es[i - 1].hdr)]
  <2>1. \E f : P(f) BY ZenonT(60), <1>4, <1>5
  <2>2. at = CHOOSE f : P(f) OBVIOUS
  <2>3. P(at)
    <3> HIDE DEF P, at
    <3> QED BY <2>1, <2>2
  <2> HIDE DEF at
  <2> QED BY <1>4, <2>3
<1> DEFINE heads == {at[i] : i \in D}
           strays == UNION {{at[i] + PackedData(es[i].hdr.ns) + k : k \in es[i].strays} : i \in 1..n}
           head(m) == LET i == CHOOSE i \in D : at[i] = m IN IF i = n + 1 THEN Trailer ELSE es[i].hdr
<1>7. Archive(es) = [off |-> [i \in D |-> at[i]],
                     hdr |-> [m \in heads \cup strays |-> IF m \in heads THEN head(m) ELSE Stray],
                     len |-> at[n + 1] + TRAILERSIZE]
  BY DEF Archive, n
<1> HIDE DEF at
<1>8. /\ at \in [D -> Nat] /\ at[1] = 0
      /\ \A i, j \in D : i < j => i \in 1..n /\ at[j] >= at[i] + s[i]
  <2> DEFINE Summed(f) == f = [i \in 1..(n + 1) |-> IF i = 1 THEN 0 ELSE f[i - 1] + s[i - 1]]
  <2>1. Summed(at) BY <1>6
  <2>2. \A f : Summed(f) => /\ f \in [1..(n + 1) -> Nat] /\ f[1] = 0
                            /\ \A i, j \in 1..(n + 1) : i < j => i \in 1..n /\ f[j] >= f[i] + s[i]
    BY ZenonT(60), <1>1, <1>2, SumsGrow
  <2> HIDE DEF Summed
  <2> QED BY <2>1, <2>2
<1>16. \A i \in D : at[i] % 4 = 0
  <2> DEFINE Summed(f) == f = [i \in 1..(n + 1) |-> IF i = 1 THEN 0 ELSE f[i - 1] + s[i - 1]]
  <2>1. Summed(at) BY <1>6
  <2>2. \A i \in 1..n : s[i] % 4 = 0
    <3>1. TAKE i \in 1..n
    <3>2. es[i] \in Entries BY <1>1, ElementOfSeq DEF n
    <3>3. es[i].hdr.ns \in Nat /\ es[i].hdr.fs \in Nat BY <3>2 DEF Entries, Headers
    <3> QED BY <1>3, <3>3, EntrySizeIs
  <2>3. \A f : Summed(f) => \A i \in 1..(n + 1) : f[i] % 4 = 0
    BY <1>1, <1>2, <2>2, SumsByFour
  <2> HIDE DEF Summed
  <2> QED BY <2>1, <2>3
<1>9. /\ Archive(es).off = at
      /\ Archive(es).hdr = [m \in heads \cup strays |-> IF m \in heads THEN head(m) ELSE Stray]
      /\ Archive(es).len = at[n + 1] + TRAILERSIZE
  <2>1. at = [i \in D |-> at[i]] BY <1>8
  <2> HIDE DEF heads, strays, head
  <2> QED BY <1>7, <2>1
<1>10. \A i, j \in D : i < j => i \in 1..n /\ at[j] >= at[i] + EntrySize(es[i].hdr) BY <1>3, <1>8
<1>11. ASSUME NEW i \in D PROVE head(at[i]) = IF i = n + 1 THEN Trailer ELSE es[i].hdr
  <2>1. \A j \in D : at[j] = at[i] => j = i
    <3>1. TAKE j \in D
    <3>2. at[i] \in Nat /\ at[j] \in Nat /\ i \in Nat /\ j \in Nat BY <1>1, <1>8
    <3>3. \A k \in 1..n : s[k] >= 1 /\ s[k] \in Nat
      <4>1. TAKE k \in 1..n
      <4>2. es[k] \in Entries BY <1>1, ElementOfSeq DEF n
      <4>3. es[k].hdr.ns \in Nat /\ es[k].hdr.fs \in Nat BY <4>2 DEF Entries, Headers
      <4>4. EntrySize(es[k].hdr) \in Nat /\ EntrySize(es[k].hdr) >= HDR BY <4>3, EntrySizeIs
      <4> QED BY <1>3, <4>4 DEF HDR
    <3>4. i < j => at[j] # at[i] BY <1>8, <3>2, <3>3
    <3>5. j < i => at[j] # at[i] BY <1>8, <3>2, <3>3
    <3> QED BY <3>2, <3>4, <3>5
  <2>2. (CHOOSE j \in D : at[j] = at[i]) = i BY <2>1
  <2> QED BY <2>2
<1> DEFINE A == Archive(es)
<1>12. \A i \in D : at[i] \in heads OBVIOUS
<1>13. \A i \in D : A.off[i] \in DOMAIN A.hdr /\ A.hdr[A.off[i]] = IF i = n + 1 THEN Trailer ELSE es[i].hdr
  <2> HIDE DEF heads, strays, head
  <2> QED BY <1>9, <1>11, <1>12
<1>14. ASSUME NEW m \in DOMAIN A.hdr
       PROVE  \/ \E i \in D : m = A.off[i]
              \/ /\ A.hdr[m] = Stray
                 /\ \E i \in 1..n : \E k \in es[i].strays :
                      m = A.off[i] + PackedData(es[i].hdr.ns) + k
  <2>1. m \in heads \/ (m \notin heads /\ m \in strays)
    <3> HIDE DEF heads, strays, head
    <3> QED BY <1>9
  <2>2. CASE m \in heads BY SMTT(60), <1>9, <2>2
  <2>3. CASE m \notin heads /\ m \in strays
    <3>1. A.hdr[m] = Stray
      <4> HIDE DEF heads, strays, head
      <4> QED BY <1>9, <2>3
    <3>2. \E i \in 1..n : \E k \in es[i].strays : m = at[i] + PackedData(es[i].hdr.ns) + k
      BY <2>3
    <3> QED BY <1>9, <3>1, <3>2
  <2> QED BY <2>1, <2>2, <2>3
<1> HIDE DEF heads, strays, head, A
<1>15. /\ n \in Nat /\ A.off \in [D -> Nat] /\ A.off[1] = 0
       /\ \A i, j \in D : i < j => i \in 1..n /\ A.off[j] >= A.off[i] + EntrySize(es[i].hdr)
       /\ A.len = A.off[n + 1] + TRAILERSIZE
       /\ \A i \in D : A.off[i] % 4 = 0
  BY <1>1, <1>8, <1>9, <1>10, <1>16 DEF A
<1> QED BY <1>13, <1>14, <1>15 DEF A, n

(* The archive of a state that has written one. *)
LEMMA WellPacked ==
  ASSUME PackInv, pc = "written"
  PROVE  IsArchive(out) /\ StraysInside(out) /\ IsTree(out)
<1> DEFINE n == Len(items)
<1>2. PackTyped /\ items \in Seq(Entries) /\ out = Archive(items)
  BY DEF PackInv, PackTyped, Laid
<1>3. /\ n \in Nat /\ out.off \in [1..(n + 1) -> Nat] /\ out.off[1] = 0
      /\ \A i, j \in 1..(n + 1) :
           i < j => i \in 1..n /\ out.off[j] >= out.off[i] + EntrySize(items[i].hdr)
      /\ \A i \in 1..(n + 1) :
           /\ out.off[i] \in DOMAIN out.hdr
           /\ out.hdr[out.off[i]] = IF i = n + 1 THEN Trailer ELSE items[i].hdr
      /\ \A m \in DOMAIN out.hdr :
           \/ \E i \in 1..(n + 1) : m = out.off[i]
           \/ /\ out.hdr[m] = Stray
              /\ \E i \in 1..n : \E k \in items[i].strays :
                   m = out.off[i] + PackedData(items[i].hdr.ns) + k
      /\ out.len = out.off[n + 1] + TRAILERSIZE
  BY ZenonT(60), <1>2, ArchiveIs
<1>4. DOMAIN items = 1..n BY <1>2, LenProperties
<1>5. \A i \in 1..n : items[i] \in Makeable BY <1>4 DEF PackInv, AllMade
<1>6. \A i \in 1..n : /\ items[i].hdr \in Headers /\ items[i].hdr.ns >= 1
                      /\ items[i].hdr.kind # "end"
                      /\ items[i].hdr.ns \in Nat /\ items[i].hdr.fs \in Nat
                      /\ items[i].hdr.slash => items[i].hdr.kind = "dir"
                      /\ \A k \in items[i].strays : k \in Nat /\ k + MAGIC <= items[i].hdr.fs
  BY <1>2, <1>5, EntryIs
<1>7. \A i \in 1..n : LET h == items[i].hdr IN
        /\ EntrySize(h) \in Nat /\ EntrySize(h) >= HDR
        /\ PackedData(h.ns) \in Nat /\ PackedData(h.ns) >= HDR
        /\ PackedData(h.ns) + h.fs <= EntrySize(h)
  BY <1>6, EntrySizeIs
<1> HIDE DEF n
<1>8. /\ out.off \in Seq(Nat) /\ Len(out.off) = n + 1 /\ DOMAIN out.off = 1..(n + 1)
  <2>1. \A N \in Nat : \A f \in [1..N -> Nat] :
          f \in Seq(Nat) /\ Len(f) = N /\ DOMAIN f = 1..N
    OBVIOUS
  <2>2. n + 1 \in Nat /\ out.off \in [1..(n + 1) -> Nat] BY <1>3
  <2> QED BY <2>1, <2>2
<1>9. \A i \in 1..n : i \in 1..(n + 1) /\ i # n + 1 /\ out.hdr[out.off[i]] = items[i].hdr
                      /\ out.off[i] \in Nat
  BY <1>3
<1>10. out.hdr[out.off[n + 1]] = Trailer /\ n + 1 \in 1..(n + 1) BY <1>3
<1>11. \A i \in 1..(n + 1) : i \in 1..n \/ i = n + 1 BY <1>3
<1>12. out.len \in Nat /\ out.len = out.off[n + 1] + 512 /\ out.off[n + 1] \in Nat
  BY <1>3, <1>10 DEF TRAILERSIZE
<1>13. IsArchive(out)
  <2>1. DOMAIN out.hdr \subseteq Nat
    <3>1. ASSUME NEW m \in DOMAIN out.hdr PROVE m \in Nat
      <4>1. CASE \E i \in 1..(n + 1) : m = out.off[i] BY <1>3, <4>1
      <4>2. CASE \E i \in 1..n : \E k \in items[i].strays :
                    m = out.off[i] + PackedData(items[i].hdr.ns) + k
        <5>1. PICK i \in 1..n : \E k \in items[i].strays :
                    m = out.off[i] + PackedData(items[i].hdr.ns) + k
          BY <4>2
        <5>2. PICK k \in items[i].strays : m = out.off[i] + PackedData(items[i].hdr.ns) + k
          BY <5>1
        <5>3. k \in Nat /\ out.off[i] \in Nat /\ PackedData(items[i].hdr.ns) \in Nat
          BY <1>6, <1>7, <1>9
        <5> QED BY <5>2, <5>3
      <4> QED BY <1>3, <4>1, <4>2
    <3> QED BY <3>1
  <2>2. \A m \in DOMAIN out.hdr : out.hdr[m] \in Headers
    <3>1. ASSUME NEW i \in 1..(n + 1) PROVE out.hdr[out.off[i]] \in Headers
      BY <1>6, <1>9, <1>10, <1>11, TrailerIs
    <3> QED BY <1>3, <3>1, StrayAssumption
  <2>3. ASSUME NEW i \in 1..(n + 1)
        PROVE  LET h == out.hdr[out.off[i]] IN
               /\ h.ns >= 1 /\ ((h.kind = "end") <=> (i = n + 1))
               /\ out.len >= out.off[i] + HDR
               /\ \A j \in 1..(n + 1) :
                    i < j => out.off[j] >= out.off[i] + PackedSize(h.ns, h.fs)
    <3>1. CASE i \in 1..n
      <4> DEFINE h == items[i].hdr
      <4>1. out.hdr[out.off[i]] = h /\ i # n + 1 /\ i < n + 1 BY <1>3, <1>9, <3>1
      <4>2. h.ns >= 1 /\ h.kind # "end" BY <1>6, <3>1
      <4>3. \A j \in 1..(n + 1) : i < j => out.off[j] >= out.off[i] + EntrySize(h) BY <1>3
      <4>4. EntrySize(h) = PackedSize(h.ns, h.fs) BY DEF EntrySize
      <4>5. EntrySize(h) \in Nat /\ EntrySize(h) >= HDR BY <1>7, <3>1
      <4>6. out.off[n + 1] >= out.off[i] + EntrySize(h) BY <1>10, <4>1, <4>3
      <4>7. out.off[i] \in Nat BY <1>9, <3>1
      <4> HIDE DEF h
      <4>8. out.len >= out.off[i] + HDR BY <1>12, <4>5, <4>6, <4>7 DEF HDR
      <4> QED BY <4>1, <4>2, <4>3, <4>4, <4>8
    <3>2. CASE i = n + 1
      <4>1. \A j \in 1..(n + 1) : ~(i < j) BY <1>3, <3>2
      <4>2. out.len >= out.off[i] + HDR BY <1>12, <3>2 DEF HDR
      <4> QED BY <1>10, <3>2, <4>1, <4>2, TrailerIs
    <3> QED BY <1>11, <3>1, <3>2
  <2>4. Len(out.off) >= 1 /\ out.off[1] = 0 BY <1>3, <1>8
  <2>5. \A i \in DOMAIN out.off :
          LET h == out.hdr[out.off[i]] IN
          /\ out.off[i] \in DOMAIN out.hdr
          /\ h.ns >= 1
          /\ (h.kind = "end") <=> (i = Len(out.off))
          /\ out.len >= out.off[i] + HDR
          /\ \A j \in DOMAIN out.off : i < j => out.off[j] >= out.off[i] + PackedSize(h.ns, h.fs)
    BY <1>3, <1>8, <2>3
  <2> QED BY <1>8, <1>12, <2>1, <2>2, <2>4, <2>5 DEF IsArchive
<1>14. StraysInside(out)
  <2>1. ASSUME NEW m \in DOMAIN out.hdr, ~\E i \in 1..(n + 1) : m = out.off[i]
        PROVE  \E i \in 1..(n + 1) :
                 /\ out.off[i] < m
                 /\ m + MAGIC <= out.off[i] + PackedData(out.hdr[out.off[i]].ns)
                                   + out.hdr[out.off[i]].fs
    <3>1. PICK i \in 1..n : \E k \in items[i].strays :
                m = out.off[i] + PackedData(items[i].hdr.ns) + k
      BY <1>3, <2>1
    <3>2. PICK k \in items[i].strays : m = out.off[i] + PackedData(items[i].hdr.ns) + k
      BY <3>1
    <3>3. /\ k \in Nat /\ k + MAGIC <= items[i].hdr.fs /\ items[i].hdr.fs \in Nat
          /\ out.off[i] \in Nat
          /\ PackedData(items[i].hdr.ns) \in Nat /\ PackedData(items[i].hdr.ns) >= HDR
      BY <1>6, <1>7, <1>9
    <3>4. /\ out.off[i] < m
          /\ m + MAGIC <= out.off[i] + PackedData(items[i].hdr.ns) + items[i].hdr.fs
      BY <3>2, <3>3 DEF HDR, MAGIC
    <3> QED BY <1>9, <3>4
  <2> QED BY <1>8, <2>1 DEF StraysInside
<1>15. IsTree(out)
  <2>1. 1..(Len(out.off) - 1) = 1..n BY <1>3, <1>8
  <2>2. ASSUME NEW i \in 1..n, NEW j \in 1..n
        PROVE  /\ Len(items[i].hdr.name) >= 1
               /\ items[i].hdr.slash => items[i].hdr.kind = "dir"
               /\ i # j => items[i].hdr.name # items[j].hdr.name
               /\ items[i].hdr.name \in Above(items[j].hdr.name) => items[i].hdr.kind = "dir"
    <3>1. items[i] \in Makeable /\ items[j] \in Makeable BY <1>5
    <3>2. Len(items[i].hdr.name) >= 1
      <4>1. items[i].hdr.name \in Seq(STRING) /\ items[i].hdr.name # <<>> BY <1>2, <3>1, MadeIs
      <4>2. Len(items[i].hdr.name) \in Nat /\ Len(items[i].hdr.name) # 0 BY <4>1, EmptySeq
      <4> QED BY <4>2
    <3>3. i # j => items[i].hdr.name # items[j].hdr.name BY <1>4 DEF PackInv, Distinct
    <3>4. items[i].hdr.name \in Above(items[j].hdr.name) => items[i].hdr.kind = "dir"
      BY <1>2, <3>1, OnlyBelowDirectories
    <3> QED BY <1>6, <3>2, <3>3, <3>4
  <2>3. \A i \in 1..n : out.hdr[out.off[i]] = items[i].hdr BY <1>9
  <2>4. \A i, j \in 1..(Len(out.off) - 1) :
          LET g == out.hdr[out.off[i]]
              h == out.hdr[out.off[j]]
          IN /\ Len(g.name) >= 1
             /\ g.slash => g.kind = "dir"
             /\ i # j => g.name # h.name
             /\ g.name \in Above(h.name) => g.kind = "dir"
    <3>1. TAKE i, j \in 1..(Len(out.off) - 1)
    <3>2. i \in 1..n /\ j \in 1..n BY <2>1
    <3>3. out.hdr[out.off[i]] = items[i].hdr /\ out.hdr[out.off[j]] = items[j].hdr BY <2>3, <3>2
    <3> QED BY <2>2, <3>2, <3>3
  <2> QED BY <2>4 DEF IsTree
<1> QED BY <1>13, <1>14, <1>15

(* What pack_cpio.py writes is an archive as the tools behind it take one:  *)
(* its entries lie one after the other, a copy of "070701" lies within the  *)
(* data of an entry, and the names form a tree.                             *)
PacksArchive == pc = "written" => IsArchive(out) /\ StraysInside(out) /\ IsTree(out)

(* It does, for every tree, list of devices and order of listing. *)
THEOREM PacksArchiveTheorem == Spec => []PacksArchive
<1>1. PackInv => PacksArchive BY WellPacked DEF PacksArchive
<1> QED BY <1>1, PackInvariant, PTL
-----------------------------------------------------------------------------
(* The chain of the tools.                                                 *)

(* An archive as each tool may be given one. *)
Handed(a) == IsArchive(a) /\ StraysInside(a) /\ IsTree(a)

-----------------------------------------------------------------------------
(* Byte arithmetic.                                                        *)

(* insert_devnodes.py reads the same archives by the same numbers. *)
LEMMA SameWords ==
  /\ DevNodes!HDR = HDR
  /\ \A ns, fs : DevNodes!WalkedSize(ns, fs) = WalkedSize(ns, fs)
  /\ \A h : DevNodes!EntryEnd(h) = WalkedSize(h.ns, h.fs)
  /\ \A n : DevNodes!Above(n) = Above(n)
  /\ \A a : (DevNodes!IsArchive(a) <=> IsArchive(a)) /\ (DevNodes!StraysInside(a) <=> StraysInside(a))
  /\ DevNodes!Nothing = Nothing
  /\ \A S : DevNodes!Cardinality(S) = Cardinality(S)
<1>1. DevNodes!HDR = HDR /\ DevNodes!MAGIC = MAGIC BY DEF DevNodes!HDR, HDR, DevNodes!MAGIC, MAGIC
<1>2. \A n : DevNodes!Align4(n) = Align4(n) BY DEF DevNodes!Align4, DevNodes!Pad4, Align4, Pad4
<1>3. \A ns, fs : /\ DevNodes!WalkedSize(ns, fs) = WalkedSize(ns, fs)
                  /\ DevNodes!PackedSize(ns, fs) = PackedSize(ns, fs)
                  /\ DevNodes!PackedData(ns) = PackedData(ns)
  BY <1>1, <1>2 DEF DevNodes!WalkedSize, WalkedSize, DevNodes!PackedSize, PackedSize,
                    DevNodes!PackedData, PackedData
<1>4. DevNodes!Headers = Headers BY DEF DevNodes!Headers, Headers, DevNodes!Kinds, Kinds
<1>5. ASSUME NEW a PROVE DevNodes!IsArchive(a) <=> IsArchive(a)
  BY <1>1, <1>3, <1>4 DEF DevNodes!IsArchive, IsArchive
<1>6. ASSUME NEW a PROVE DevNodes!StraysInside(a) <=> StraysInside(a)
  BY <1>1, <1>3 DEF DevNodes!StraysInside, StraysInside
<1>7. \A h : DevNodes!EntryEnd(h) = WalkedSize(h.ns, h.fs) BY <1>3 DEF DevNodes!EntryEnd
<1>8. \A n : DevNodes!Above(n) = Above(n) BY DEF DevNodes!Above, Above
<1>9. DevNodes!Nothing = Nothing BY DEF DevNodes!Nothing, Nothing
<1>10. ASSUME NEW S PROVE DevNodes!Cardinality(S) = Cardinality(S)
  BY DEF DevNodes!Cardinality, Cardinality
<1> QED BY <1>1, <1>3, <1>5, <1>6, <1>7, <1>8, <1>9, <1>10

(* The walk stops at the end of an entry or four bytes before it, and never *)
(* more than three bytes short of the end of the data it passes.            *)
LEMMA WalkedIs ==
  ASSUME NEW ns \in Nat, NEW fs \in Nat
  PROVE  /\ WalkedSize(ns, fs) \in Nat /\ PackedSize(ns, fs) \in Nat /\ PackedData(ns) \in Nat
         /\ WalkedSize(ns, fs) % 4 = 0 /\ WalkedSize(ns, fs) >= HDR
         /\ WalkedSize(ns, fs) <= PackedSize(ns, fs)
         /\ PackedData(ns) + fs <= WalkedSize(ns, fs) + 3
         /\ fs = 0 => WalkedSize(ns, fs) = PackedSize(ns, fs)
<1> DEFINE a == HDR + ns   x == Align4(a)   y == Align4(x + fs)   z == Align4(a + fs)
<1>1. ASSUME NEW n \in Nat
      PROVE  /\ Align4(n) \in Nat /\ Align4(n) >= n /\ Align4(n) <= n + 3 /\ Align4(n) % 4 = 0
             /\ n % 4 = 0 => Align4(n) = n
  BY DEF Align4, Pad4
<1>2. a \in Nat /\ a >= HDR /\ HDR \in Nat /\ HDR = 110 BY DEF HDR
<1>3. x \in Nat /\ x >= a /\ x <= a + 3 /\ x % 4 = 0 BY <1>1, <1>2
<1>4. x + fs \in Nat /\ a + fs \in Nat BY <1>2, <1>3
<1>5. y \in Nat /\ y >= x + fs /\ y % 4 = 0 BY <1>1, <1>4
<1>6. z \in Nat /\ z >= a + fs /\ z <= a + fs + 3 /\ z % 4 = 0 BY <1>1, <1>4
<1>7. fs = 0 => y = x /\ z = x BY <1>1, <1>2, <1>3
<1>8. /\ WalkedSize(ns, fs) = z /\ PackedSize(ns, fs) = y /\ PackedData(ns) = x
  BY DEF WalkedSize, PackedSize, PackedData
<1> HIDE DEF a, x, y, z
<1>9. z <= y
  <2>1. z - y <= 3 BY <1>2, <1>3, <1>5, <1>6
  <2>2. \A u, v \in Nat : u % 4 = 0 /\ v % 4 = 0 /\ u - v <= 3 => u <= v OBVIOUS
  <2> QED BY <1>5, <1>6, <2>1, <2>2
<1>10. z >= HDR /\ x + fs <= z + 3 BY <1>2, <1>3, <1>6
<1> QED BY <1>3, <1>5, <1>6, <1>7, <1>8, <1>9, <1>10

(* The nodes that are put in, one behind the other. *)
LEMMA NodesAre ==
  /\ DevNodes!NodeAt[1] = 0 /\ DevNodes!NodeAt[2] = 124 /\ DevNodes!NodeAt[3] = 244
  /\ DevNodes!Added = 364
  /\ DOMAIN DevNodes!NewNodes = 1..3
  /\ \A k \in 1..3 : LET h == DevNodes!NewNodes[k] IN
       /\ h \in Headers /\ h.kind = "dev" /\ h.slash = FALSE /\ h.fs = 0
       /\ h.ns >= 1 /\ h.name = <<"dev", h.name[2]>>
       /\ PackedSize(h.ns, h.fs) = IF k = 1 THEN 124 ELSE 120
  /\ DevNodes!NewNodes[1].name[2] = "console"
  /\ DevNodes!NewNodes[2].name[2] = "null"
  /\ DevNodes!NewNodes[3].name[2] = "zero"
<1> DEFINE N == DevNodes!NewNodes
           hs(name, chars) == [name |-> <<"dev", name>>, kind |-> "dev", slash |-> FALSE,
                               ns |-> chars + 1, fs |-> 0]
<1>1. N = <<hs("console", 11), hs("null", 8), hs("zero", 8)>>
  BY DEF DevNodes!NewNodes, DevNodes!NodeHeader
<1>2. /\ Len(N) = 3 /\ DOMAIN N = 1..3
      /\ N[1] = hs("console", 11) /\ N[2] = hs("null", 8) /\ N[3] = hs("zero", 8)
  <2> HIDE DEF hs
  <2> QED BY <1>1
<1> HIDE DEF N
<1>3. /\ WalkedSize(12, 0) = 124 /\ PackedSize(12, 0) = 124
      /\ WalkedSize(9, 0) = 120 /\ PackedSize(9, 0) = 120
  BY DEF WalkedSize, PackedSize, PackedData, Align4, Pad4, HDR
<1>4. /\ N[1].ns = 12 /\ N[1].fs = 0 /\ N[2].ns = 9 /\ N[2].fs = 0 /\ N[3].ns = 9 /\ N[3].fs = 0
  BY <1>2
<1>5. /\ N[1].name = <<"dev", "console">> /\ N[2].name = <<"dev", "null">>
      /\ N[3].name = <<"dev", "zero">>
      /\ \A k \in 1..3 : N[k].kind = "dev" /\ N[k].slash = FALSE
  <2>1. \A k \in 1..3 : k = 1 \/ k = 2 \/ k = 3 OBVIOUS
  <2> QED BY <1>2, <2>1
<1>6. \A k \in 1..3 : N[k].name \in Seq(STRING) BY <1>2, NodesAssumption DEF N
<1>7. \A k \in 1..3 : N[k] \in Headers
  <2>1. "dev" \in Kinds BY DEF Kinds
  <2>2. ASSUME NEW nm \in Seq(STRING), NEW c \in Nat
        PROVE  [name |-> nm, kind |-> "dev", slash |-> FALSE, ns |-> c, fs |-> 0] \in Headers
    BY <2>1 DEF Headers
  <2>3. /\ <<"dev", "console">> \in Seq(STRING) /\ <<"dev", "null">> \in Seq(STRING)
        /\ <<"dev", "zero">> \in Seq(STRING)
    BY <1>5, <1>6
  <2>4. N[1] \in Headers
    <3>1. N[1] = [name |-> <<"dev", "console">>, kind |-> "dev", slash |-> FALSE, ns |-> 12, fs |-> 0]
      BY <1>2
    <3> QED BY <2>2, <2>3, <3>1
  <2>5. N[2] \in Headers
    <3>1. N[2] = [name |-> <<"dev", "null">>, kind |-> "dev", slash |-> FALSE, ns |-> 9, fs |-> 0]
      BY <1>2
    <3> QED BY <2>2, <2>3, <3>1
  <2>6. N[3] \in Headers
    <3>1. N[3] = [name |-> <<"dev", "zero">>, kind |-> "dev", slash |-> FALSE, ns |-> 9, fs |-> 0]
      BY <1>2
    <3> QED BY <2>2, <2>3, <3>1
  <2>7. \A k \in 1..3 : k = 1 \/ k = 2 \/ k = 3 OBVIOUS
  <2> QED BY <2>4, <2>5, <2>6, <2>7
<1> DEFINE D == 1..(Len(N) + 1)
           F(f) == f = [i \in D |-> IF i = 1 THEN 0
                                    ELSE f[i - 1] + DevNodes!WalkedSize(N[i - 1].ns, N[i - 1].fs)]
           at == DevNodes!NodeAt
<1>8. D = 1..4 BY <1>2
<1>9. \E f : F(f)
  <2> DEFINE w == [i \in 1..4 |-> IF i = 1 THEN 0 ELSE IF i = 2 THEN 124 ELSE IF i = 3 THEN 244 ELSE 364]
  <2>1. \A i \in 1..4 : w[i] = IF i = 1 THEN 0
                               ELSE w[i - 1] + DevNodes!WalkedSize(N[i - 1].ns, N[i - 1].fs)
    <3>1. TAKE i \in 1..4
    <3>2. i = 1 \/ i = 2 \/ i = 3 \/ i = 4 OBVIOUS
    <3>3. /\ DevNodes!WalkedSize(N[1].ns, N[1].fs) = 124 /\ DevNodes!WalkedSize(N[2].ns, N[2].fs) = 120
          /\ DevNodes!WalkedSize(N[3].ns, N[3].fs) = 120
      BY <1>3, <1>4, SameWords
    <3> QED BY <3>2, <3>3
  <2>2. w = [i \in 1..4 |-> w[i]] OBVIOUS
  <2> HIDE DEF w
  <2>3. F(w) BY <1>8, <2>1, <2>2
  <2> HIDE DEF F
  <2> QED BY <2>3
<1>10. at = CHOOSE f : F(f) BY DEF DevNodes!NodeAt, N
<1> HIDE DEF at
<1>11. F(at)
  <2> HIDE DEF F
  <2> QED BY <1>9, <1>10
<1>12. \A i \in 1..4 : at[i] = IF i = 1 THEN 0
                              ELSE at[i - 1] + DevNodes!WalkedSize(N[i - 1].ns, N[i - 1].fs)
  BY <1>8, <1>11
<1>13. at[1] = 0 /\ at[2] = 124 /\ at[3] = 244 /\ at[4] = 364
  <2>1. /\ DevNodes!WalkedSize(N[1].ns, N[1].fs) = 124 /\ DevNodes!WalkedSize(N[2].ns, N[2].fs) = 120
        /\ DevNodes!WalkedSize(N[3].ns, N[3].fs) = 120
    BY <1>3, <1>4, SameWords
  <2>2. at[1] = 0 BY <1>12
  <2>3. at[2] = at[1] + 124 BY <1>12, <2>1
  <2>4. at[3] = at[2] + 120 BY <1>12, <2>1
  <2>5. at[4] = at[3] + 120 BY <1>12, <2>1
  <2> QED BY <2>2, <2>3, <2>4, <2>5
<1>14. DevNodes!Added = 364 BY <1>2, <1>13 DEF DevNodes!Added, N, at
<1>15. \A k \in 1..3 : /\ N[k].fs = 0 /\ N[k].ns >= 1 /\ N[k].name = <<"dev", N[k].name[2]>>
                       /\ PackedSize(N[k].ns, N[k].fs) = IF k = 1 THEN 124 ELSE 120
  <2>1. \A k \in 1..3 : k = 1 \/ k = 2 \/ k = 3 OBVIOUS
  <2> QED BY <1>3, <1>4, <1>5, <2>1
<1> QED BY <1>2, <1>5, <1>7, <1>13, <1>14, <1>15 DEF N, at

-----------------------------------------------------------------------------
(* Archives.                                                               *)

EntryOf(a, i) == a.hdr[a.off[i]]

(* A head stands at an entry or within its name or data. *)
At(a, i, m) == \/ m = a.off[i]
               \/ /\ a.off[i] < m
                  /\ m + MAGIC <= a.off[i] + PackedData(EntryOf(a, i).ns) + EntryOf(a, i).fs

(* What IsArchive says of each entry. *)
LEMMA EntriesAre ==
  ASSUME NEW a, IsArchive(a)
  PROVE  /\ Len(a.off) \in Nat /\ Len(a.off) >= 1 /\ DOMAIN a.off = 1..Len(a.off)
         /\ a.off \in Seq(Nat) /\ a.off[1] = 0 /\ a.len \in Nat
         /\ DOMAIN a.hdr \subseteq Nat
         /\ \A m \in DOMAIN a.hdr : a.hdr[m] \in Headers
         /\ \A i \in 1..Len(a.off) : LET h == EntryOf(a, i) IN
              /\ a.off[i] \in Nat /\ a.off[i] \in DOMAIN a.hdr /\ a.len >= a.off[i] + HDR
              /\ h \in Headers /\ h.ns \in Nat /\ h.fs \in Nat /\ h.ns >= 1
              /\ (h.kind = "end") <=> (i = Len(a.off))
              /\ WalkedSize(h.ns, h.fs) \in Nat /\ WalkedSize(h.ns, h.fs) >= HDR
              /\ WalkedSize(h.ns, h.fs) % 4 = 0
              /\ PackedSize(h.ns, h.fs) \in Nat /\ PackedData(h.ns) \in Nat
              /\ PackedData(h.ns) + h.fs <= WalkedSize(h.ns, h.fs) + 3
              /\ \A j \in 1..Len(a.off) :
                   i < j => /\ a.off[j] >= a.off[i] + PackedSize(h.ns, h.fs)
                            /\ a.off[j] >= a.off[i] + WalkedSize(h.ns, h.fs)
                            /\ a.off[i] < a.off[j]
<1>1. /\ a.off \in Seq(Nat) /\ Len(a.off) >= 1 /\ a.off[1] = 0 /\ a.len \in Nat
      /\ DOMAIN a.hdr \subseteq Nat /\ \A m \in DOMAIN a.hdr : a.hdr[m] \in Headers
  BY DEF IsArchive
<1>2. Len(a.off) \in Nat /\ DOMAIN a.off = 1..Len(a.off) BY <1>1, LenProperties
<1>3. ASSUME NEW i \in 1..Len(a.off)
      PROVE  LET h == EntryOf(a, i) IN
              /\ a.off[i] \in Nat /\ a.off[i] \in DOMAIN a.hdr /\ a.len >= a.off[i] + HDR
              /\ h \in Headers /\ h.ns \in Nat /\ h.fs \in Nat /\ h.ns >= 1
              /\ (h.kind = "end") <=> (i = Len(a.off))
              /\ WalkedSize(h.ns, h.fs) \in Nat /\ WalkedSize(h.ns, h.fs) >= HDR
              /\ WalkedSize(h.ns, h.fs) % 4 = 0
              /\ PackedSize(h.ns, h.fs) \in Nat /\ PackedData(h.ns) \in Nat
              /\ PackedData(h.ns) + h.fs <= WalkedSize(h.ns, h.fs) + 3
              /\ \A j \in 1..Len(a.off) :
                   i < j => /\ a.off[j] >= a.off[i] + PackedSize(h.ns, h.fs)
                            /\ a.off[j] >= a.off[i] + WalkedSize(h.ns, h.fs)
                            /\ a.off[i] < a.off[j]
  <2> DEFINE h == EntryOf(a, i)
  <2>1. a.off[i] \in Nat BY <1>1, <1>2, ElementOfSeq
  <2>2. /\ a.off[i] \in DOMAIN a.hdr /\ a.len >= a.off[i] + HDR /\ h.ns >= 1
        /\ (h.kind = "end") <=> (i = Len(a.off))
        /\ \A j \in 1..Len(a.off) : i < j => a.off[j] >= a.off[i] + PackedSize(h.ns, h.fs)
    BY <1>2 DEF IsArchive, EntryOf
  <2>3. h \in Headers BY <1>1, <2>2 DEF EntryOf
  <2>4. h.ns \in Nat /\ h.fs \in Nat BY <2>3 DEF Headers
  <2> HIDE DEF h
  <2>5. /\ WalkedSize(h.ns, h.fs) \in Nat /\ WalkedSize(h.ns, h.fs) >= HDR
        /\ WalkedSize(h.ns, h.fs) % 4 = 0
        /\ PackedSize(h.ns, h.fs) \in Nat /\ PackedData(h.ns) \in Nat
        /\ WalkedSize(h.ns, h.fs) <= PackedSize(h.ns, h.fs)
        /\ PackedData(h.ns) + h.fs <= WalkedSize(h.ns, h.fs) + 3
    BY <2>4, WalkedIs
  <2>6. ASSUME NEW j \in 1..Len(a.off), i < j
        PROVE  /\ a.off[j] >= a.off[i] + WalkedSize(h.ns, h.fs)
               /\ a.off[i] < a.off[j]
    <3>1. a.off[j] \in Nat BY <1>1, <1>2, ElementOfSeq
    <3>2. a.off[j] >= a.off[i] + PackedSize(h.ns, h.fs) BY <2>2, <2>6
    <3> QED BY SMTT(60), <2>1, <2>5, <3>1, <3>2 DEF HDR
  <2> QED BY <2>1, <2>2, <2>3, <2>4, <2>5, <2>6 DEF h
<1> QED BY <1>1, <1>2, <1>3

(* Where the walk leaves an entry it leaves the heads of that entry and of  *)
(* those before behind, and has those of the later ones ahead.              *)
LEMMA HeadPlace ==
  ASSUME NEW a, IsArchive(a), StraysInside(a), NEW i \in 1..(Len(a.off) - 1), NEW m \in DOMAIN a.hdr,
         NEW after, after = a.off[i] + WalkedSize(EntryOf(a, i).ns, EntryOf(a, i).fs)
  PROVE  \E j \in 1..Len(a.off) : /\ At(a, j, m)
                                  /\ m < after => j <= i
                                  /\ m >= after => j > i /\ m >= a.off[j]
<1>1. /\ Len(a.off) \in Nat /\ DOMAIN a.off = 1..Len(a.off) /\ DOMAIN a.hdr \subseteq Nat
  BY EntriesAre
<1>2. PICK j \in 1..Len(a.off) : At(a, j, m)
  BY <1>1 DEF StraysInside, At, EntryOf
<1>3. i \in 1..Len(a.off) /\ i \in Nat /\ j \in Nat /\ m \in Nat BY <1>1
<1> DEFINE hi == EntryOf(a, i)   hj == EntryOf(a, j)
<1> DEFINE oi == a.off[i]   wi == WalkedSize(hi.ns, hi.fs)
           oj == a.off[j]   wj == WalkedSize(hj.ns, hj.fs)
           ej == PackedData(hj.ns) + hj.fs
<1>4. oi \in Nat /\ wi \in Nat /\ (i < j => oj >= oi + wi) BY <1>3, EntriesAre
<1>5. /\ oj \in Nat /\ wj \in Nat /\ ej \in Nat /\ wj >= 110 /\ ej <= wj + 3
      /\ j < i => oi >= oj + wj
  <2>1. /\ PackedData(hj.ns) \in Nat /\ hj.fs \in Nat
        /\ oj \in Nat /\ wj \in Nat /\ wj >= HDR /\ ej <= wj + 3
        /\ j < i => oi >= oj + wj
    BY <1>3, EntriesAre
  <2> QED BY SMTT(60), <2>1 DEF HDR
<1>6. m = oj \/ (oj < m /\ m + 6 <= oj + ej)
  <2>1. PackedData(hj.ns) \in Nat /\ hj.fs \in Nat BY <1>3, EntriesAre
  <2>2. m = oj \/ (oj < m /\ m + MAGIC <= oj + PackedData(hj.ns) + hj.fs) BY <1>2 DEF At
  <2> DEFINE d == PackedData(hj.ns)   f == hj.fs
  <2>3. ej = d + f /\ d \in Nat /\ f \in Nat BY <2>1
  <2>4. m = oj \/ (oj < m /\ m + 6 <= oj + d + f) BY <2>2 DEF MAGIC
  <2> HIDE DEF d, f, oj, ej
  <2> QED BY <1>3, <1>5, <2>3, <2>4
<1>7. after = oi + wi OBVIOUS
<1> HIDE DEF oi, wi, oj, wj, ej
<1>8. m >= oj BY SMTT(60), <1>3, <1>5, <1>6
<1>9. m < after => j <= i BY <1>3, <1>4, <1>5, <1>7, <1>8
<1>10. m >= after => j > i
  <2>1. j <= i => after >= oj + wj
    <3>1. j < i => after >= oj + wj BY <1>4, <1>5, <1>7
    <3>2. j = i => after >= oj + wj BY <1>4, <1>5, <1>7 DEF oi, wi, oj, wj
    <3> QED BY <1>3, <3>1, <3>2
  <2>2. m < oj + wj BY SMTT(60), <1>3, <1>5, <1>6
  <2> QED BY <1>3, <1>4, <1>5, <1>7, <2>1, <2>2
<1> QED BY <1>2, <1>8, <1>9, <1>10 DEF oj

(* After an entry comes nothing before the next one. *)
LEMMA NothingBetween ==
  ASSUME NEW a, IsArchive(a), StraysInside(a), NEW i \in 1..(Len(a.off) - 1), NEW m \in DOMAIN a.hdr,
         m >= a.off[i] + WalkedSize(EntryOf(a, i).ns, EntryOf(a, i).fs)
  PROVE  m >= a.off[i + 1]
<1>1. PICK j \in 1..Len(a.off) : j > i /\ m >= a.off[j] BY HeadPlace
<1>2. Len(a.off) \in Nat /\ m \in Nat /\ i \in Nat /\ i + 1 \in 1..Len(a.off)
  <2>1. Len(a.off) \in Nat /\ DOMAIN a.hdr \subseteq Nat BY EntriesAre
  <2> QED BY <2>1
<1>3. a.off[j] \in Nat /\ a.off[i + 1] \in Nat BY <1>2, EntriesAre
<1>4. j = i + 1 \/ i + 1 < j BY <1>1, <1>2
<1>5. i + 1 < j => a.off[i + 1] < a.off[j] BY <1>2, EntriesAre
<1> QED BY <1>1, <1>2, <1>3, <1>4, <1>5

-----------------------------------------------------------------------------
(* The splice.                                                             *)

(* Two sequences, one behind the other, and a function as a sequence. *)
LEMMA Joined ==
  ASSUME NEW S, NEW x \in Seq(S), NEW y \in Seq(S)
  PROVE  /\ x \o y \in Seq(S) /\ Len(x \o y) = Len(x) + Len(y)
         /\ \A j \in 1..Len(x) : (x \o y)[j] = x[j]
         /\ \A k \in 1..Len(y) : (x \o y)[Len(x) + k] = y[k]
<1> DEFINE n == Len(x)   m == Len(y)
<1>1. n \in Nat /\ m \in Nat BY LenProperties
<1>2. x \o y \in Seq(S) /\ Len(x \o y) = n + m BY ConcatProperties
<1>3. \A j \in 1..n : (x \o y)[j] = x[j] BY <1>1, ConcatProperties
<1>4. \A k \in 1..m : (x \o y)[n + k] = y[k]
  <2>1. TAKE k \in 1..m
  <2>2. n + k \in 1..(n + m) /\ ~(n + k <= n) /\ (n + k) - n = k BY <1>1
  <2> QED BY <2>2, ConcatProperties
<1> QED BY <1>2, <1>3, <1>4

(* A function on 1..n is a sequence of length n. *)
LEMMA Listing ==
  ASSUME NEW S, NEW n \in Nat, NEW f \in [1..n -> S]
  PROVE  f \in Seq(S) /\ Len(f) = n
OBVIOUS

(* What the script takes for granted, and where it cuts. *)
CutAt(a, i, after) ==
  /\ Handed(a) /\ DevNodes!IsRamdisk(a)
  /\ i \in 1..(Len(a.off) - 1) /\ DevNodes!IsDev(EntryOf(a, i))
  /\ after = a.off[i] + WalkedSize(EntryOf(a, i).ns, EntryOf(a, i).fs)

Put(after, k) == after + DevNodes!NodeAt[k]

(* The offsets of what is written. *)
LEMMA SplicedOffsets ==
  ASSUME NEW a, NEW i, NEW after, CutAt(a, i, after)
  PROVE  LET d == DevNodes!Spliced(a, after) IN
         /\ after \in Nat
         /\ d.off \in Seq(Nat) /\ Len(d.off) = Len(a.off) + 3
         /\ \A j \in 1..i : d.off[j] = a.off[j]
         /\ \A k \in 1..3 : d.off[i + k] = Put(after, k)
         /\ \A j \in (i + 1)..Len(a.off) : d.off[j + 3] = a.off[j] + 364
         /\ d.len = a.len + 364
<1> DEFINE L == Len(a.off)   d == DevNodes!Spliced(a, after)
           n == Cardinality({j \in DOMAIN a.off : a.off[j] < after})
           s1 == SubSeq(a.off, 1, n)
           s2 == [k \in DOMAIN DevNodes!NewNodes |-> after + DevNodes!NodeAt[k]]
           s3 == [k \in 1..(L - n) |-> a.off[n + k] + DevNodes!Added]
<1>1. /\ IsArchive(a) /\ i \in 1..(L - 1)
      /\ after = a.off[i] + WalkedSize(EntryOf(a, i).ns, EntryOf(a, i).fs)
  BY DEF CutAt, Handed
<1>2. /\ L \in Nat /\ DOMAIN a.off = 1..L /\ a.off \in Seq(Nat) /\ a.len \in Nat
      /\ \A j \in 1..L : a.off[j] \in Nat
  BY <1>1, EntriesAre
<1>3. i \in 1..L /\ i \in Nat BY <1>1, <1>2
<1>4. /\ WalkedSize(EntryOf(a, i).ns, EntryOf(a, i).fs) \in Nat
      /\ WalkedSize(EntryOf(a, i).ns, EntryOf(a, i).fs) >= HDR
      /\ \A j \in 1..L :
           i < j => a.off[j] >= a.off[i] + WalkedSize(EntryOf(a, i).ns, EntryOf(a, i).fs)
      /\ \A j, k \in 1..L : j < k => a.off[j] < a.off[k]
  BY <1>1, <1>3, EntriesAre
<1>5. after \in Nat /\ a.off[i] < after /\ \A j \in 1..L : i < j => a.off[j] >= after
  BY SMTT(60), <1>1, <1>2, <1>3, <1>4 DEF HDR
<1>6. n = i
  <2>1. {j \in DOMAIN a.off : a.off[j] < after} = 1..i
    <3>1. \A j \in 1..L : a.off[j] < after <=> j <= i
      <4>1. TAKE j \in 1..L
      <4>2. a.off[j] \in Nat /\ a.off[i] \in Nat BY <1>2, <1>3
      <4>3. j < i => a.off[j] < a.off[i] BY <1>3, <1>4
      <4> QED BY SMTT(60), <1>3, <1>5, <4>2, <4>3
    <3> QED BY SMTT(60), <1>2, <1>3, <3>1
  <2>2. Cardinality(1..i) = i
    <3>1. Cardinality(1..i) = IF 1 > i THEN 0 ELSE i - 1 + 1 BY <1>3, FS_Interval
    <3> QED BY <1>1, <1>3, <3>1
  <2> QED BY <2>1, <2>2
<1> HIDE DEF n
<1>7. d.off = (s1 \o s2) \o s3 /\ d.len = a.len + DevNodes!Added
  <2> DEFINE N(m) == [off |-> (SubSeq(a.off, 1, m) \o s2)
                                 \o [k \in 1..(L - m) |-> a.off[m + k] + DevNodes!Added],
                      len |-> a.len + DevNodes!Added]
  <2>1. n = DevNodes!Cardinality({j \in DOMAIN a.off : a.off[j] < after}) BY SameWords DEF n
  <2>2. d.off = N(DevNodes!Cardinality({j \in DOMAIN a.off : a.off[j] < after})).off
    BY DEF DevNodes!Spliced
  <2>3. d.len = a.len + DevNodes!Added BY DEF DevNodes!Spliced
  <2>4. d.off = N(n).off BY <2>1, <2>2
  <2> QED BY <2>3, <2>4
<1>8. s1 \in Seq(Nat) /\ Len(s1) = i /\ \A j \in 1..i : s1[j] = a.off[j]
  <2>1. \A j \in 1..i : a.off[j] \in Nat BY <1>2, <1>3
  <2> QED BY <1>1, <1>2, <1>3, <1>6, <2>1
<1>9. s2 \in Seq(Nat) /\ Len(s2) = 3 /\ \A k \in 1..3 : s2[k] = Put(after, k)
  <2>1. \A k \in 1..3 : after + DevNodes!NodeAt[k] \in Nat
    <3>1. \A k \in 1..3 : k = 1 \/ k = 2 \/ k = 3 OBVIOUS
    <3> QED BY <1>5, <3>1, NodesAre
  <2>2. DOMAIN DevNodes!NewNodes = 1..3 BY NodesAre
  <2>3. s2 = [k \in 1..3 |-> after + DevNodes!NodeAt[k]] BY <2>2
  <2> HIDE DEF s2
  <2> QED BY <2>1, <2>3 DEF Put
<1>10. s3 \in Seq(Nat) /\ Len(s3) = L - i /\ \A k \in 1..(L - i) : s3[k] = a.off[i + k] + 364
  <2>1. DevNodes!Added = 364 BY NodesAre
  <2>2. \A k \in 1..(L - i) : a.off[i + k] + 364 \in Nat BY SMTT(60), <1>2, <1>3
  <2>3. s3 = [k \in 1..(L - i) |-> a.off[i + k] + 364] BY <1>6, <2>1
  <2>4. L - i \in Nat BY <1>1, <1>2, <1>3
  <2>5. s3 \in [1..(L - i) -> Nat] /\ \A k \in 1..(L - i) : s3[k] = a.off[i + k] + 364
    <3> HIDE DEF s3, L
    <3> QED BY <2>2, <2>3
  <2> HIDE DEF s3, L
  <2> QED BY <2>4, <2>5, Listing
<1> HIDE DEF s1, s2, s3
<1>11. /\ s1 \o s2 \in Seq(Nat) /\ Len(s1 \o s2) = i + 3
       /\ \A j \in 1..i : (s1 \o s2)[j] = s1[j]
       /\ \A k \in 1..3 : (s1 \o s2)[i + k] = s2[k]
  <2>1. Len(s1) = i /\ Len(s2) = 3 /\ s1 \in Seq(Nat) /\ s2 \in Seq(Nat) BY <1>8, <1>9
  <2>2. /\ s1 \o s2 \in Seq(Nat) /\ Len(s1 \o s2) = Len(s1) + Len(s2)
        /\ \A j \in 1..Len(s1) : (s1 \o s2)[j] = s1[j]
        /\ \A k \in 1..Len(s2) : (s1 \o s2)[Len(s1) + k] = s2[k]
    <3>1. s1 \in Seq(Nat) BY <2>1
    <3>2. s2 \in Seq(Nat) BY <2>1
    <3> QED BY <3>1, <3>2, Joined
  <2> QED BY <2>1, <2>2
<1> DEFINE s == s1 \o s2
<1> HIDE DEF s
<1>12. /\ s \o s3 \in Seq(Nat) /\ Len(s \o s3) = L + 3
       /\ \A j \in 1..(i + 3) : (s \o s3)[j] = s[j]
       /\ \A k \in 1..(L - i) : (s \o s3)[i + 3 + k] = s3[k]
  <2>1. s \in Seq(Nat) /\ Len(s) = i + 3 BY <1>11 DEF s
  <2> DEFINE m == L - i
  <2>2. s3 \in Seq(Nat) /\ Len(s3) = m BY <1>10
  <2>3. (i + 3) + m = L + 3
    <3> HIDE DEF L
    <3> QED BY <1>2, <1>3
  <2> HIDE DEF m
  <2>4. /\ s \o s3 \in Seq(Nat) /\ Len(s \o s3) = (i + 3) + m
        /\ \A j \in 1..(i + 3) : (s \o s3)[j] = s[j]
        /\ \A k \in 1..m : (s \o s3)[(i + 3) + k] = s3[k]
    <3>1. s \in Seq(Nat) BY <2>1
    <3>2. s3 \in Seq(Nat) BY <2>2
    <3>3. /\ s \o s3 \in Seq(Nat) /\ Len(s \o s3) = Len(s) + Len(s3)
          /\ \A j \in 1..Len(s) : (s \o s3)[j] = s[j]
          /\ \A k \in 1..Len(s3) : (s \o s3)[Len(s) + k] = s3[k]
      BY <3>1, <3>2, Joined
    <3> QED BY <2>1, <2>2, <3>3
  <2> QED BY <2>3, <2>4 DEF m
<1>13. d.off = s \o s3 /\ d.len = a.len + 364 BY <1>7, NodesAre DEF s
<1> HIDE DEF d
<1>14. \A j \in 1..i : d.off[j] = a.off[j]
  <2>1. TAKE j \in 1..i
  <2>2. j \in 1..(i + 3) BY <1>3
  <2>3. (s \o s3)[j] = s[j] /\ s[j] = s1[j] /\ s1[j] = a.off[j] BY <1>8, <1>11, <1>12, <2>2 DEF s
  <2> QED BY <1>13, <2>3
<1>15. \A k \in 1..3 : d.off[i + k] = Put(after, k)
  <2>1. TAKE k \in 1..3
  <2>2. i + k \in 1..(i + 3) BY <1>3
  <2>3. (s \o s3)[i + k] = s[i + k] /\ s[i + k] = s2[k] /\ s2[k] = Put(after, k)
    BY <1>9, <1>11, <1>12, <2>2 DEF s
  <2> QED BY <1>13, <2>3
<1>16. \A j \in (i + 1)..L : d.off[j + 3] = a.off[j] + 364
  <2>1. TAKE j \in (i + 1)..L
  <2>2. j - i \in 1..(L - i) /\ i + 3 + (j - i) = j + 3 /\ i + (j - i) = j BY <1>2, <1>3
  <2>3. (s \o s3)[i + 3 + (j - i)] = s3[j - i] /\ s3[j - i] = a.off[i + (j - i)] + 364
    BY ZenonT(60), <1>10, <1>12, <2>2
  <2> QED BY ZenonT(60), <1>13, <2>2, <2>3
<1> QED BY ZenonT(60), <1>5, <1>12, <1>13, <1>14, <1>15, <1>16 DEF d, L

(* Their headers: those before the cut stay, those behind it move with the  *)
(* bytes, and the nodes are new.                                            *)
LEMMA SplicedHeaders ==
  ASSUME NEW a, NEW i, NEW after, CutAt(a, i, after)
  PROVE  LET d == DevNodes!Spliced(a, after) IN
         /\ \A q \in DOMAIN a.hdr : q < after => q \in DOMAIN d.hdr /\ d.hdr[q] = a.hdr[q]
         /\ \A q \in DOMAIN a.hdr :
              q >= after => q + 364 \in DOMAIN d.hdr /\ d.hdr[q + 364] = a.hdr[q]
         /\ \A k \in 1..3 : /\ Put(after, k) \in DOMAIN d.hdr
                            /\ d.hdr[Put(after, k)] = DevNodes!NewNodes[k]
         /\ \A m \in DOMAIN d.hdr : \/ m \in DOMAIN a.hdr /\ m < after
                                    \/ \E q \in DOMAIN a.hdr : q >= after /\ m = q + 364
                                    \/ \E k \in 1..3 : m = Put(after, k)
<1> DEFINE d == DevNodes!Spliced(a, after)
           Moved(q) == IF q < after THEN q ELSE q + DevNodes!Added
           new == {after + DevNodes!NodeAt[k] : k \in DOMAIN DevNodes!NewNodes}
           node(m) == DevNodes!NewNodes[CHOOSE k \in DOMAIN DevNodes!NewNodes :
                                          m = after + DevNodes!NodeAt[k]]
           old(m) == a.hdr[IF m < after THEN m ELSE m - DevNodes!Added]
           all == {Moved(q) : q \in DOMAIN a.hdr} \cup new
<1>1. d.hdr = [m \in all |-> IF m \in new THEN node(m) ELSE old(m)]
  BY DEF DevNodes!Spliced
<1>2. after \in Nat BY SplicedOffsets
<1>3. DOMAIN a.hdr \subseteq Nat BY EntriesAre DEF CutAt, Handed
<1>4. /\ DevNodes!Added = 364 /\ DOMAIN DevNodes!NewNodes = 1..3
      /\ DevNodes!NodeAt[1] = 0 /\ DevNodes!NodeAt[2] = 124 /\ DevNodes!NodeAt[3] = 244
  BY NodesAre
<1>5. \A k \in 1..3 : k = 1 \/ k = 2 \/ k = 3 OBVIOUS
<1>6. new = {Put(after, k) : k \in 1..3} BY <1>4 DEF Put
<1>7. \A k \in 1..3 : Put(after, k) \in Nat /\ Put(after, k) >= after /\ Put(after, k) < after + 364
  BY <1>2, <1>4, <1>5 DEF Put
<1>8. ASSUME NEW q \in DOMAIN a.hdr
      PROVE  /\ q < after => q \in all /\ q \notin new /\ old(q) = a.hdr[q]
             /\ q >= after => q + 364 \in all /\ q + 364 \notin new /\ old(q + 364) = a.hdr[q]
  <2>1. q \in Nat BY <1>3
  <2>2. Moved(q) \in all OBVIOUS
  <2>3. q < after => q \in all BY <2>2
  <2>4. q >= after => q + 364 \in all BY <1>2, <1>4, <2>1, <2>2
  <2> HIDE DEF all, new
  <2>5. q < after => q \notin new BY <1>2, <1>6, <1>7, <2>1
  <2>6. q >= after => q + 364 \notin new BY <1>2, <1>6, <1>7, <2>1
  <2>7. q < after => old(q) = a.hdr[q] OBVIOUS
  <2>8. q >= after => old(q + 364) = a.hdr[q] BY <1>2, <1>4, <2>1
  <2> QED BY <2>3, <2>4, <2>5, <2>6, <2>7, <2>8
<1>9. ASSUME NEW k \in 1..3
      PROVE  Put(after, k) \in all /\ Put(after, k) \in new /\ node(Put(after, k)) = DevNodes!NewNodes[k]
  <2>1. Put(after, k) \in new BY <1>6
  <2>2. Put(after, k) \in all BY <2>1
  <2>3. (CHOOSE l \in DOMAIN DevNodes!NewNodes : Put(after, k) = after + DevNodes!NodeAt[l]) = k
    <3>1. \A l \in 1..3 : Put(after, k) = after + DevNodes!NodeAt[l] => l = k
      BY <1>2, <1>4, <1>5 DEF Put
    <3>2. Put(after, k) = after + DevNodes!NodeAt[k] BY DEF Put
    <3> QED BY <1>4, <3>1, <3>2
  <2> QED BY <2>1, <2>2, <2>3
<1>10. ASSUME NEW m \in all
       PROVE  \/ m \in DOMAIN a.hdr /\ m < after
              \/ \E q \in DOMAIN a.hdr : q >= after /\ m = q + 364
              \/ \E k \in 1..3 : m = Put(after, k)
  <2>1. CASE m \in new BY <1>6, <2>1
  <2>2. CASE \E q \in DOMAIN a.hdr : m = Moved(q)
    <3>1. PICK q \in DOMAIN a.hdr : m = Moved(q) BY <2>2
    <3>2. q \in Nat BY <1>3
    <3>3. CASE q < after BY <3>1, <3>3
    <3>4. CASE q >= after BY <1>2, <1>4, <3>1, <3>2, <3>4
    <3> QED BY <1>2, <3>2, <3>3, <3>4
  <2> QED BY <2>1, <2>2
<1> HIDE DEF d, Moved, new, node, old, all
<1>11. DOMAIN d.hdr = all BY <1>1
<1>12. \A m \in all : d.hdr[m] = IF m \in new THEN node(m) ELSE old(m) BY <1>1
<1>13. /\ \A q \in DOMAIN a.hdr : q < after => q \in DOMAIN d.hdr /\ d.hdr[q] = a.hdr[q]
       /\ \A q \in DOMAIN a.hdr :
            q >= after => q + 364 \in DOMAIN d.hdr /\ d.hdr[q + 364] = a.hdr[q]
  BY <1>8, <1>11, <1>12
<1>14. \A k \in 1..3 : /\ Put(after, k) \in DOMAIN d.hdr
                       /\ d.hdr[Put(after, k)] = DevNodes!NewNodes[k]
  BY <1>9, <1>11, <1>12
<1> QED BY <1>10, <1>11, <1>13, <1>14 DEF d

(* The entries of what is written: those of the source, and the nodes.      *)
LEMMA SplicedEntries ==
  ASSUME NEW a, NEW i, NEW after, CutAt(a, i, after)
  PROVE  LET d == DevNodes!Spliced(a, after) IN
         /\ \A j \in 1..i : /\ d.off[j] = a.off[j] /\ EntryOf(d, j) = EntryOf(a, j)
                            /\ d.off[j] \in DOMAIN d.hdr /\ a.off[j] < after
         /\ \A k \in 1..3 : /\ d.off[i + k] = Put(after, k)
                            /\ EntryOf(d, i + k) = DevNodes!NewNodes[k]
                            /\ d.off[i + k] \in DOMAIN d.hdr
         /\ \A j \in (i + 1)..Len(a.off) :
              /\ d.off[j + 3] = a.off[j] + 364 /\ EntryOf(d, j + 3) = EntryOf(a, j)
              /\ d.off[j + 3] \in DOMAIN d.hdr /\ a.off[j] >= after
         /\ \A n \in 1..(Len(a.off) + 3) : \/ n \in 1..i
                                           \/ \E k \in 1..3 : n = i + k
                                           \/ \E j \in (i + 1)..Len(a.off) : n = j + 3
<1> DEFINE L == Len(a.off)   d == DevNodes!Spliced(a, after)
           w == WalkedSize(EntryOf(a, i).ns, EntryOf(a, i).fs)
<1>1. IsArchive(a) /\ i \in 1..(L - 1) /\ after = a.off[i] + w BY DEF CutAt, Handed
<1>2. L \in Nat BY <1>1, EntriesAre
<1>3. i \in 1..L /\ i \in Nat BY <1>1, <1>2
<1>4. \A j \in 1..L : a.off[j] \in Nat /\ a.off[j] \in DOMAIN a.hdr BY <1>1, EntriesAre
<1>5. /\ w \in Nat /\ w >= HDR
      /\ \A j \in 1..L : i < j => a.off[j] >= a.off[i] + w
      /\ \A j, k \in 1..L : j < k => a.off[j] < a.off[k]
  BY <1>1, <1>3, EntriesAre
<1>6. /\ \A j \in 1..i : d.off[j] = a.off[j]
      /\ \A k \in 1..3 : d.off[i + k] = Put(after, k)
      /\ \A j \in (i + 1)..L : d.off[j + 3] = a.off[j] + 364
      /\ after \in Nat
  BY SMTT(60), SplicedOffsets
<1>7. /\ \A q \in DOMAIN a.hdr : q < after => q \in DOMAIN d.hdr /\ d.hdr[q] = a.hdr[q]
      /\ \A q \in DOMAIN a.hdr :
           q >= after => q + 364 \in DOMAIN d.hdr /\ d.hdr[q + 364] = a.hdr[q]
      /\ \A k \in 1..3 : /\ Put(after, k) \in DOMAIN d.hdr
                         /\ d.hdr[Put(after, k)] = DevNodes!NewNodes[k]
  BY SplicedHeaders
<1> HIDE DEF L, d, w
<1>8. ASSUME NEW j \in 1..i
      PROVE  /\ d.off[j] = a.off[j] /\ EntryOf(d, j) = EntryOf(a, j)
             /\ d.off[j] \in DOMAIN d.hdr /\ a.off[j] < after
  <2>1. j \in 1..L BY <1>2, <1>3
  <2>2. a.off[j] <= a.off[i]
    <3>1. j < i => a.off[j] < a.off[i] BY <1>3, <1>5, <2>1
    <3>2. j = i \/ j < i BY <1>3
    <3> QED BY <1>3, <1>4, <2>1, <3>1, <3>2
  <2>3. a.off[i] \in Nat /\ a.off[j] \in Nat /\ a.off[j] \in DOMAIN a.hdr BY <1>3, <1>4, <2>1
  <2>4. a.off[j] < after BY <1>1, <1>5, <2>2, <2>3 DEF HDR
  <2> QED BY <1>6, <1>7, <2>3, <2>4 DEF EntryOf
<1>9. ASSUME NEW j \in (i + 1)..L
      PROVE  /\ d.off[j + 3] = a.off[j] + 364 /\ EntryOf(d, j + 3) = EntryOf(a, j)
             /\ d.off[j + 3] \in DOMAIN d.hdr /\ a.off[j] >= after
  <2>1. j \in 1..L /\ i < j BY <1>2, <1>3
  <2>2. a.off[j] >= after /\ a.off[j] \in DOMAIN a.hdr BY <1>1, <1>4, <1>5, <2>1
  <2> QED BY <1>6, <1>7, <2>2 DEF EntryOf
<1>10. \A k \in 1..3 : /\ d.off[i + k] = Put(after, k)
                       /\ EntryOf(d, i + k) = DevNodes!NewNodes[k]
                       /\ d.off[i + k] \in DOMAIN d.hdr
  BY <1>6, <1>7 DEF EntryOf
<1>11. ASSUME NEW n \in 1..(L + 3)
       PROVE  \/ n \in 1..i
              \/ \E k \in 1..3 : n = i + k
              \/ \E j \in (i + 1)..L : n = j + 3
  <2>1. CASE n <= i BY <1>2, <1>3, <2>1
  <2>2. CASE n > i /\ n <= i + 3
    <3>1. n - i \in 1..3 /\ n = i + (n - i) BY <1>2, <1>3, <2>2
    <3> QED BY <3>1
  <2>3. CASE n > i + 3
    <3>1. n - 3 \in (i + 1)..L /\ n = (n - 3) + 3 BY <1>2, <1>3, <2>3
    <3> QED BY <3>1
  <2> QED BY <1>2, <1>3, <2>1, <2>2, <2>3
<1> QED BY <1>8, <1>9, <1>10, <1>11 DEF L, d

(* An entry of what is written, against its length and a later one. *)
LEMMA SplicedRoom ==
  ASSUME NEW a, NEW i, NEW after, CutAt(a, i, after), NEW d, d = DevNodes!Spliced(a, after),
         NEW n \in 1..(Len(a.off) + 3)
  PROVE  /\ d.off[n] \in Nat /\ d.off[n] \in DOMAIN d.hdr
         /\ EntryOf(d, n).ns >= 1
         /\ (EntryOf(d, n).kind = "end") <=> (n = Len(a.off) + 3)
         /\ d.len >= d.off[n] + HDR
         /\ \A m \in 1..(Len(a.off) + 3) :
              n < m => d.off[m] >= d.off[n] + PackedSize(EntryOf(d, n).ns, EntryOf(d, n).fs)
<1> DEFINE L == Len(a.off)
<1>1. /\ IsArchive(a) /\ i \in 1..(L - 1) /\ DevNodes!IsRamdisk(a) /\ DevNodes!IsDev(EntryOf(a, i))
      /\ after = a.off[i] + WalkedSize(EntryOf(a, i).ns, EntryOf(a, i).fs)
  BY DEF CutAt, Handed
<1>2. L \in Nat /\ a.len \in Nat BY <1>1, EntriesAre
<1>3. i \in 1..L /\ i \in Nat /\ L \in 1..L BY <1>1, <1>2
<1>4. \A j \in 1..L : LET h == EntryOf(a, j) IN
        /\ a.off[j] \in Nat /\ a.len >= a.off[j] + HDR /\ h.ns >= 1
        /\ (h.kind = "end") <=> (j = L)
        /\ PackedSize(h.ns, h.fs) \in Nat
        /\ \A k \in 1..L : j < k => a.off[k] >= a.off[j] + PackedSize(h.ns, h.fs)
  BY <1>1, EntriesAre
<1>5. after = a.off[i] + PackedSize(EntryOf(a, i).ns, EntryOf(a, i).fs)
  <2>1. EntryOf(a, i).ns \in Nat /\ EntryOf(a, i).fs \in Nat BY <1>1, <1>3, EntriesAre
  <2>2. EntryOf(a, i).fs = 0 BY <1>1 DEF DevNodes!IsRamdisk, EntryOf
  <2> QED BY <1>1, <2>1, <2>2, WalkedIs
<1>6. /\ \A j \in 1..i : /\ d.off[j] = a.off[j] /\ EntryOf(d, j) = EntryOf(a, j)
                         /\ d.off[j] \in DOMAIN d.hdr /\ a.off[j] < after
      /\ \A k \in 1..3 : /\ d.off[i + k] = Put(after, k)
                         /\ EntryOf(d, i + k) = DevNodes!NewNodes[k]
                         /\ d.off[i + k] \in DOMAIN d.hdr
      /\ \A j \in (i + 1)..L :
           /\ d.off[j + 3] = a.off[j] + 364 /\ EntryOf(d, j + 3) = EntryOf(a, j)
           /\ d.off[j + 3] \in DOMAIN d.hdr /\ a.off[j] >= after
      /\ \A x \in 1..(L + 3) : \/ x \in 1..i
                               \/ \E k \in 1..3 : x = i + k
                               \/ \E j \in (i + 1)..L : x = j + 3
  BY SMTT(60), SplicedEntries
<1>7. after \in Nat /\ d.len = a.len + 364 BY SplicedOffsets
<1>8. ASSUME NEW k \in 1..3
      PROVE  /\ Put(after, k) \in Nat /\ Put(after, k) >= after /\ Put(after, k) <= after + 244
             /\ DevNodes!NewNodes[k].ns >= 1 /\ DevNodes!NewNodes[k].kind = "dev"
             /\ LET s == PackedSize(DevNodes!NewNodes[k].ns, DevNodes!NewNodes[k].fs) IN
                /\ s \in Nat /\ Put(after, k) + s <= after + 364
                /\ \A l \in 1..3 : k < l => Put(after, l) >= Put(after, k) + s
  <2>1. /\ DevNodes!NodeAt[1] = 0 /\ DevNodes!NodeAt[2] = 124 /\ DevNodes!NodeAt[3] = 244
        /\ DevNodes!NewNodes[k].ns >= 1 /\ DevNodes!NewNodes[k].kind = "dev"
        /\ PackedSize(DevNodes!NewNodes[k].ns, DevNodes!NewNodes[k].fs) = IF k = 1 THEN 124 ELSE 120
    BY NodesAre
  <2>2. Put(after, 1) = after /\ Put(after, 2) = after + 124 /\ Put(after, 3) = after + 244
    BY <1>7, <2>1 DEF Put
  <2>3. \A l \in 1..3 : l = 1 \/ l = 2 \/ l = 3 OBVIOUS
  <2>4. CASE k = 1 BY SMTT(60), <1>7, <2>1, <2>2, <2>3, <2>4
  <2>5. CASE k = 2 BY SMTT(60), <1>7, <2>1, <2>2, <2>3, <2>5
  <2>6. CASE k = 3 BY SMTT(60), <1>7, <2>1, <2>2, <2>3, <2>6
  <2> QED BY <2>3, <2>4, <2>5, <2>6
<1> HIDE DEF L
<1>9. CASE n \in 1..i
  <2> DEFINE h == EntryOf(a, n)   s == PackedSize(h.ns, h.fs)
  <2>1. n \in 1..L /\ n # L /\ n # L + 3 /\ n \in Nat BY <1>1, <1>2, <1>3, <1>9
  <2>2. /\ d.off[n] = a.off[n] /\ EntryOf(d, n) = h /\ d.off[n] \in DOMAIN d.hdr BY <1>6, <1>9
  <2>3. /\ a.off[n] \in Nat /\ a.len >= a.off[n] + HDR /\ h.ns >= 1 /\ h.kind # "end"
        /\ s \in Nat /\ \A k \in 1..L : n < k => a.off[k] >= a.off[n] + s
    BY <1>4, <2>1
  <2>4. after >= a.off[n] + s
    <3>1. CASE n = i BY <1>5, <1>7, <2>3, <3>1
    <3>2. CASE n < i
      <4>1. a.off[i] >= a.off[n] + s BY <1>3, <2>3, <3>2
      <4>2. a.off[i] < after /\ a.off[i] \in Nat BY SMTT(60), <1>3, <1>4, <1>6
      <4> QED BY <1>7, <2>3, <4>1, <4>2
    <3> QED BY <1>3, <1>9, <3>1, <3>2
  <2> HIDE DEF h, s
  <2>5. ASSUME NEW m \in 1..(L + 3), n < m PROVE d.off[m] >= a.off[n] + s
    <3>1. CASE m \in 1..i
      <4>1. m \in 1..L BY <1>2, <1>3, <3>1
      <4> QED BY <1>6, <2>3, <2>5, <3>1, <4>1
    <3>2. CASE \E k \in 1..3 : m = i + k
      <4>1. PICK k \in 1..3 : m = i + k BY <3>2
      <4>2. d.off[m] = Put(after, k) /\ Put(after, k) >= after /\ Put(after, k) \in Nat
        BY ZenonT(60), <1>6, <1>8, <4>1
      <4> QED BY SMTT(60), <1>7, <2>3, <2>4, <4>2
    <3>3. CASE \E j \in (i + 1)..L : m = j + 3
      <4>1. PICK j \in (i + 1)..L : m = j + 3 BY <3>3
      <4>2. d.off[m] = a.off[j] + 364 /\ a.off[j] >= after BY <1>6, <4>1
      <4>3. a.off[j] \in Nat BY <1>2, <1>3, <1>4
      <4> DEFINE x == a.off[j]   y == a.off[n]   u == d.off[m]
      <4>4. x \in Nat /\ y \in Nat /\ s \in Nat /\ after \in Nat BY <1>7, <2>3, <4>3
      <4>5. x >= after /\ after >= y + s /\ u = x + 364 BY <2>4, <4>2
      <4> HIDE DEF x, y, u
      <4>6. u >= y + s BY <4>4, <4>5
      <4> QED BY <4>6 DEF u, y
    <3> QED BY <1>6, <3>1, <3>2, <3>3
  <2>6. d.len >= d.off[n] + HDR BY SMTT(60), <1>2, <1>7, <2>2, <2>3 DEF HDR
  <2> QED BY <2>1, <2>2, <2>3, <2>5, <2>6 DEF L, h, s
<1>10. CASE \E k \in 1..3 : n = i + k
  <2>1. PICK k \in 1..3 : n = i + k BY <1>10
  <2> DEFINE h == DevNodes!NewNodes[k]   s == PackedSize(h.ns, h.fs)
  <2>2. d.off[n] = Put(after, k) /\ EntryOf(d, n) = h /\ d.off[n] \in DOMAIN d.hdr BY <1>6, <2>1
  <2>3. /\ Put(after, k) \in Nat /\ Put(after, k) <= after + 244
        /\ h.ns >= 1 /\ h.kind = "dev"
        /\ s \in Nat /\ Put(after, k) + s <= after + 364
        /\ \A l \in 1..3 : k < l => Put(after, l) >= Put(after, k) + s
    BY SMTT(60), <1>8
  <2> HIDE DEF h, s
  <2>4. n # L + 3 /\ n > i /\ n \in Nat BY <1>1, <1>2, <1>3, <2>1
  <2>5. ASSUME NEW m \in 1..(L + 3), n < m PROVE d.off[m] >= Put(after, k) + s
    <3>1. CASE m \in 1..i BY <1>3, <2>4, <2>5, <3>1
    <3>2. CASE \E l \in 1..3 : m = i + l
      <4>1. PICK l \in 1..3 : m = i + l BY <3>2
      <4>2. k < l BY <1>3, <2>1, <2>5, <4>1
      <4> QED BY SMTT(60), <1>6, <2>3, <4>1, <4>2
    <3>3. CASE \E j \in (i + 1)..L : m = j + 3
      <4>1. PICK j \in (i + 1)..L : m = j + 3 BY <3>3
      <4>2. d.off[m] = a.off[j] + 364 /\ a.off[j] >= after BY <1>6, <4>1
      <4>3. a.off[j] \in Nat BY <1>2, <1>3, <1>4
      <4> DEFINE x == a.off[j]   y == Put(after, k)   u == d.off[m]
      <4>4. x \in Nat /\ y \in Nat /\ s \in Nat /\ after \in Nat BY <1>7, <2>3, <4>3
      <4>5. x >= after /\ y + s <= after + 364 /\ u = x + 364 BY <2>3, <4>2
      <4> HIDE DEF x, y, u
      <4>6. u >= y + s BY <4>4, <4>5
      <4> QED BY <4>6 DEF u, y
    <3> QED BY <1>6, <3>1, <3>2, <3>3
  <2>6. d.len >= d.off[n] + HDR
    <3>1. L \in (i + 1)..L BY <1>1, <1>2, <1>3
    <3>2. a.off[L] >= after /\ a.off[L] \in Nat /\ a.len >= a.off[L] + HDR BY SMTT(60), <1>3, <1>4, <1>6, <3>1
    <3> DEFINE x == a.off[L]   y == Put(after, k)
    <3>3. /\ x >= after /\ x \in Nat /\ a.len >= x + 110 /\ y \in Nat /\ y <= after + 244
          /\ d.off[n] = y /\ d.len = a.len + 364
      BY SMTT(60), <1>7, <2>2, <2>3, <3>2 DEF HDR
    <3> HIDE DEF x, y
    <3> QED BY <1>2, <1>7, <3>3 DEF HDR
  <2> QED BY <2>2, <2>3, <2>4, <2>5, <2>6 DEF L, h, s
<1>11. CASE \E j \in (i + 1)..L : n = j + 3
  <2>1. PICK j \in (i + 1)..L : n = j + 3 BY <1>11
  <2> DEFINE h == EntryOf(a, j)   s == PackedSize(h.ns, h.fs)
  <2>2. j \in 1..L /\ j \in Nat /\ (j = L <=> n = L + 3) /\ n > i + 3 BY <1>2, <1>3, <2>1
  <2>3. d.off[n] = a.off[j] + 364 /\ EntryOf(d, n) = h /\ d.off[n] \in DOMAIN d.hdr BY <1>6, <2>1
  <2>4. /\ a.off[j] \in Nat /\ a.len >= a.off[j] + HDR /\ h.ns >= 1 /\ ((h.kind = "end") <=> (j = L))
        /\ s \in Nat /\ \A k \in 1..L : j < k => a.off[k] >= a.off[j] + s
    BY <1>4, <2>2
  <2> HIDE DEF h, s
  <2>5. ASSUME NEW m \in 1..(L + 3), n < m PROVE d.off[m] >= d.off[n] + s
    <3>1. CASE m \in 1..i BY <1>3, <2>1, <2>2, <2>5, <3>1
    <3>2. CASE \E l \in 1..3 : m = i + l BY <1>3, <2>1, <2>2, <2>5, <3>2
    <3>3. CASE \E k \in (i + 1)..L : m = k + 3
      <4>1. PICK k \in (i + 1)..L : m = k + 3 BY <3>3
      <4>2. d.off[m] = a.off[k] + 364 BY <1>6, <4>1
      <4>3. k \in 1..L /\ j < k /\ a.off[k] \in Nat
        <5>1. k \in 1..L BY <1>2, <1>3
        <5>2. j \in Nat /\ k \in Nat /\ j + 3 < k + 3 BY <2>1, <2>2, <2>5, <4>1, <5>1
        <5>3. j < k BY <5>2
        <5> QED BY <1>4, <5>1, <5>3
      <4>4. a.off[k] >= a.off[j] + s BY <2>4, <4>3
      <4> DEFINE x == a.off[k]   y == a.off[j]   u == d.off[m]   v == d.off[n]
      <4>5. x \in Nat /\ y \in Nat /\ s \in Nat BY <2>4, <4>3
      <4>6. x >= y + s /\ u = x + 364 /\ v = y + 364 BY <2>3, <4>2, <4>4
      <4> HIDE DEF x, y, u, v
      <4>7. u >= v + s BY <4>5, <4>6
      <4> QED BY <4>7 DEF u, v
    <3> QED BY <1>6, <3>1, <3>2, <3>3
  <2>6. d.len >= d.off[n] + HDR BY SMTT(60), <1>2, <1>7, <2>3, <2>4 DEF HDR
  <2>7. d.off[n] \in Nat BY <2>3, <2>4
  <2> QED BY <2>2, <2>3, <2>4, <2>5, <2>6, <2>7 DEF L, h, s
<1> QED BY <1>6, <1>9, <1>10, <1>11 DEF L

(* What is written is an archive. *)
LEMMA SplicedIsArchive ==
  ASSUME NEW a, NEW i, NEW after, CutAt(a, i, after)
  PROVE  IsArchive(DevNodes!Spliced(a, after))
<1> DEFINE L == Len(a.off)   d == DevNodes!Spliced(a, after)
<1>1. IsArchive(a) /\ i \in 1..(L - 1) BY DEF CutAt, Handed
<1>2. /\ L \in Nat /\ L >= 1 /\ a.off[1] = 0 /\ a.len \in Nat /\ DOMAIN a.hdr \subseteq Nat
      /\ \A m \in DOMAIN a.hdr : a.hdr[m] \in Headers
  BY <1>1, EntriesAre
<1>3. i \in Nat /\ i >= 1 BY <1>1, <1>2
<1>4. /\ after \in Nat /\ d.off \in Seq(Nat) /\ Len(d.off) = L + 3 /\ d.len = a.len + 364
      /\ \A j \in 1..i : d.off[j] = a.off[j]
  BY SplicedOffsets
<1>5. d.off[1] = 0 BY SMTT(60), <1>2, <1>3, <1>4
<1>6. /\ \A q \in DOMAIN a.hdr : q < after => q \in DOMAIN d.hdr /\ d.hdr[q] = a.hdr[q]
      /\ \A q \in DOMAIN a.hdr :
           q >= after => q + 364 \in DOMAIN d.hdr /\ d.hdr[q + 364] = a.hdr[q]
      /\ \A k \in 1..3 : /\ Put(after, k) \in DOMAIN d.hdr
                         /\ d.hdr[Put(after, k)] = DevNodes!NewNodes[k]
      /\ \A m \in DOMAIN d.hdr : \/ m \in DOMAIN a.hdr /\ m < after
                                 \/ \E q \in DOMAIN a.hdr : q >= after /\ m = q + 364
                                 \/ \E k \in 1..3 : m = Put(after, k)
  BY SplicedHeaders
<1>7. \A k \in 1..3 : Put(after, k) \in Nat /\ DevNodes!NewNodes[k] \in Headers
  <2>1. \A k \in 1..3 : k = 1 \/ k = 2 \/ k = 3 OBVIOUS
  <2> QED BY SMTT(60), <1>4, <2>1, NodesAre DEF Put
<1>8. \A n \in 1..(L + 3) :
         /\ d.off[n] \in Nat /\ d.off[n] \in DOMAIN d.hdr
         /\ EntryOf(d, n).ns >= 1
         /\ (EntryOf(d, n).kind = "end") <=> (n = L + 3)
         /\ d.len >= d.off[n] + HDR
         /\ \A m \in 1..(L + 3) :
              n < m => d.off[m] >= d.off[n] + PackedSize(EntryOf(d, n).ns, EntryOf(d, n).fs)
  BY SplicedRoom
<1> HIDE DEF L, d
<1>9. \A m \in DOMAIN d.hdr : m \in Nat /\ d.hdr[m] \in Headers
  <2>1. TAKE m \in DOMAIN d.hdr
  <2>2. CASE m \in DOMAIN a.hdr /\ m < after BY <1>2, <1>6, <2>2
  <2>3. CASE \E q \in DOMAIN a.hdr : q >= after /\ m = q + 364
    <3>1. PICK q \in DOMAIN a.hdr : q >= after /\ m = q + 364 BY <2>3
    <3>2. q \in Nat /\ d.hdr[m] = a.hdr[q] /\ a.hdr[q] \in Headers BY <1>2, <1>6, <3>1
    <3> QED BY <3>1, <3>2
  <2>4. CASE \E k \in 1..3 : m = Put(after, k) BY <1>6, <1>7, <2>4
  <2> QED BY <1>6, <2>2, <2>3, <2>4
<1>10. DOMAIN d.off = 1..(L + 3) /\ Len(d.off) >= 1 /\ d.len \in Nat BY <1>2, <1>4
<1>11. Len(d.off) = L + 3 /\ d.off \in Seq(Nat) BY <1>4
<1>12. \A n \in DOMAIN d.off :
          LET h == d.hdr[d.off[n]] IN
          /\ d.off[n] \in DOMAIN d.hdr
          /\ h.ns >= 1
          /\ (h.kind = "end") <=> (n = Len(d.off))
          /\ d.len >= d.off[n] + HDR
          /\ \A m \in DOMAIN d.off : n < m => d.off[m] >= d.off[n] + PackedSize(h.ns, h.fs)
  BY <1>8, <1>10, <1>11 DEF EntryOf
<1>13. IsArchive(d) BY <1>5, <1>9, <1>10, <1>11, <1>12 DEF IsArchive
<1> QED BY <1>13 DEF d

(* A stray copy moves with the entry it lies in. *)
LEMMA SplicedStraysInside ==
  ASSUME NEW a, NEW i, NEW after, CutAt(a, i, after)
  PROVE  StraysInside(DevNodes!Spliced(a, after))
<1> DEFINE L == Len(a.off)   d == DevNodes!Spliced(a, after)
<1>1. /\ IsArchive(a) /\ StraysInside(a) /\ i \in 1..(L - 1)
      /\ after = a.off[i] + WalkedSize(EntryOf(a, i).ns, EntryOf(a, i).fs)
  BY DEF CutAt, Handed
<1>2. L \in Nat /\ DOMAIN a.hdr \subseteq Nat BY <1>1, EntriesAre
<1>3. i \in Nat /\ i >= 1 BY <1>1, <1>2
<1>4. after \in Nat /\ d.off \in Seq(Nat) /\ Len(d.off) = L + 3 BY SplicedOffsets
<1>5. \A m \in DOMAIN d.hdr : \/ m \in DOMAIN a.hdr /\ m < after
                              \/ \E q \in DOMAIN a.hdr : q >= after /\ m = q + 364
                              \/ \E k \in 1..3 : m = Put(after, k)
  BY SplicedHeaders
<1>6. /\ \A j \in 1..i : d.off[j] = a.off[j] /\ EntryOf(d, j) = EntryOf(a, j)
      /\ \A k \in 1..3 : d.off[i + k] = Put(after, k)
      /\ \A j \in (i + 1)..L : d.off[j + 3] = a.off[j] + 364 /\ EntryOf(d, j + 3) = EntryOf(a, j)
  BY SplicedEntries
<1>7. \A m \in DOMAIN a.hdr :
         \E j \in 1..L : /\ At(a, j, m)
                         /\ m < after => j <= i
                         /\ m >= after => j > i /\ m >= a.off[j]
  BY <1>1, HeadPlace
<1>8. \A j \in 1..L : a.off[j] \in Nat /\ PackedData(EntryOf(a, j).ns) \in Nat /\ EntryOf(a, j).fs \in Nat
  BY <1>1, EntriesAre
<1> HIDE DEF L, d
<1>9. DOMAIN d.off = 1..(L + 3) BY <1>2, <1>4
<1>10. ASSUME NEW m \in DOMAIN d.hdr PROVE \E n \in 1..(L + 3) : At(d, n, m)
  <2>1. CASE m \in DOMAIN a.hdr /\ m < after
    <3>1. PICK j \in 1..L : At(a, j, m) /\ j <= i BY <1>7, <2>1
    <3>2. j \in 1..i /\ j \in 1..(L + 3) BY <1>2, <1>3, <3>1
    <3>3. At(d, j, m) BY <1>6, <3>1, <3>2 DEF At
    <3> QED BY <3>2, <3>3
  <2>2. CASE \E q \in DOMAIN a.hdr : q >= after /\ m = q + 364
    <3>1. PICK q \in DOMAIN a.hdr : q >= after /\ m = q + 364 BY <2>2
    <3>2. PICK j \in 1..L : At(a, j, q) /\ j > i BY <1>7, <3>1
    <3>3. j \in (i + 1)..L /\ j + 3 \in 1..(L + 3) BY <1>2, <1>3, <3>2
    <3>4. At(d, j + 3, m)
      <4> DEFINE o == a.off[j]   pd == PackedData(EntryOf(a, j).ns)   f == EntryOf(a, j).fs
      <4>1. o \in Nat /\ pd \in Nat /\ f \in Nat /\ q \in Nat BY <1>2, <1>8
      <4>2. q = o \/ (o < q /\ q + 6 <= o + pd + f) BY <3>2 DEF At, MAGIC
      <4>3. /\ d.off[j + 3] = o + 364 /\ PackedData(EntryOf(d, j + 3).ns) = pd
            /\ EntryOf(d, j + 3).fs = f
        BY <1>6, <3>3
      <4> HIDE DEF o, pd, f
      <4>4. m = o + 364 \/ (o + 364 < m /\ m + 6 <= (o + 364) + pd + f) BY <3>1, <4>1, <4>2
      <4> QED BY <4>3, <4>4 DEF At, MAGIC
    <3> QED BY <3>3, <3>4
  <2>3. CASE \E k \in 1..3 : m = Put(after, k)
    <3>1. PICK k \in 1..3 : m = Put(after, k) BY <2>3
    <3>2. i + k \in 1..(L + 3) BY <1>1, <1>2, <1>3
    <3> QED BY <1>6, <3>1, <3>2 DEF At
  <2> QED BY <1>5, <2>1, <2>2, <2>3
<1> QED BY <1>9, <1>10 DEF StraysInside, At, EntryOf, d

(* The only directory above a node is dev. *)
LEMMA AboveNode ==
  ASSUME NEW k \in 1..3, NEW n, n \in Above(DevNodes!NewNodes[k].name)
  PROVE  n = <<"dev">>
<1>1. DevNodes!NewNodes[k].name = <<"dev", DevNodes!NewNodes[k].name[2]>> BY NodesAre
<1> DEFINE x == DevNodes!NewNodes[k].name[2]
<1>2. \E l \in 1..(Len(<<"dev", x>>) - 1) : n = SubSeq(<<"dev", x>>, 1, l) BY <1>1 DEF Above
<1> HIDE DEF x
<1>3. Len(<<"dev", x>>) = 2 OBVIOUS
<1>4. n = SubSeq(<<"dev", x>>, 1, 1) BY <1>2, <1>3
<1>5. SubSeq(<<"dev", x>>, 1, 1) = <<"dev">>
  <2> DEFINE S == {"dev", x}   s == SubSeq(<<"dev", x>>, 1, 1)
  <2>1. <<"dev", x>> \in Seq(S) /\ <<"dev">> \in Seq(S) OBVIOUS
  <2>2. s \in Seq(S) /\ Len(s) = 1 /\ s[1] = "dev" BY <1>3, <2>1, SubSeqProperties
  <2>3. Len(<<"dev">>) = 1 /\ <<"dev">>[1] = "dev" OBVIOUS
  <2> HIDE DEF s
  <2>4. \A k1 \in 1..Len(s) : s[k1] = <<"dev">>[k1] BY <2>2, <2>3
  <2> QED BY <2>1, <2>2, <2>3, <2>4, SeqEqual DEF s
<1> QED BY <1>4, <1>5

(* What IsTree and IsRamdisk say of the entries before the trailer. *)
LEMMA TreeEntries ==
  ASSUME NEW a, IsArchive(a), IsTree(a), DevNodes!IsRamdisk(a)
  PROVE  /\ \A j, l \in 1..(Len(a.off) - 1) :
              /\ Len(EntryOf(a, j).name) >= 1
              /\ EntryOf(a, j).slash => EntryOf(a, j).kind = "dir"
              /\ j # l => EntryOf(a, j).name # EntryOf(a, l).name
              /\ EntryOf(a, j).name \in Above(EntryOf(a, l).name) => EntryOf(a, j).kind = "dir"
         /\ \A j \in 1..(Len(a.off) - 1) :
              /\ DevNodes!Plausible(EntryOf(a, j))
              /\ DevNodes!IsDev(EntryOf(a, j)) =>
                   EntryOf(a, j).kind = "dir" /\ EntryOf(a, j).fs = 0
              /\ \A k \in 1..3 : /\ DevNodes!NewNodes[k].name \notin Above(EntryOf(a, j).name)
                                 /\ DevNodes!NewNodes[k].name # EntryOf(a, j).name
<1>1. \A j, l \in 1..(Len(a.off) - 1) :
              /\ Len(EntryOf(a, j).name) >= 1
              /\ EntryOf(a, j).slash => EntryOf(a, j).kind = "dir"
              /\ j # l => EntryOf(a, j).name # EntryOf(a, l).name
              /\ EntryOf(a, j).name \in Above(EntryOf(a, l).name) => EntryOf(a, j).kind = "dir"
  BY SMTT(60) DEF IsTree, EntryOf
<1>2. DOMAIN DevNodes!NewNodes = 1..3 BY NodesAre
<1>3. ASSUME NEW j \in 1..(Len(a.off) - 1)
      PROVE  /\ DevNodes!Plausible(EntryOf(a, j))
             /\ DevNodes!IsDev(EntryOf(a, j)) =>
                  EntryOf(a, j).kind = "dir" /\ EntryOf(a, j).fs = 0
             /\ \A k \in 1..3 : /\ DevNodes!NewNodes[k].name \notin Above(EntryOf(a, j).name)
                                /\ DevNodes!NewNodes[k].name # EntryOf(a, j).name
  <2> DEFINE h == EntryOf(a, j)
  <2>1. /\ DevNodes!Plausible(h)
        /\ DevNodes!IsDev(h) => h.kind = "dir" /\ h.fs = 0
        /\ \A k \in DOMAIN DevNodes!NewNodes :
             DevNodes!NewNodes[k].name \notin DevNodes!Above(h.name) \cup {h.name}
    BY DEF DevNodes!IsRamdisk, EntryOf
  <2>2. DevNodes!Above(h.name) = Above(h.name) BY SameWords
  <2> HIDE DEF h
  <2> QED BY <1>2, <2>1, <2>2 DEF h
<1> QED BY <1>1, <1>3

(* The names of what is written form a tree. *)
LEMMA SplicedIsTree ==
  ASSUME NEW a, NEW i, NEW after, CutAt(a, i, after)
  PROVE  IsTree(DevNodes!Spliced(a, after))
<1> DEFINE L == Len(a.off)   d == DevNodes!Spliced(a, after)   node(k) == DevNodes!NewNodes[k]
<1>1. IsArchive(a) /\ IsTree(a) /\ DevNodes!IsRamdisk(a) /\ i \in 1..(L - 1) BY DEF CutAt, Handed
<1>2. L \in Nat BY <1>1, EntriesAre
<1>3. i \in Nat /\ i >= 1 BY <1>1, <1>2
<1>4. Len(d.off) = L + 3 BY SplicedOffsets
<1>5. /\ \A j \in 1..i : EntryOf(d, j) = EntryOf(a, j)
      /\ \A k \in 1..3 : EntryOf(d, i + k) = node(k)
      /\ \A j \in (i + 1)..L : EntryOf(d, j + 3) = EntryOf(a, j)
      /\ \A n \in 1..(L + 3) : \/ n \in 1..i
                               \/ \E k \in 1..3 : n = i + k
                               \/ \E j \in (i + 1)..L : n = j + 3
  BY SMTT(60), SplicedEntries
<1>6. \A j, l \in 1..(L - 1) :
        /\ Len(EntryOf(a, j).name) >= 1
        /\ EntryOf(a, j).slash => EntryOf(a, j).kind = "dir"
        /\ j # l => EntryOf(a, j).name # EntryOf(a, l).name
        /\ EntryOf(a, j).name \in Above(EntryOf(a, l).name) => EntryOf(a, j).kind = "dir"
  BY <1>1, TreeEntries
<1>7. \A j \in 1..(L - 1) :
        /\ DevNodes!IsDev(EntryOf(a, j)) => EntryOf(a, j).kind = "dir" /\ EntryOf(a, j).fs = 0
        /\ \A k \in 1..3 : /\ node(k).name \notin Above(EntryOf(a, j).name)
                           /\ node(k).name # EntryOf(a, j).name
  BY <1>1, TreeEntries
<1>8. ASSUME NEW k \in 1..3
      PROVE  /\ Len(node(k).name) = 2 /\ node(k).slash = FALSE
             /\ \A l \in 1..3 : k # l => node(k).name # node(l).name
             /\ \A n : n \in Above(node(k).name) => n = <<"dev">>
  <2>1. node(k).slash = FALSE /\ node(k).name = <<"dev", node(k).name[2]>> BY NodesAre
  <2>2. Len(node(k).name) = 2
    <3> DEFINE x == node(k).name[2]
    <3>1. node(k).name = <<"dev", x>> BY <2>1
    <3> HIDE DEF x
    <3> QED BY <3>1
  <2>3. \A l \in 1..3 : k # l => node(k).name # node(l).name
    <3>1. /\ node(1).name[2] = "console" /\ node(2).name[2] = "null" /\ node(3).name[2] = "zero"
      BY NodesAre
    <3>2. \A l \in 1..3 : l = 1 \/ l = 2 \/ l = 3 OBVIOUS
    <3> HIDE DEF node
    <3> QED BY <3>1, <3>2
  <2>4. \A n : n \in Above(node(k).name) => n = <<"dev">> BY AboveNode
  <2> QED BY <2>1, <2>2, <2>3, <2>4
<1> HIDE DEF L, d, node
<1> DEFINE Old(n, j) == EntryOf(d, n) = EntryOf(a, j) /\ n = IF j <= i THEN j ELSE j + 3
<1>9. ASSUME NEW n \in 1..(L + 2)
      PROVE  \/ \E j \in 1..(L - 1) : Old(n, j)
             \/ \E k \in 1..3 : n = i + k /\ EntryOf(d, n) = node(k)
  <2>1. n \in 1..(L + 3) BY <1>2
  <2>2. CASE n \in 1..i
    <3>1. n \in 1..(L - 1) /\ n <= i BY <1>1, <1>2, <1>3, <2>2
    <3> QED BY <1>5, <2>2, <3>1
  <2>3. CASE \E k \in 1..3 : n = i + k BY <1>5, <2>3
  <2>4. CASE \E j \in (i + 1)..L : n = j + 3
    <3>1. PICK j \in (i + 1)..L : n = j + 3 BY <2>4
    <3>2. j \in 1..(L - 1) /\ ~(j <= i) BY <1>2, <1>3, <3>1
    <3> QED BY <1>5, <3>1, <3>2
  <2> QED BY <1>5, <2>1, <2>2, <2>3, <2>4
<1>10. ASSUME NEW m \in 1..(L + 2), NEW n \in 1..(L + 2)
       PROVE  LET g == EntryOf(d, m)
                  h == EntryOf(d, n)
              IN /\ Len(g.name) >= 1
                 /\ g.slash => g.kind = "dir"
                 /\ m # n => g.name # h.name
                 /\ g.name \in Above(h.name) => g.kind = "dir"
  <2> DEFINE g == EntryOf(d, m)   h == EntryOf(d, n)
  <2>1. ASSUME NEW j \in 1..(L - 1), Old(m, j)
        PROVE  /\ Len(g.name) >= 1
               /\ g.slash => g.kind = "dir"
               /\ m # n => g.name # h.name
               /\ g.name \in Above(h.name) => g.kind = "dir"
    <3>1. g = EntryOf(a, j) BY <2>1
    <3>2. CASE \E l \in 1..(L - 1) : Old(n, l)
      <4>1. PICK l \in 1..(L - 1) : Old(n, l) BY <3>2
      <4>2. m # n => j # l BY <2>1, <4>1
      <4>3. h = EntryOf(a, l) BY <4>1
      <4> QED BY <1>6, <3>1, <4>2, <4>3
    <3>3. CASE \E k \in 1..3 : n = i + k /\ EntryOf(d, n) = node(k)
      <4>1. PICK k \in 1..3 : h = node(k) BY <3>3
      <4>2. g.name # h.name BY <1>7, <3>1, <4>1
      <4>3. g.name \in Above(h.name) => g.name = <<"dev">> BY <1>8, <4>1
      <4>4. g.name = <<"dev">> => g.kind = "dir" BY <1>7, <3>1 DEF DevNodes!IsDev
      <4> QED BY <1>6, <3>1, <4>2, <4>3, <4>4
    <3> QED BY <1>9, <3>2, <3>3
  <2>2. ASSUME NEW k \in 1..3, m = i + k, g = node(k)
        PROVE  /\ Len(g.name) >= 1
               /\ g.slash => g.kind = "dir"
               /\ m # n => g.name # h.name
               /\ g.name \in Above(h.name) => g.kind = "dir"
    <3>1. Len(g.name) = 2 /\ g.slash = FALSE BY <1>8, <2>2
    <3>2. CASE \E l \in 1..(L - 1) : Old(n, l)
      <4>1. PICK l \in 1..(L - 1) : h = EntryOf(a, l) BY <3>2
      <4>2. g.name # h.name /\ g.name \notin Above(h.name) BY <1>7, <2>2, <4>1
      <4>3. Len(g.name) >= 1 /\ ~g.slash BY <3>1
      <4> QED BY <4>2, <4>3
    <3>3. CASE \E l \in 1..3 : n = i + l /\ EntryOf(d, n) = node(l)
      <4>1. PICK l \in 1..3 : n = i + l /\ h = node(l) BY <3>3
      <4>2. m # n => g.name # h.name
        <5>1. m # n => k # l BY <2>2, <4>1
        <5> QED BY <1>8, <2>2, <4>1, <5>1
      <4>3. g.name \notin Above(h.name)
        <5>1. Len(<<"dev">>) = 1 OBVIOUS
        <5> QED BY <1>8, <3>1, <4>1, <5>1
      <4> QED BY <3>1, <4>2, <4>3
    <3> QED BY <1>9, <3>2, <3>3
  <2> QED BY <1>9, <2>1, <2>2
<1>11. (L + 3) - 1 = L + 2 BY <1>2
<1>12. IsTree(d) BY <1>4, <1>10, <1>11 DEF IsTree, EntryOf
<1> QED BY <1>12 DEF d

(* In what is written the names are those of the source with the nodes      *)
(* behind dev.                                                              *)
LEMMA SplicedNames ==
  ASSUME NEW a, NEW i, NEW after, CutAt(a, i, after)
  PROVE  LET d == DevNodes!Spliced(a, after) IN
         DevNodes!Names(d)
           = SubSeq(DevNodes!Names(a), 1, i)
             \o [k \in DOMAIN DevNodes!NewNodes |-> DevNodes!NewNodes[k].name]
             \o SubSeq(DevNodes!Names(a), i + 1, Len(a.off) - 1)
<1> DEFINE L == Len(a.off)   d == DevNodes!Spliced(a, after)   S == Seq(STRING)
           na == DevNodes!Names(a)   nd == DevNodes!Names(d)
           s1 == SubSeq(na, 1, i)
           s2 == [k \in DOMAIN DevNodes!NewNodes |-> DevNodes!NewNodes[k].name]
           s3 == SubSeq(na, i + 1, L - 1)
<1>1. IsArchive(a) /\ i \in 1..(L - 1) BY DEF CutAt, Handed
<1>2. /\ L \in Nat /\ L >= 1
      /\ \A j \in 1..L : EntryOf(a, j) \in Headers
  BY <1>1, EntriesAre
<1>3. i \in Nat /\ i >= 1 /\ i <= L - 1 /\ L - 1 \in Nat BY <1>1, <1>2
<1>4. Len(d.off) = L + 3 BY SplicedOffsets
<1>5. /\ \A j \in 1..i : EntryOf(d, j) = EntryOf(a, j)
      /\ \A k \in 1..3 : EntryOf(d, i + k) = DevNodes!NewNodes[k]
      /\ \A j \in (i + 1)..L : EntryOf(d, j + 3) = EntryOf(a, j)
      /\ \A n \in 1..(L + 3) : \/ n \in 1..i
                               \/ \E k \in 1..3 : n = i + k
                               \/ \E j \in (i + 1)..L : n = j + 3
  BY SplicedEntries
<1>6. \A j \in 1..L : EntryOf(a, j).name \in S BY <1>2 DEF Headers
<1>7. na = [j \in 1..(L - 1) |-> EntryOf(a, j).name] BY DEF DevNodes!Names, EntryOf
<1>8. nd = [n \in 1..((L + 3) - 1) |-> EntryOf(d, n).name] BY <1>4 DEF DevNodes!Names, EntryOf
<1>9. DOMAIN DevNodes!NewNodes = 1..3 /\ \A k \in 1..3 : DevNodes!NewNodes[k].name \in S
  BY NodesAre DEF Headers
<1>10. s2 \in Seq(S) /\ Len(s2) = 3 /\ \A k \in 1..3 : s2[k] = DevNodes!NewNodes[k].name
  <2>1. s2 = [k \in 1..3 |-> DevNodes!NewNodes[k].name] BY <1>9
  <2>2. s2 \in [1..3 -> S] BY <1>9, <2>1
  <2> HIDE DEF s2, S
  <2>3. s2 \in Seq(S) /\ Len(s2) = 3 BY <2>2, Listing
  <2> QED BY <2>1, <2>3
<1> HIDE DEF L, d, S, na, nd
<1>11. \A j \in 1..(L - 1) : na[j] = EntryOf(a, j).name /\ na[j] \in S
  <2>1. \A j \in 1..(L - 1) : j \in 1..L BY <1>2
  <2> QED BY <1>6, <1>7, <2>1
<1>12. s1 \in Seq(S) /\ Len(s1) = i /\ \A j \in 1..i : s1[j] = EntryOf(a, j).name
  <2>1. \A j \in 1..i : j \in 1..(L - 1) /\ na[j] \in S BY <1>3, <1>11
  <2>2. /\ s1 \in Seq(S) /\ Len(s1) = IF 1 <= i THEN i - 1 + 1 ELSE 0
        /\ \A j \in 1..(i - 1 + 1) : s1[j] = na[1 + j - 1]
    <3>1. 1 \in Int /\ i \in Int BY <1>3
    <3> QED BY <2>1, <3>1, SubSeqProperties
  <2> HIDE DEF s1
  <2>3. \A j \in 1..i : 1 + j - 1 = j /\ i - 1 + 1 = i BY <1>3
  <2> QED BY <1>3, <1>11, <2>1, <2>2, <2>3
<1> DEFINE m == L - 1 - i
<1>13. m \in Nat /\ i + 3 + m = L + 2 BY <1>2, <1>3
<1>14. s3 \in Seq(S) /\ Len(s3) = m /\ \A j \in 1..m : s3[j] = EntryOf(a, i + j).name
  <2>1. \A j \in (i + 1)..(L - 1) : j \in 1..(L - 1) /\ na[j] \in S BY <1>3, <1>11
  <2>2. /\ s3 \in Seq(S) /\ Len(s3) = IF i + 1 <= L - 1 THEN (L - 1) - (i + 1) + 1 ELSE 0
        /\ \A j \in 1..((L - 1) - (i + 1) + 1) : s3[j] = na[(i + 1) + j - 1]
    <3>1. i + 1 \in Int /\ L - 1 \in Int BY <1>2, <1>3
    <3> QED BY <2>1, <3>1, SubSeqProperties
  <2> HIDE DEF s3
  <2>3. (L - 1) - (i + 1) + 1 = m /\ (~(i + 1 <= L - 1) => m = 0) BY <1>2, <1>3
  <2>4. \A j \in 1..m : (i + 1) + j - 1 = i + j /\ i + j \in 1..(L - 1) BY <1>2, <1>3
  <2> QED BY <1>11, <2>2, <2>3, <2>4
<1> HIDE DEF s1, s2, s3, m
<1> DEFINE s == s1 \o s2   t == (s1 \o s2) \o s3
<1>15. /\ s \in Seq(S) /\ Len(s) = i + 3
       /\ \A j \in 1..i : s[j] = s1[j]
       /\ \A k \in 1..3 : s[i + k] = s2[k]
  <2>1. s1 \in Seq(S) /\ s2 \in Seq(S) /\ Len(s1) = i /\ Len(s2) = 3 BY <1>10, <1>12
  <2>2. /\ s1 \o s2 \in Seq(S) /\ Len(s1 \o s2) = Len(s1) + Len(s2)
        /\ \A j \in 1..Len(s1) : (s1 \o s2)[j] = s1[j]
        /\ \A k \in 1..Len(s2) : (s1 \o s2)[Len(s1) + k] = s2[k]
    <3>1. s1 \in Seq(S) BY <2>1
    <3>2. s2 \in Seq(S) BY <2>1
    <3> QED BY <3>1, <3>2, Joined
  <2> QED BY <2>1, <2>2
<1>16. /\ t \in Seq(S) /\ Len(t) = L + 2
       /\ \A j \in 1..(i + 3) : t[j] = s[j]
       /\ \A k \in 1..m : t[i + 3 + k] = s3[k]
  <2> HIDE DEF s
  <2>1. /\ s \o s3 \in Seq(S) /\ Len(s \o s3) = Len(s) + Len(s3)
        /\ \A j \in 1..Len(s) : (s \o s3)[j] = s[j]
        /\ \A k \in 1..Len(s3) : (s \o s3)[Len(s) + k] = s3[k]
    <3>1. s \in Seq(S) BY <1>15
    <3>2. s3 \in Seq(S) BY <1>14
    <3> QED BY <3>1, <3>2, Joined
  <2>2. t = s \o s3 BY DEF s
  <2> HIDE DEF t
  <2> QED BY <1>13, <1>14, <1>15, <2>1, <2>2
<1> HIDE DEF s, t
<1>17. nd \in Seq(S) /\ Len(nd) = L + 2 /\ \A n \in 1..(L + 2) : nd[n] = EntryOf(d, n).name /\ t[n] = nd[n]
  <2>1. (L + 3) - 1 = L + 2 /\ L + 2 \in Nat BY <1>2
  <2>2. \A n \in 1..(L + 2) : nd[n] = EntryOf(d, n).name BY <1>8, <2>1
  <2>3. ASSUME NEW n \in 1..(L + 2) PROVE t[n] = EntryOf(d, n).name
    <3>1. n \in 1..(L + 3) BY <1>2
    <3>2. CASE n \in 1..i
      <4>1. n \in 1..(i + 3) BY <1>3, <3>2
      <4> QED BY SMTT(60), <1>5, <1>12, <1>15, <1>16, <3>2, <4>1
    <3>3. CASE \E k \in 1..3 : n = i + k
      <4>1. PICK k \in 1..3 : n = i + k BY <3>3
      <4>2. n \in 1..(i + 3) BY <1>3, <4>1
      <4>3. t[n] = s[n] BY <1>16, <4>2
      <4>4. s[n] = s2[k] BY <1>15, <4>1
      <4>5. s2[k] = DevNodes!NewNodes[k].name BY <1>10
      <4>6. EntryOf(d, n) = DevNodes!NewNodes[k] BY <1>5, <4>1
      <4> QED BY <4>3, <4>4, <4>5, <4>6
    <3>4. CASE \E j \in (i + 1)..L : n = j + 3
      <4>1. PICK j \in (i + 1)..L : n = j + 3 BY <3>4
      <4>2. j - i \in 1..m /\ i + 3 + (j - i) = n /\ i + (j - i) = j BY <1>2, <1>3, <4>1 DEF m
      <4>3. t[n] = s3[j - i] BY <1>16, <4>2
      <4>4. s3[j - i] = EntryOf(a, j).name BY <1>14, <4>2
      <4> QED BY <1>5, <4>1, <4>3, <4>4
    <3> QED BY <1>5, <3>1, <3>2, <3>3, <3>4
  <2>4. \A n \in 1..(L + 2) : t[n] \in S BY <1>16, ElementOfSeq
  <2>5. nd \in [1..(L + 2) -> S]
    <3>1. nd = [n \in 1..(L + 2) |-> EntryOf(d, n).name] BY <1>8, <2>1
    <3> QED BY <2>3, <2>4, <3>1
  <2>6. nd \in Seq(S) /\ Len(nd) = L + 2 BY <2>1, <2>5, Listing
  <2> QED BY <2>2, <2>3, <2>6
<1>18. t = nd
  <2>1. Len(t) = Len(nd) /\ \A n \in 1..Len(t) : t[n] = nd[n] BY <1>16, <1>17
  <2>2. t \in Seq(S) BY <1>16
  <2>3. nd \in Seq(S) BY <1>17
  <2> QED BY <2>1, <2>2, <2>3, SeqEqual
<1> QED BY <1>18 DEF t, nd, d, s1, s2, s3, na, L

-----------------------------------------------------------------------------
(* What comes from the packer.                                             *)

(* The header of a node that a ramdisk may have. *)
LEMMA NodeTaken ==
  ASSUME tree \in Trees, devs \in Manifests, TakesNodes(tree), NEW n \in DOMAIN tree
  PROVE  /\ DevNodes!Plausible(NodeHeader(n)) /\ NodeHeader(n).name = n
         /\ n = <<"dev">> => NodeHeader(n).kind = "dir" /\ NodeHeader(n).fs = 0
<1>1. /\ tree[n].chars \in Nat /\ tree[n].chars >= 1 /\ tree[n].size \in Nat
      /\ tree[n].kind \in {"dir", "reg", "lnk", "dirlink"}
  <2>1. tree[n] \in Nodes /\ tree[n].chars >= 1 BY TreeIs
  <2> QED BY <2>1 DEF Nodes
<1>2. /\ tree[n].chars + 2 <= 4096 /\ tree[n].size < DevNodes!FILELIMIT
      /\ n = <<"dev">> => tree[n].kind \in {"dir", "dirlink"}
  BY DEF TakesNodes, DevNodes!NAMELIMIT
<1>3. 0 < DevNodes!FILELIMIT BY SMTT(60) DEF DevNodes!FILELIMIT
<1>6. tree[n].chars + 2 \in 1..4096 /\ tree[n].chars + 1 \in 1..4096
  <2> DEFINE c == tree[n].chars
  <2>1. c \in Nat BY SMTT(60), <1>1
  <2>2. c + 2 <= 4096 BY SMTT(60), <1>2
  <2> HIDE DEF c
  <2>3. c + 2 \in 1..4096 /\ c + 1 \in 1..4096 BY SMTT(60), <2>1, <2>2
  <2> QED BY <2>3 DEF c
<1>4. CASE tree[n].kind \in {"dir", "dirlink"}
  <2>1. /\ NodeHeader(n).name = n /\ NodeHeader(n).kind = "dir"
        /\ NodeHeader(n).ns = tree[n].chars + 2 /\ NodeHeader(n).fs = 0
    BY <1>4 DEF NodeHeader, Header
  <2>2. NodeHeader(n).ns \in 1..4096 BY SMTT(60), <1>6, <2>1
  <2>3. NodeHeader(n).fs < DevNodes!FILELIMIT BY <1>3, <2>1
  <2>4. DevNodes!Plausible(NodeHeader(n))
    BY <2>2, <2>3 DEF DevNodes!Plausible, DevNodes!NAMELIMIT
  <2> QED BY <2>1, <2>4
<1>5. CASE tree[n].kind \notin {"dir", "dirlink"}
  <2>1. /\ NodeHeader(n).name = n
        /\ NodeHeader(n).ns = tree[n].chars + 1 /\ NodeHeader(n).fs = tree[n].size
    BY <1>5 DEF NodeHeader, Header
  <2>2. n # <<"dev">> BY <1>2, <1>5
  <2>3. tree[n].size < DevNodes!FILELIMIT BY SMTT(60), <1>2
  <2>4. NodeHeader(n).ns \in 1..4096 BY <1>6, <2>1
  <2>5. NodeHeader(n).fs < DevNodes!FILELIMIT BY <2>1, <2>3
  <2>6. DevNodes!Plausible(NodeHeader(n))
    BY <2>4, <2>5 DEF DevNodes!Plausible, DevNodes!NAMELIMIT
  <2> QED BY <2>1, <2>2, <2>6
<1> QED BY <1>4, <1>5

(* What is packed from such a tree is as insert_devnodes.py takes it. *)
LEMMA PacksRamdisk ==
  ASSUME PackInv, pc = "written", TakesNodes(tree), devs = <<>>
  PROVE  DevNodes!IsRamdisk(out)
<1> DEFINE n == Len(items)
<1>1. /\ PackTyped /\ items \in Seq(Entries) /\ out = Archive(items)
      /\ tree \in Trees /\ devs \in Manifests
  BY DEF PackInv, PackTyped, Laid
<1>2. /\ n \in Nat /\ out.off \in [1..(n + 1) -> Nat]
      /\ \A i, j \in 1..(n + 1) :
           i < j => i \in 1..n /\ out.off[j] >= out.off[i] + EntrySize(items[i].hdr)
      /\ \A i \in 1..(n + 1) : out.off[i] % 4 = 0
      /\ \A i \in 1..(n + 1) :
           /\ out.off[i] \in DOMAIN out.hdr
           /\ out.hdr[out.off[i]] = IF i = n + 1 THEN Trailer ELSE items[i].hdr
      /\ \A m \in DOMAIN out.hdr :
           \/ \E i \in 1..(n + 1) : m = out.off[i]
           \/ /\ out.hdr[m] = Stray
              /\ \E i \in 1..n : \E k \in items[i].strays :
                   m = out.off[i] + PackedData(items[i].hdr.ns) + k
  BY ZenonT(60), <1>1, ArchiveIs
<1>3. DOMAIN items = 1..n BY <1>1, LenProperties
<1>4. \A i \in 1..n : items[i] \in Makeable BY <1>3 DEF PackInv, AllMade
<1>5. \A i \in 1..n : /\ items[i].hdr.ns \in Nat /\ items[i].hdr.fs \in Nat
                      /\ \A k \in items[i].strays : k \in Nat /\ k + MAGIC <= items[i].hdr.fs
  BY <1>1, <1>4, EntryIs
<1>6. ASSUME NEW i \in 1..n
      PROVE  \E m \in DOMAIN tree : items[i].hdr = NodeHeader(m)
  <2>1. OfDevice(items[i]) \/ OfNode(items[i]) BY <1>4 DEF Makeable
  <2>2. DOMAIN devs = {} OBVIOUS
  <2> QED BY <2>1, <2>2 DEF OfDevice, OfNode, Reachable
<1> HIDE DEF n
<1>7. Len(out.off) = n + 1 /\ DOMAIN out.off = 1..(n + 1)
  <2>1. \A N \in Nat : \A f \in [1..N -> Nat] : Len(f) = N /\ DOMAIN f = 1..N
    OBVIOUS
  <2>2. n + 1 \in Nat /\ out.off \in [1..(n + 1) -> Nat] BY <1>2
  <2> QED BY <2>1, <2>2
<1>8. n + 1 \in 1..(n + 1) /\ out.off[n + 1] \in Nat /\ \A i \in 1..n : i \in 1..(n + 1) /\ i < n + 1
  BY <1>2
<1>9. \A i \in 1..n : /\ out.off[i] \in Nat
                      /\ out.off[n + 1] >= out.off[i] + EntrySize(items[i].hdr)
                      /\ out.hdr[out.off[i]] = items[i].hdr
  BY <1>2, <1>8
<1>10. ASSUME NEW m \in DOMAIN out.hdr PROVE m <= out.off[n + 1]
  <2>1. CASE \E i \in 1..(n + 1) : m = out.off[i]
    <3>1. PICK i \in 1..(n + 1) : m = out.off[i] BY <2>1
    <3>2. i = n + 1 \/ i \in 1..n BY <1>2
    <3>3. CASE i \in 1..n
      <4>1. EntrySize(items[i].hdr) \in Nat BY <1>5, <3>3, EntrySizeIs
      <4> QED BY <1>8, <1>9, <3>1, <3>3, <4>1
    <3> QED BY <1>8, <3>1, <3>2, <3>3
  <2>2. CASE \E i \in 1..n : \E k \in items[i].strays :
                m = out.off[i] + PackedData(items[i].hdr.ns) + k
    <3>1. PICK i \in 1..n : \E k \in items[i].strays :
                m = out.off[i] + PackedData(items[i].hdr.ns) + k
      BY <2>2
    <3>2. PICK k \in items[i].strays : m = out.off[i] + PackedData(items[i].hdr.ns) + k BY <3>1
    <3> DEFINE x == out.off[i]   y == PackedData(items[i].hdr.ns)   f == items[i].hdr.fs
               e == EntrySize(items[i].hdr)   z == out.off[n + 1]
    <3>3. k \in Nat /\ k + 6 <= f /\ f \in Nat BY <1>5, <3>2 DEF MAGIC
    <3>4. e \in Nat /\ y \in Nat /\ y + f <= e BY <1>5, EntrySizeIs
    <3>5. x \in Nat /\ z \in Nat /\ z >= x + e /\ m = x + y + k BY <1>8, <1>9, <3>2
    <3> HIDE DEF x, y, f, e, z
    <3>6. m <= z BY <3>3, <3>4, <3>5
    <3> QED BY <3>6 DEF z
  <2> QED BY <1>2, <2>1, <2>2
<1>11. out.hdr[out.off[n + 1]] = Trailer BY <1>2, <1>8
<1>12. ~DevNodes!IsDev(Trailer)
  <2>1. Trailer.name = <<"TRAILER!!!">> BY DEF Trailer
  <2>2. <<"TRAILER!!!">>[1] # <<"dev">>[1] OBVIOUS
  <2> QED BY <2>1, <2>2 DEF DevNodes!IsDev
<1>13. ASSUME NEW i \in 1..n
       PROVE  LET h == items[i].hdr IN
              /\ DevNodes!Plausible(h)
              /\ DevNodes!IsDev(h) => h.kind = "dir" /\ h.fs = 0
              /\ \A k \in DOMAIN DevNodes!NewNodes :
                   DevNodes!NewNodes[k].name \notin DevNodes!Above(h.name) \cup {h.name}
  <2>1. PICK m \in DOMAIN tree : items[i].hdr = NodeHeader(m) BY <1>6
  <2> DEFINE h == items[i].hdr
  <2>2. /\ DevNodes!Plausible(h) /\ h.name = m
        /\ m = <<"dev">> => h.kind = "dir" /\ h.fs = 0
    BY <1>1, <2>1, NodeTaken
  <2>3. DevNodes!IsDev(h) => m = <<"dev">> BY <2>2 DEF DevNodes!IsDev
  <2>4. \A d \in Above(m) : d \in DOMAIN tree BY <1>1, TreeIs
  <2>5. \A k \in DOMAIN DevNodes!NewNodes : DevNodes!NewNodes[k].name \notin DOMAIN tree
    BY DEF TakesNodes
  <2>6. DevNodes!Above(h.name) = Above(m) BY <2>2, SameWords
  <2>7. \A k \in DOMAIN DevNodes!NewNodes :
           DevNodes!NewNodes[k].name \notin DevNodes!Above(h.name) \cup {h.name}
    BY <2>2, <2>4, <2>5, <2>6
  <2> QED BY <2>2, <2>3, <2>7
<1>14. Len(out.off) - 1 = n BY <1>2, <1>7
<1>15. \A i \in 1..(Len(out.off) - 1) :
          LET h == out.hdr[out.off[i]] IN
          /\ DevNodes!Plausible(h)
          /\ DevNodes!IsDev(h) => h.kind = "dir" /\ h.fs = 0
          /\ \A k \in DOMAIN DevNodes!NewNodes :
               DevNodes!NewNodes[k].name \notin DevNodes!Above(h.name) \cup {h.name}
  <2>1. TAKE i \in 1..(Len(out.off) - 1)
  <2>2. i \in 1..n BY <1>14
  <2>3. out.hdr[out.off[i]] = items[i].hdr BY <1>9, <2>2
  <2> QED BY <1>13, <2>2, <2>3
<1>16. /\ \A i \in DOMAIN out.off : out.off[i] % 4 = 0
       /\ \A m \in DOMAIN out.hdr : m <= out.off[Len(out.off)]
       /\ ~DevNodes!IsDev(out.hdr[out.off[Len(out.off)]])
  BY <1>2, <1>7, <1>10, <1>11, <1>12
<1> QED BY <1>15, <1>16 DEF DevNodes!IsRamdisk

-----------------------------------------------------------------------------
(* The walk to dev.                                                        *)

(* The walk is at entry i or in what lies before it, where there is no      *)
(* header, and has come by no entry of dev.                                 *)
Towards(i) ==
  /\ i \in 1..Len(src.off) /\ pos <= src.off[i]
  /\ \A m \in DOMAIN src.hdr : m >= pos => m >= src.off[i]
  /\ \A j \in 1..(i - 1) : ~DevNodes!IsDev(EntryOf(src, j))

NoDev == \A j \in 1..(Len(src.off) - 1) : ~DevNodes!IsDev(EntryOf(src, j))

(* Or it has come by the last header. *)
Through == pos > src.off[Len(src.off)] /\ NoDev

Scanning == step = "scan" => /\ pos \in Nat /\ pos % 4 = 0
                             /\ Through \/ \E i \in 1..Len(src.off) : Towards(i)

AtDev == step = "insert" => \E i \in 1..(Len(src.off) - 1) :
                              dev = src.off[i] /\ DevNodes!IsDev(EntryOf(src, i))

Inserted == step = "written" => \E i \in 1..(Len(src.off) - 1) : \E after \in Nat :
                                  CutAt(src, i, after) /\ dst = DevNodes!Spliced(src, after)

GivenUp == step = "exit" => NoDev

(* What insert_devnodes.py was given, and how far it is with it. *)
InsertInv ==
  /\ step \in {"idle", "scan", "insert", "written", "exit"}
  /\ step = "idle" => src = Nothing /\ pos = 0
  /\ step # "idle" => Handed(src) /\ DevNodes!IsRamdisk(src)
  /\ Scanning /\ AtDev /\ Inserted /\ GivenUp

(* A header the script takes for one is that of the entry it is at; and at  *)
(* an entry, only the trailer is not taken for one.                         *)
LEMMA WalkSees ==
  ASSUME InsertInv, step = "scan"
  PROVE  /\ \A i \in 1..Len(src.off) :
              Towards(i) => /\ DevNodes!InFile
                            /\ pos \in DOMAIN src.hdr => pos = src.off[i]
                            /\ pos = src.off[i] /\ i < Len(src.off) => DevNodes!AtHeader
                            /\ pos < src.off[i] => src.off[i] \in DevNodes!Ahead
         /\ Through => pos \notin DOMAIN src.hdr
         /\ pos >= src.off[Len(src.off)] => DevNodes!Ahead = {}
<1> DEFINE L == Len(src.off)
<1>1. IsArchive(src) /\ IsTree(src) /\ DevNodes!IsRamdisk(src) BY DEF InsertInv, Handed
<1>2. /\ L \in Nat /\ L >= 1 /\ src.len \in Nat /\ DOMAIN src.hdr \subseteq Nat
      /\ DOMAIN src.off = 1..L
      /\ \A i \in 1..L : /\ src.off[i] \in Nat /\ src.off[i] \in DOMAIN src.hdr
                         /\ src.len >= src.off[i] + HDR
  BY <1>1, EntriesAre
<1>3. /\ \A i \in 1..L : src.off[i] % 4 = 0
      /\ \A m \in DOMAIN src.hdr : m <= src.off[L]
  BY <1>1, <1>2 DEF DevNodes!IsRamdisk
<1>4. \A i \in 1..(L - 1) : DevNodes!Plausible(EntryOf(src, i)) BY <1>1, TreeEntries
<1>5. pos \in Nat /\ pos % 4 = 0 BY DEF InsertInv, Scanning
<1>6. DevNodes!HDR = 110 /\ HDR = 110 BY SameWords DEF HDR
<1>7. L \in 1..L BY <1>2
<1> HIDE DEF L
<1>8. ASSUME NEW i \in 1..L, Towards(i)
      PROVE  /\ DevNodes!InFile
             /\ pos \in DOMAIN src.hdr => pos = src.off[i]
             /\ pos = src.off[i] /\ i < L => DevNodes!AtHeader
             /\ pos < src.off[i] => src.off[i] \in DevNodes!Ahead
  <2> DEFINE o == src.off[i]   len == src.len
  <2>1. /\ o \in Nat /\ o \in DOMAIN src.hdr /\ len \in Nat /\ len >= o + 110 /\ o % 4 = 0
        /\ pos <= o
        /\ \A m \in DOMAIN src.hdr : m >= pos => m >= o
    BY <1>2, <1>3, <1>6, <1>8 DEF Towards
  <2>2. DevNodes!InFile
    <3>1. pos + DevNodes!HDR <= len
      <4> HIDE DEF o, len
      <4> QED BY <1>5, <1>6, <2>1
    <3> QED BY <3>1 DEF DevNodes!InFile
  <2>3. pos \in DOMAIN src.hdr => pos = o
    <3> HIDE DEF o, len
    <3> QED BY <1>5, <2>1
  <2>4. pos = o /\ i < L => DevNodes!AtHeader
    <3>1. i < L => i \in 1..(L - 1) BY <1>2
    <3>2. i < L => DevNodes!Plausible(src.hdr[o]) BY <1>4, <3>1 DEF EntryOf
    <3> QED BY <2>1, <2>2, <3>2 DEF DevNodes!AtHeader, DevNodes!Heads
  <2>5. pos < o => o \in DevNodes!Ahead
    <3>1. (o - pos) % 4 = 0
      <4>1. \A x, y \in Nat : x % 4 = 0 /\ y % 4 = 0 => (x - y) % 4 = 0 OBVIOUS
      <4> HIDE DEF o, len
      <4> QED BY <1>5, <2>1, <4>1
    <3>2. pos < o => o > pos
      <4> HIDE DEF o, len
      <4> QED BY <1>5, <2>1
    <3>3. o + DevNodes!HDR <= len BY <1>6, <2>1
    <3> QED BY <2>1, <3>1, <3>2, <3>3 DEF DevNodes!Ahead, DevNodes!Heads
  <2> QED BY <2>2, <2>3, <2>4, <2>5
<1>9. Through => pos \notin DOMAIN src.hdr
  <2>1. src.off[L] \in Nat BY <1>2, <1>7
  <2> QED BY <1>3, <1>5, <2>1 DEF Through, L
<1>10. pos >= src.off[L] => DevNodes!Ahead = {}
  <2>1. src.off[L] \in Nat BY <1>2, <1>7
  <2>2. \A m \in DevNodes!Ahead : m \in DOMAIN src.hdr /\ m > pos
    BY DEF DevNodes!Ahead, DevNodes!Heads
  <2>3. \A m \in DOMAIN src.hdr : m \in Nat /\ m <= src.off[L] BY <1>2, <1>3
  <2> QED BY <1>5, <2>1, <2>2, <2>3
<1> QED BY <1>8, <1>9, <1>10 DEF L

(* The walk goes on when it is at an entry again, or through. *)
LEMMA ScanGoesOn ==
  ASSUME InsertInv, step = "scan", UNCHANGED <<src, dev, dst, step>>,
         pos' \in Nat, pos' % 4 = 0,
         Through' \/ \E i \in 1..Len(src.off) : Towards(i)'
  PROVE  InsertInv'
<1>1. step' = "scan" /\ src' = src OBVIOUS
<1>2. Scanning' BY <1>1 DEF Scanning
<1>3. Handed(src)' /\ DevNodes!IsRamdisk(src)' BY <1>1 DEF InsertInv
<1> QED BY <1>1, <1>2, <1>3 DEF InsertInv, AtDev, Inserted, GivenUp

(* From an entry the walk comes to what lies before the next one. *)
LEMMA PassKeeps ==
  ASSUME InsertInv, DevNodes!Pass
  PROVE  InsertInv'
<1> DEFINE L == Len(src.off)   h == src.hdr[pos]   w == WalkedSize(h.ns, h.fs)
<1>1. /\ step = "scan" /\ pos \in DOMAIN src.hdr /\ ~DevNodes!IsDev(h)
      /\ pos' = pos + w /\ UNCHANGED <<src, dev, dst, step>>
  BY SameWords DEF DevNodes!Pass, DevNodes!AtHeader, DevNodes!InFile, DevNodes!Heads
<1>2. IsArchive(src) /\ StraysInside(src) BY <1>1 DEF InsertInv, Handed
<1>3. L \in Nat /\ DOMAIN src.hdr \subseteq Nat BY <1>2, EntriesAre
<1>4. PICK i \in 1..L : Towards(i) BY <1>1, WalkSees DEF InsertInv, Scanning
<1>5. pos = src.off[i] BY <1>1, <1>4, WalkSees
<1>6. h = EntryOf(src, i) BY <1>5 DEF EntryOf
<1>7. /\ w \in Nat /\ w >= 110 /\ w % 4 = 0
      /\ \A j \in 1..L : i < j => src.off[j] >= src.off[i] + w
  <2>1. /\ w \in Nat /\ w >= HDR /\ w % 4 = 0
        /\ \A j \in 1..L : i < j => src.off[j] >= src.off[i] + w
    BY <1>2, <1>6, EntriesAre
  <2> QED BY <2>1 DEF HDR
<1>8. pos \in Nat /\ pos % 4 = 0 BY <1>1 DEF InsertInv, Scanning
<1>9. \A j \in 1..(i - 1) : ~DevNodes!IsDev(EntryOf(src, j)) BY <1>4 DEF Towards
<1>10. \A j \in 1..i : ~DevNodes!IsDev(EntryOf(src, j))
  <2>1. \A j \in 1..i : j \in 1..(i - 1) \/ j = i BY <1>3
  <2> QED BY <1>1, <1>6, <1>9, <2>1
<1>11. i = L \/ i \in 1..(L - 1) BY <1>3
<1>12. \A m \in DOMAIN src.hdr : i \in 1..(L - 1) /\ m >= pos + w => m >= src.off[i + 1]
  BY <1>2, <1>5, <1>6, NothingBetween
<1> HIDE DEF L, w, h
<1>13. pos' \in Nat BY <1>1, <1>7, <1>8
<1>14. pos' % 4 = 0
  <2>1. \A x, y \in Nat : x % 4 = 0 /\ y % 4 = 0 => (x + y) % 4 = 0 OBVIOUS
  <2> QED BY <1>1, <1>7, <1>8, <2>1
<1>15. CASE i \in 1..(L - 1)
  <2>1. i + 1 \in 1..L /\ i < i + 1 /\ (i + 1) - 1 = i BY <1>3, <1>15
  <2>2. src.off[i + 1] >= pos + w BY <1>5, <1>7, <2>1
  <2>3. pos' <= src.off[i + 1]
    <3>1. src.off[i + 1] \in Nat BY <1>2, <2>1, EntriesAre DEF L
    <3> QED BY <1>1, <1>7, <1>8, <2>2, <3>1
  <2>4. \A m \in DOMAIN src.hdr : m >= pos' => m >= src.off[i + 1] BY <1>1, <1>12, <1>15
  <2>5. Towards(i + 1)' BY <1>1, <1>10, <2>1, <2>3, <2>4 DEF Towards, L
  <2> QED BY <1>1, <1>13, <1>14, <2>1, <2>5, ScanGoesOn DEF L
<1>16. CASE i = L
  <2>1. pos' > src.off[L]
    <3>1. pos + w > pos BY <1>7, <1>8
    <3> QED BY <1>1, <1>5, <1>16, <3>1
  <2>2. \A j \in 1..(L - 1) : ~DevNodes!IsDev(EntryOf(src, j)) BY <1>9, <1>16
  <2>3. Through' BY <1>1, <2>1, <2>2 DEF Through, NoDev, L
  <2> QED BY <1>1, <1>13, <1>14, <2>3, ScanGoesOn
<1> QED BY <1>11, <1>15, <1>16

(* From between two entries it comes to the second. *)
LEMMA ResyncKeeps ==
  ASSUME InsertInv, DevNodes!Resync
  PROVE  InsertInv'
<1> DEFINE L == Len(src.off)
<1>1. /\ step = "scan" /\ DevNodes!InFile /\ ~DevNodes!AtHeader /\ DevNodes!Ahead # {}
      /\ pos' \in DevNodes!Ahead /\ \A q \in DevNodes!Ahead : pos' <= q
      /\ UNCHANGED <<src, dev, dst, step>>
  BY DEF DevNodes!Resync, DevNodes!InFile
<1>2. IsArchive(src) /\ DevNodes!IsRamdisk(src) BY <1>1 DEF InsertInv, Handed
<1>3. L \in Nat /\ L >= 1 /\ DOMAIN src.hdr \subseteq Nat BY <1>2, EntriesAre
<1>4. L \in 1..L /\ src.off[L] \in Nat
  <2>1. L \in 1..L BY <1>3
  <2> QED BY <1>2, <2>1, EntriesAre
<1>5. pos \in Nat /\ (Through \/ \E i \in 1..L : Towards(i)) BY <1>1 DEF InsertInv, Scanning
<1>6. ~(pos >= src.off[L]) BY <1>1, WalkSees
<1>7. ~Through BY <1>4, <1>5, <1>6 DEF Through
<1>8. PICK i \in 1..L : Towards(i) BY <1>5, <1>7
<1>9. src.off[i] \in Nat /\ pos <= src.off[i] /\ src.off[i] % 4 = 0 /\ src.off[i] \in DOMAIN src.hdr
  <2>1. src.off[i] \in Nat /\ src.off[i] \in DOMAIN src.hdr BY <1>2, EntriesAre
  <2>2. DOMAIN src.off = 1..L BY <1>2, EntriesAre
  <2> QED BY <1>2, <1>8, <2>1, <2>2 DEF Towards, DevNodes!IsRamdisk
<1>10. pos < src.off[i]
  <2>1. pos # src.off[i]
    <3>1. i = L \/ i < L BY <1>3
    <3>2. pos = src.off[i] /\ i < L => DevNodes!AtHeader BY <1>1, <1>8, WalkSees
    <3>3. pos = src.off[L] => pos >= src.off[L] BY <1>4
    <3> QED BY <1>1, <1>6, <3>1, <3>2, <3>3
  <2> HIDE DEF L
  <2> QED BY <1>5, <1>9, <2>1
<1>11. pos' = src.off[i]
  <2>1. src.off[i] \in DevNodes!Ahead BY <1>1, <1>8, <1>10, WalkSees
  <2>2. pos' <= src.off[i] BY <1>1, <2>1
  <2>3. pos' \in DOMAIN src.hdr /\ pos' > pos BY <1>1 DEF DevNodes!Ahead, DevNodes!Heads
  <2>4. pos' \in Nat /\ pos' >= pos BY <1>3, <1>5, <2>3
  <2>5. pos' >= src.off[i] BY <1>8, <2>3, <2>4 DEF Towards
  <2> HIDE DEF L
  <2> QED BY <1>9, <2>2, <2>4, <2>5
<1>12. \A m \in DOMAIN src.hdr : m >= pos' => m >= src.off[i] BY <1>11
<1>13. \A j \in 1..(i - 1) : ~DevNodes!IsDev(EntryOf(src, j)) BY <1>8 DEF Towards
<1>14. pos' <= src.off[i] BY <1>9, <1>11
<1>15. Towards(i)' BY <1>1, <1>12, <1>13, <1>14 DEF Towards
<1> QED BY <1>1, <1>9, <1>11, <1>15, ScanGoesOn

(* What is found is the entry of dev. *)
LEMMA FoundKeeps ==
  ASSUME InsertInv, DevNodes!Found
  PROVE  InsertInv'
<1> DEFINE L == Len(src.off)
<1>1. /\ step = "scan" /\ pos \in DOMAIN src.hdr /\ DevNodes!IsDev(src.hdr[pos])
      /\ dev' = pos /\ step' = "insert" /\ UNCHANGED <<src, pos, dst>>
  BY DEF DevNodes!Found, DevNodes!AtHeader, DevNodes!InFile, DevNodes!Heads
<1>2. IsArchive(src) /\ DevNodes!IsRamdisk(src) /\ Handed(src) BY <1>1 DEF InsertInv, Handed
<1>3. L \in Nat /\ DOMAIN src.off = 1..L BY <1>2, EntriesAre
<1>4. PICK i \in 1..L : Towards(i) BY <1>1, WalkSees DEF InsertInv, Scanning
<1>5. pos = src.off[i] BY SMTT(60), <1>1, <1>4, WalkSees
<1>6. i # L BY <1>1, <1>2, <1>5 DEF DevNodes!IsRamdisk
<1>7. i \in 1..(L - 1) BY <1>3, <1>6
<1>8. AtDev' BY <1>1, <1>5, <1>7 DEF AtDev, EntryOf
<1>9. Handed(src)' /\ DevNodes!IsRamdisk(src)' BY <1>1, <1>2
<1> QED BY <1>1, <1>8, <1>9 DEF InsertInv, Scanning, Inserted, GivenUp

(* The script gives up where no entry is left to come to. *)
LEMMA NotFoundKeeps ==
  ASSUME InsertInv, DevNodes!NotFound
  PROVE  InsertInv'
<1> DEFINE L == Len(src.off)
<1>1. /\ step = "scan" /\ (~DevNodes!InFile \/ (~DevNodes!AtHeader /\ DevNodes!Ahead = {}))
      /\ step' = "exit" /\ UNCHANGED <<src, pos, dev, dst>>
  BY DEF DevNodes!NotFound
<1>2. IsArchive(src) /\ DevNodes!IsRamdisk(src) /\ Handed(src) BY <1>1 DEF InsertInv, Handed
<1>3. L \in Nat BY <1>2, EntriesAre
<1>4. NoDev
  <2>1. CASE Through BY <2>1 DEF Through
  <2>2. CASE \E i \in 1..L : Towards(i)
    <3>1. PICK i \in 1..L : Towards(i) BY <2>2
    <3>2. ~DevNodes!AtHeader /\ DevNodes!Ahead = {} BY <1>1, <3>1, WalkSees
    <3>3. ~(pos < src.off[i]) BY <1>1, <3>1, <3>2, WalkSees
    <3>4. pos = src.off[i]
      <4>1. pos \in Nat /\ src.off[i] \in Nat /\ pos <= src.off[i]
        BY <1>1, <1>2, <3>1, EntriesAre DEF InsertInv, Scanning, Towards
      <4> HIDE DEF L
      <4> QED BY <3>3, <4>1
    <3>5. ~(i < L) BY <1>1, <3>1, <3>2, <3>4, WalkSees
    <3>6. i = L BY <1>3, <3>5
    <3> QED BY <3>1, <3>6 DEF Towards, NoDev
  <2> QED BY <1>1, <2>1, <2>2 DEF InsertInv, Scanning
<1>5. NoDev' BY <1>1, <1>4 DEF NoDev
<1>6. Handed(src)' /\ DevNodes!IsRamdisk(src)' BY <1>1, <1>2
<1> QED BY <1>1, <1>5, <1>6 DEF InsertInv, Scanning, AtDev, Inserted, GivenUp

(* It cuts where the entry of dev ends. *)
LEMMA InsertKeeps ==
  ASSUME InsertInv, DevNodes!Insert
  PROVE  InsertInv'
<1> DEFINE h == src.hdr[dev]   after == dev + WalkedSize(h.ns, h.fs)
<1>1. /\ step = "insert" /\ dst' = DevNodes!Spliced(src, after)
      /\ step' = "written" /\ UNCHANGED <<src, pos, dev>>
  BY SameWords DEF DevNodes!Insert
<1>2. Handed(src) /\ DevNodes!IsRamdisk(src) BY <1>1 DEF InsertInv
<1>3. PICK i \in 1..(Len(src.off) - 1) : dev = src.off[i] /\ DevNodes!IsDev(EntryOf(src, i))
  BY <1>1 DEF InsertInv, AtDev
<1>4. after = src.off[i] + WalkedSize(EntryOf(src, i).ns, EntryOf(src, i).fs)
  BY <1>3 DEF EntryOf
<1> HIDE DEF h, after
<1>5. CutAt(src, i, after) BY <1>2, <1>3, <1>4 DEF CutAt
<1>6. after \in Nat BY <1>5, SplicedOffsets
<1>7. Inserted' BY <1>1, <1>5, <1>6 DEF Inserted
<1>8. Handed(src)' /\ DevNodes!IsRamdisk(src)' BY <1>1, <1>2
<1> QED BY <1>1, <1>7, <1>8 DEF InsertInv, Scanning, AtDev, GivenUp

(* No step of the script breaks the invariant, nor does one of another tool. *)
LEMMA InsertNext ==
  ASSUME InsertInv, DevNodes!Next \/ UNCHANGED insertVars
  PROVE  InsertInv'
<1>1. CASE UNCHANGED insertVars
  <2>1. UNCHANGED <<src, pos, dev, dst, step>> BY <1>1 DEF insertVars
  <2>2. Handed(src)' <=> Handed(src) BY <2>1
  <2>3. DevNodes!IsRamdisk(src)' <=> DevNodes!IsRamdisk(src) BY <2>1
  <2>4. Scanning'
    <3>1. ASSUME NEW i PROVE Towards(i)' <=> Towards(i) BY <2>1 DEF Towards
    <3>2. NoDev' <=> NoDev BY <2>1 DEF NoDev
    <3>3. Through' <=> Through BY <2>1, <3>2 DEF Through
    <3> QED BY <2>1, <3>1, <3>3 DEF InsertInv, Scanning
  <2>5. AtDev' /\ Inserted' BY <2>1 DEF InsertInv, AtDev, Inserted
  <2>6. GivenUp' BY <2>1 DEF InsertInv, GivenUp, NoDev
  <2> QED BY <2>1, <2>2, <2>3, <2>4, <2>5, <2>6 DEF InsertInv
<1>2. CASE DevNodes!Next
  BY <1>2, PassKeeps, ResyncKeeps, FoundKeeps, NotFoundKeeps, InsertKeeps DEF DevNodes!Next
<1> QED BY <1>1, <1>2

-----------------------------------------------------------------------------
(* The tools one after the other.                                          *)

(* The device nodes are put in where the tree takes them; a ramdisk from    *)
(* elsewhere gets them in any case.                                         *)
Planned == /\ inserts \in BOOLEAN
           /\ pc = "elsewhere" => inserts
           /\ pc # "elsewhere" /\ inserts => TakesNodes(tree) /\ devs = <<>>

ChainInv == /\ pc = "elsewhere" \/ PackInv
            /\ Planned
            /\ InsertInv
            /\ arc # Nothing => Handed(arc)

(* What insert_devnodes.py writes is fit for the walker. *)
LEMMA HandsOn ==
  ASSUME InsertInv, step = "written"
  PROVE  Handed(dst)
<1>1. PICK i \in 1..(Len(src.off) - 1), after \in Nat :
        CutAt(src, i, after) /\ dst = DevNodes!Spliced(src, after)
  BY DEF InsertInv, Inserted
<1> QED BY <1>1, SplicedIsArchive, SplicedStraysInside, SplicedIsTree DEF Handed

(* It starts at the first entry of what it is given. *)
LEMMA InsertStarts ==
  step = "scan" /\ pos = 0 /\ Handed(src) /\ DevNodes!IsRamdisk(src) => InsertInv
<1> SUFFICES ASSUME step = "scan", pos = 0, Handed(src), DevNodes!IsRamdisk(src)
             PROVE  InsertInv
  OBVIOUS
<1>1. IsArchive(src) BY DEF Handed
<1>2. Len(src.off) \in Nat /\ 1 \in 1..Len(src.off) /\ src.off[1] = 0
  <2>1. Len(src.off) \in Nat /\ Len(src.off) >= 1 /\ src.off[1] = 0 BY <1>1, EntriesAre
  <2> QED BY <2>1
<1>3. \A m \in DOMAIN src.hdr : m >= pos => m >= src.off[1] BY <1>2
<1>4. \A j \in 1..(1 - 1) : ~DevNodes!IsDev(EntryOf(src, j)) OBVIOUS
<1>5. pos <= src.off[1] BY <1>2
<1>6. Towards(1) BY <1>2, <1>3, <1>4, <1>5 DEF Towards
<1>7. Scanning BY <1>2, <1>6 DEF Scanning
<1> QED BY <1>7 DEF InsertInv, AtDev, Inserted, GivenUp

(* The walker keeps its hands off the archive. *)
LEMMA UnpackLeaves ==
  ASSUME Unpack!Next
  PROVE  arc' = arc
BY DEF Unpack!Next, Unpack!NoTrailer, Unpack!Resync, Unpack!LoseSync, Unpack!BadName,
       Unpack!Overflow, Unpack!Trailer, Unpack!Extract, Unpack!Return

(* Both ways in which a ramdisk can come. *)
LEMMA ChainStarts ==
  ASSUME ChainInit
  PROVE  ChainInv
<1>1. arc = Nothing BY DEF ChainInit
<1>2. CASE Packs
  <2>1. /\ Init /\ inserts \in Inserts /\ (inserts => devs = <<>>)
        /\ src = Nothing /\ pos = 0 /\ step = "idle"
    BY <1>2 DEF Packs
  <2>2. PackInv BY <2>1, PackStarts
  <2>3. tree \in Trees /\ pc = "packing" BY <2>1 DEF Init
  <2>4. Planned BY <2>1, <2>3, InsertsAssumption DEF Planned
  <2>5. InsertInv BY <2>1 DEF InsertInv, Scanning, AtDev, Inserted, GivenUp
  <2> QED BY <1>1, <2>2, <2>4, <2>5 DEF ChainInv
<1>3. CASE FromElsewhere
  <2>1. /\ pc = "elsewhere" /\ inserts = TRUE
        /\ src \in Sources /\ pos = 0 /\ step = "scan"
    BY <1>3 DEF FromElsewhere, DevNodes!Init
  <2>2. Handed(src) /\ DevNodes!IsRamdisk(src) BY <2>1, SourcesAssumption DEF Handed
  <2>3. InsertInv BY <2>1, <2>2, InsertStarts
  <2> QED BY <1>1, <2>1, <2>3 DEF ChainInv, Planned
<1> QED BY <1>2, <1>3 DEF ChainInit

(* No step of any tool breaks the invariant of the chain. *)
LEMMA ChainKeeps ==
  ASSUME ChainInv, [ChainNext]_chainVars
  PROVE  ChainInv'
<1>1. /\ pc = "elsewhere" \/ PackInv
      /\ Planned /\ InsertInv
      /\ arc # Nothing => Handed(arc)
  BY DEF ChainInv
<1>2. ASSUME UNCHANGED packVars
      PROVE  (pc = "elsewhere" \/ PackInv)' /\ (inserts' = inserts => Planned')
  <2>1. UNCHANGED <<tree, devs, pc>> BY <1>2 DEF packVars
  <2>2. PackInv => PackInv' BY <1>2, PackStays
  <2> QED BY <1>1, <2>1, <2>2 DEF Planned
<1>3. CASE PackStep
  <2>1. Next /\ UNCHANGED <<inserts, insertVars, unpackVars>> BY SMTT(60), <1>3 DEF PackStep
  <2>2. /\ pc = "packing" /\ pc' \in {"packing", "written", "failed"}
        /\ UNCHANGED <<tree, devs>>
    BY <2>1 DEF Next, AddDevice, AddNode, CannotOpen, Write
  <2>3. PackInv' BY <1>1, <2>1, <2>2, PackNext
  <2>4. Planned' BY <1>1, <2>1, <2>2 DEF Planned
  <2>5. InsertInv' BY <1>1, <2>1, InsertNext
  <2>6. arc' = arc BY <2>1 DEF unpackVars
  <2> QED BY <1>1, <2>3, <2>4, <2>5, <2>6 DEF ChainInv
<1>4. CASE StartInsert
  <2>1. /\ pc = "written" /\ inserts /\ step = "idle" /\ src' = out /\ step' = "scan"
        /\ UNCHANGED <<packVars, inserts, pos, unpackVars>>
    BY <1>4 DEF StartInsert
  <2>2. PackInv /\ TakesNodes(tree) /\ devs = <<>> BY <1>1, <2>1 DEF Planned
  <2>3. Handed(out) /\ DevNodes!IsRamdisk(out) BY <2>1, <2>2, WellPacked, PacksRamdisk DEF Handed
  <2>4. pos' = 0 BY <1>1, <2>1 DEF InsertInv
  <2>5. Handed(src') /\ DevNodes!IsRamdisk(src') BY <2>1, <2>3
  <2>6. InsertInv'
    <3>1. (step = "scan" /\ pos = 0 /\ Handed(src) /\ DevNodes!IsRamdisk(src))'
      BY <2>1, <2>4, <2>5
    <3> QED BY <3>1, InsertStarts, PTL
  <2>7. arc' = arc BY <2>1 DEF unpackVars
  <2> QED BY <1>1, <1>2, <2>1, <2>6, <2>7 DEF ChainInv
<1>5. CASE InsertStep
  <2>1. DevNodes!Next /\ UNCHANGED <<packVars, inserts, unpackVars>> BY <1>5 DEF InsertStep
  <2>2. InsertInv' BY <1>1, <2>1, InsertNext
  <2>3. arc' = arc BY <2>1 DEF unpackVars
  <2> QED BY <1>1, <1>2, <2>1, <2>2, <2>3 DEF ChainInv
<1>6. CASE StartUnpack
  <2>1. /\ pc \in {"written", "elsewhere"} /\ (inserts => step = "written")
        /\ arc' = Product /\ UNCHANGED <<packVars, inserts, insertVars>>
    BY <1>6 DEF StartUnpack
  <2>2. Handed(Product)
    <3>1. CASE inserts BY <1>1, <2>1, <3>1, HandsOn DEF Product
    <3>2. CASE ~inserts BY <1>1, <2>1, <3>2, WellPacked DEF Product, Planned, Handed
    <3> QED BY <3>1, <3>2
  <2>3. InsertInv' BY <1>1, <2>1, InsertNext
  <2> QED BY <1>1, <1>2, <2>1, <2>2, <2>3 DEF ChainInv
<1>7. CASE UnpackStep
  <2>1. Unpack!Next /\ UNCHANGED <<packVars, inserts, insertVars>> BY <1>7 DEF UnpackStep
  <2>2. arc' = arc BY <2>1, UnpackLeaves
  <2>3. InsertInv' BY <1>1, <2>1, InsertNext
  <2> QED BY <1>1, <1>2, <2>1, <2>2, <2>3 DEF ChainInv
<1>8. CASE UNCHANGED chainVars
  <2>1. UNCHANGED <<packVars, inserts, insertVars, unpackVars>> BY <1>8 DEF chainVars
  <2>2. InsertInv' BY <1>1, <2>1, InsertNext
  <2>3. arc' = arc BY <2>1 DEF unpackVars
  <2> QED BY <1>1, <1>2, <2>1, <2>2, <2>3 DEF ChainInv
<1> QED BY <1>3, <1>4, <1>5, <1>6, <1>7, <1>8 DEF ChainNext

(* The invariant of the chain. *)
THEOREM ChainInvariant == ChainSpec => []ChainInv
<1>1. ChainInit => ChainInv BY ChainStarts
<1>2. ChainInv /\ [ChainNext]_chainVars => ChainInv' BY ChainKeeps
<1> QED BY <1>1, <1>2, PTL DEF ChainSpec

(* Whatever tree is packed, and whatever ramdisk comes from elsewhere, each *)
(* tool is given an archive that meets what it takes for granted.           *)
THEOREM HandedOnTheorem == ChainSpec => []HandedOn
<1>1. ChainInv => HandedOn BY DEF ChainInv, InsertInv, Handed, HandedOn
<1> QED BY <1>1, ChainInvariant, PTL

(* In what insert_devnodes.py writes, the nodes stand behind the entry of   *)
(* dev, and before and behind them the entries are those of the source.     *)
THEOREM InsertedBehindDevTheorem == ChainSpec => []InsertedBehindDev
<1>1. ASSUME ChainInv, step = "written"
      PROVE  /\ DevNodes!IsArchive(dst) /\ DevNodes!StraysInside(dst)
             /\ \E i \in 1..(Len(src.off) - 1) :
                  /\ DevNodes!Names(src)[i] = <<"dev">>
                  /\ DevNodes!Names(dst)
                       = SubSeq(DevNodes!Names(src), 1, i)
                         \o [k \in DOMAIN DevNodes!NewNodes |-> DevNodes!NewNodes[k].name]
                         \o SubSeq(DevNodes!Names(src), i + 1, Len(src.off) - 1)
  <2>1. Handed(dst) BY <1>1, HandsOn DEF ChainInv
  <2>2. DevNodes!IsArchive(dst) /\ DevNodes!StraysInside(dst) BY <2>1, SameWords DEF Handed
  <2>3. PICK i \in 1..(Len(src.off) - 1), after \in Nat :
          CutAt(src, i, after) /\ dst = DevNodes!Spliced(src, after)
    BY <1>1 DEF ChainInv, InsertInv, Inserted
  <2>4. DevNodes!Names(src)[i] = <<"dev">>
    <3>1. DevNodes!IsDev(EntryOf(src, i)) BY <2>3 DEF CutAt
    <3> QED BY <3>1 DEF DevNodes!IsDev, DevNodes!Names, EntryOf
  <2> QED BY <2>2, <2>3, <2>4, SplicedNames
<1>2. ChainInv => InsertedBehindDev BY <1>1 DEF InsertedBehindDev, DevNodes!InsertedBehindDev
<1> QED BY <1>2, ChainInvariant, PTL

(* The script writes an archive when the source has an entry of dev, and    *)
(* gives up when it has none.                                               *)
THEOREM FindsDevTheorem == ChainSpec => []FindsDev
<1>1. ASSUME NEW i \in 1..(Len(src.off) - 1)
      PROVE  DevNodes!Names(src)[i] = EntryOf(src, i).name
  BY DEF DevNodes!Names, EntryOf
<1>2. DOMAIN DevNodes!Names(src) = 1..(Len(src.off) - 1) BY DEF DevNodes!Names
<1>3. ASSUME ChainInv, step = "written"
      PROVE  \E i \in DOMAIN DevNodes!Names(src) : DevNodes!Names(src)[i] = <<"dev">>
  <2>1. PICK i \in 1..(Len(src.off) - 1), after \in Nat : CutAt(src, i, after)
    BY <1>3 DEF ChainInv, InsertInv, Inserted
  <2> QED BY <1>1, <1>2, <2>1 DEF CutAt, DevNodes!IsDev
<1>4. ASSUME ChainInv, step = "exit"
      PROVE  ~\E i \in DOMAIN DevNodes!Names(src) : DevNodes!Names(src)[i] = <<"dev">>
  <2>1. NoDev BY <1>4 DEF ChainInv, InsertInv, GivenUp
  <2> QED BY <1>1, <1>2, <2>1 DEF NoDev, DevNodes!IsDev
<1>5. ChainInv => FindsDev BY <1>3, <1>4 DEF FindsDev, DevNodes!FindsDev
<1> QED BY <1>5, ChainInvariant, PTL

-----------------------------------------------------------------------------
(* What comes out of the walker.                                           *)

(* The archives a tool may be given, as a set: what is proved of unpack_cpio *)
(* for any archives that meet its assumption is taken for these.            *)
Handable == {a \in UNION {[off : Seq(Nat), hdr : [D -> Headers], len : Nat] : D \in SUBSET Nat} :
               Handed(a)}

Walker == INSTANCE CpioProofs WITH Archives <- Handable, Faults <- {FALSE}, tree <- made

(* They meet the assumptions of CpioUnpack. *)
LEMMA WalkerGiven ==
  /\ \A a \in Handable : Walker!IsArchive(a) /\ Walker!StraysInside(a) /\ Walker!IsTree(a)
  /\ {FALSE} \subseteq BOOLEAN
<1>1. Walker!HDR = HDR /\ Walker!MAGIC = MAGIC BY DEF Walker!HDR, HDR, Walker!MAGIC, MAGIC
<1>2. \A n : Walker!Align4(n) = Align4(n) BY DEF Walker!Align4, Walker!Pad4, Align4, Pad4
<1>3. \A ns, fs : /\ Walker!PackedSize(ns, fs) = PackedSize(ns, fs)
                  /\ Walker!PackedData(ns) = PackedData(ns)
  BY <1>1, <1>2 DEF Walker!PackedSize, PackedSize, Walker!PackedData, PackedData
<1>4. Walker!Headers = Headers BY DEF Walker!Headers, Headers, Walker!Kinds, Kinds
<1>5. \A n : Walker!Above(n) = Above(n) BY DEF Walker!Above, Above
<1>6. ASSUME NEW a, Handed(a)
      PROVE  Walker!IsArchive(a) /\ Walker!StraysInside(a) /\ Walker!IsTree(a)
  <2>1. Walker!IsArchive(a) BY <1>1, <1>3, <1>4, <1>6 DEF Handed, Walker!IsArchive, IsArchive
  <2>2. Walker!StraysInside(a) BY <1>1, <1>3, <1>6 DEF Handed, Walker!StraysInside, StraysInside
  <2>3. Walker!IsTree(a) BY <1>5, <1>6 DEF Handed, Walker!IsTree, IsTree
  <2> QED BY <2>1, <2>2, <2>3
<1> QED BY <1>6 DEF Handable

(* The walker of the chain is that of CpioUnpack. *)
LEMMA SameWalker ==
  /\ Walker!HDR = HDR /\ Walker!NAMEMAX = Unpack!NAMEMAX
  /\ \A n : Walker!Above(n) = Above(n)
  /\ \A h : Walker!Makes(h) <=> Unpack!Makes(h)
  /\ Walker!Last = Len(arc.off)
  /\ \A i : Walker!Entry(i) = EntryOf(arc, i)
<1>1. \A n : Walker!Align4(n) = Unpack!Align4(n)
  BY DEF Walker!Align4, Walker!Pad4, Unpack!Align4, Unpack!Pad4
<1>2. \A ns : Walker!Shift(ns) = Unpack!Shift(ns)
  BY <1>1 DEF Walker!Shift, Unpack!Shift, Walker!PackedData, Unpack!PackedData,
              Walker!WalkedData, Unpack!WalkedData, Walker!HDR, Unpack!HDR
<1>3. \A h : Walker!Makes(h) <=> Unpack!Makes(h) BY <1>2 DEF Walker!Makes, Unpack!Makes
<1>4. \A n : Walker!Above(n) = Above(n) BY DEF Walker!Above, Above
<1>5. Walker!HDR = HDR /\ Walker!NAMEMAX = Unpack!NAMEMAX
  BY DEF Walker!HDR, HDR, Walker!NAMEMAX, Unpack!NAMEMAX
<1>6. Walker!Last = Len(arc.off) BY DEF Walker!Last
<1>7. \A i : Walker!Entry(i) = EntryOf(arc, i) BY DEF Walker!Entry, EntryOf
<1> QED BY <1>3, <1>4, <1>5, <1>6, <1>7

(* And so are its steps. *)
LEMMA SameStep ==
  ASSUME Unpack!Next
  PROVE  Walker!Next
<1>1. CASE Unpack!NoTrailer
  BY <1>1 DEF Unpack!NoTrailer, Unpack!InBounds, Unpack!HDR, Unpack!Return,
              Walker!Next, Walker!NoTrailer, Walker!InBounds, Walker!HDR, Walker!Return
<1>2. CASE Unpack!Resync
  BY <1>2 DEF Unpack!Resync, Unpack!InBounds, Unpack!HDR, Unpack!Magic, Unpack!Ahead,
              Walker!Next, Walker!Resync, Walker!InBounds, Walker!HDR, Walker!Magic, Walker!Ahead
<1>3. CASE Unpack!LoseSync
  BY <1>3 DEF Unpack!LoseSync, Unpack!InBounds, Unpack!HDR, Unpack!Magic, Unpack!Ahead, Unpack!Return,
              Walker!Next, Walker!LoseSync, Walker!InBounds, Walker!HDR, Walker!Magic, Walker!Ahead,
              Walker!Return
<1>4. Unpack!AtHeader => Walker!AtHeader
  BY DEF Unpack!AtHeader, Unpack!InBounds, Unpack!HDR, Unpack!Magic,
         Walker!AtHeader, Walker!InBounds, Walker!HDR, Walker!Magic
<1>5. Unpack!H = Walker!H BY DEF Unpack!H, Walker!H
<1>6. (Unpack!NameOK <=> Walker!NameOK) /\ (Unpack!Fits <=> Walker!Fits)
  BY <1>5 DEF Unpack!NameOK, Walker!NameOK, Unpack!Fits, Walker!Fits, Unpack!NAMEMAX, Walker!NAMEMAX,
              Unpack!HDR, Walker!HDR
<1>7. CASE Unpack!BadName
  BY <1>4, <1>6, <1>7 DEF Unpack!BadName, Unpack!Return, Walker!Next, Walker!BadName, Walker!Return
<1>8. CASE Unpack!Overflow
  BY <1>4, <1>6, <1>8 DEF Unpack!Overflow, Unpack!Return, Walker!Next, Walker!Overflow, Walker!Return
<1>9. CASE Unpack!Trailer
  BY <1>4, <1>5, <1>6, <1>9
  DEF Unpack!Trailer, Unpack!Return, Walker!Next, Walker!Trailer, Walker!Return
<1>10. CASE Unpack!Extract
  <2>1. \A t, h : Unpack!PathsMade(t, h) = Walker!PathsMade(t, h)
    BY DEF Unpack!PathsMade, Walker!PathsMade, Unpack!PathDirs, Walker!PathDirs,
           Unpack!Above, Walker!Above
  <2>2. \A t, d : Unpack!MakePath(t, d) = Walker!MakePath(t, d)
    BY DEF Unpack!MakePath, Walker!MakePath
  <2>3. \A t, h, how : Unpack!MakeNode(t, h, how) = Walker!MakeNode(t, h, how)
    BY DEF Unpack!MakeNode, Walker!MakeNode
  <2>4. \A n : Unpack!Align4(n) = Walker!Align4(n)
    BY DEF Walker!Align4, Walker!Pad4, Unpack!Align4, Unpack!Pad4
  <2>5. \A ns : Unpack!Shift(ns) = Walker!Shift(ns)
    BY <2>4 DEF Walker!Shift, Unpack!Shift, Walker!PackedData, Unpack!PackedData,
                Walker!WalkedData, Unpack!WalkedData, Walker!HDR, Unpack!HDR
  <2>6. \A h : Unpack!Content(h) = Walker!Content(h)
    BY <2>5 DEF Unpack!Content, Walker!Content, Unpack!LINKMAX, Walker!LINKMAX
  <2>7. \A t, h : Unpack!Outcomes(t, h) = Walker!Outcomes(t, h)
    <3>1. \A h : Unpack!Makes(h) <=> Walker!Makes(h) BY SameWalker
    <3>2. \A n : Unpack!Above(n) = Walker!Above(n) BY DEF Unpack!Above, Walker!Above
    <3> QED BY <2>6, <3>1, <3>2 DEF Unpack!Outcomes, Walker!Outcomes
  <2>8. \A ns, fs : Unpack!WalkedSize(ns, fs) = Walker!WalkedSize(ns, fs)
    BY <2>4 DEF Unpack!WalkedSize, Walker!WalkedSize, Unpack!HDR, Walker!HDR
  <2>9. \E dirs \in Walker!PathsMade(made, Walker!H) :
          \E how \in Walker!Outcomes(Walker!MakePath(made, dirs), Walker!H) :
            made' = Walker!MakeNode(Walker!MakePath(made, dirs), Walker!H, how)
    BY <1>5, <1>10, <2>1, <2>2, <2>3, <2>7 DEF Unpack!Extract
  <2>10. /\ Walker!AtHeader /\ Walker!NameOK /\ Walker!Fits /\ Walker!H.kind # "end"
         /\ p' = p + Walker!WalkedSize(Walker!H.ns, Walker!H.fs)
         /\ UNCHANGED <<faulty, arc, size, rc>>
    BY <1>4, <1>5, <1>6, <1>10, <2>8 DEF Unpack!Extract
  <2> QED BY <2>9, <2>10 DEF Walker!Next, Walker!Extract
<1> QED BY <1>1, <1>2, <1>3, <1>7, <1>8, <1>9, <1>10 DEF Unpack!Next

(* An archive that one of the tools has written. *)
LEMMA HandableIs ==
  ASSUME NEW a, Handed(a), a = [off |-> a.off, hdr |-> a.hdr, len |-> a.len],
         a.hdr = [m \in DOMAIN a.hdr |-> a.hdr[m]]
  PROVE  a \in Handable
<1> DEFINE D == DOMAIN a.hdr
<1>1. a.off \in Seq(Nat) /\ a.len \in Nat /\ D \subseteq Nat /\ \A m \in D : a.hdr[m] \in Headers
  BY DEF Handed, IsArchive
<1>2. a.hdr \in [D -> Headers] BY <1>1
<1>3. \A x, y, z : x \in Seq(Nat) /\ y \in [D -> Headers] /\ z \in Nat
                    => [off |-> x, hdr |-> y, len |-> z] \in [off : Seq(Nat), hdr : [D -> Headers], len : Nat]
  OBVIOUS
<1>4. a \in [off : Seq(Nat), hdr : [D -> Headers], len : Nat]
  <2> HIDE DEF D
  <2> QED BY <1>1, <1>2, <1>3
<1> QED BY <1>1, <1>4 DEF Handable

(* What is unpacked is an archive that meets every tool's assumptions. *)
LEMMA ProductIsHandable ==
  ASSUME ChainInv, pc \in {"written", "elsewhere"}, inserts => step = "written"
  PROVE  Product \in Handable
<1>1. CASE inserts
  <2>1. PICK i \in 1..(Len(src.off) - 1), after \in Nat :
          CutAt(src, i, after) /\ dst = DevNodes!Spliced(src, after)
    BY <1>1 DEF ChainInv, InsertInv, Inserted
  <2>2. Handed(dst) BY <1>1, HandsOn DEF ChainInv
  <2>3. /\ dst = [off |-> dst.off, hdr |-> dst.hdr, len |-> dst.len]
        /\ dst.hdr = [m \in DOMAIN dst.hdr |-> dst.hdr[m]]
    BY <2>1 DEF DevNodes!Spliced
  <2>4. dst \in Handable BY <2>2, <2>3, HandableIs
  <2> QED BY <1>1, <2>4 DEF Product
<1>2. CASE ~inserts
  <2>1. PackInv /\ pc = "written" BY <1>2 DEF ChainInv, Planned
  <2>2. Handed(out) /\ out = Archive(items) BY <2>1, WellPacked DEF PackInv, Laid, Handed
  <2>3. /\ out = [off |-> out.off, hdr |-> out.hdr, len |-> out.len]
        /\ out.hdr = [m \in DOMAIN out.hdr |-> out.hdr[m]]
    <3> DEFINE n == Len(items)
               at == CHOOSE f : f = [i \in 1..(n + 1) |->
                                       IF i = 1 THEN 0 ELSE f[i - 1] + EntrySize(items[i - 1].hdr)]
               heads == {at[i] : i \in 1..(n + 1)}
               strays == UNION {{at[i] + PackedData(items[i].hdr.ns) + k : k \in items[i].strays} :
                                  i \in 1..n}
               head(m) == LET i == CHOOSE i \in 1..(n + 1) : at[i] = m
                          IN IF i = n + 1 THEN Trailer ELSE items[i].hdr
               off == [i \in 1..(n + 1) |-> at[i]]
               all == heads \cup strays
               hdr == [m \in all |-> IF m \in heads THEN head(m) ELSE Stray]
               len == at[n + 1] + TRAILERSIZE
    <3>1. out = [off |-> off, hdr |-> hdr, len |-> len] BY <2>2 DEF Archive
    <3>2. hdr = [m \in DOMAIN hdr |-> hdr[m]]
      <4> HIDE DEF all, heads, head
      <4> QED OBVIOUS
    <3> HIDE DEF off, hdr, len
    <3> QED BY SMTT(60), <3>1, <3>2
  <2>4. out \in Handable BY <2>2, <2>3, HandableIs
  <2> QED BY <1>2, <2>4 DEF Product
<1> QED BY <1>1, <1>2

(* The walker has room for every name of the archive it was given. *)
NamesHaveRoom == \A i \in 1..(Len(arc.off) - 1) : EntryOf(arc, i).ns < Unpack!NAMEMAX

(* What unpack_cpio was given, and how far it is with it. *)
UnpackInv ==
  /\ pc \in {"packing", "failed"} => step = "idle" /\ rc = "idle"
  /\ ~inserts => step = "idle"
  /\ pc # "elsewhere" /\ step # "idle" => src = out
  /\ faulty = FALSE
  /\ rc = "idle" => p = 0 /\ made = [n \in {} |-> {}]
  /\ rc # "idle" => /\ inserts => step = "written"
                    /\ arc = Product /\ size = arc.len
                    /\ Walker!WalkInv /\ Walker!TreeInv
  /\ rc \notin {"idle", "running"} /\ NamesHaveRoom => Walker!Passed = 1..(Walker!Last - 1)

(* A walk that begins is a walk of CpioUnpack. *)
LEMMA WalkerStarts == Walker!Init => Walker!WalkInv /\ Walker!TreeInv
<1>1. HAVE Walker!Init
<1>2. Walker!WalkInv BY <1>1, WalkerGiven, Walker!WalkStarts
<1>3. Walker!TreeInv BY <1>1, WalkerGiven, Walker!TreeStarts
<1> QED BY <1>2, <1>3

(* The same tools at the same place. *)
LEMMA UnpackStarts ==
  ASSUME ChainInit
  PROVE  UnpackInv
<1>1. faulty = FALSE /\ p = 0 /\ rc = "idle" /\ made = [n \in {} |-> {}] BY DEF ChainInit
<1>2. CASE Packs BY <1>1, <1>2 DEF Packs, Init, UnpackInv
<1>3. CASE FromElsewhere BY <1>1, <1>3 DEF FromElsewhere, UnpackInv
<1> QED BY <1>2, <1>3 DEF ChainInit

(* The start of the walk. *)
LEMMA StartUnpackKeeps ==
  ASSUME ChainInv, UnpackInv, StartUnpack
  PROVE  UnpackInv'
<1>1. /\ pc \in {"written", "elsewhere"} /\ (inserts => step = "written") /\ rc = "idle"
      /\ arc' = Product /\ size' = Product.len /\ rc' = "running"
      /\ UNCHANGED <<packVars, inserts, insertVars, faulty, p, made>>
  BY DEF StartUnpack
<1>2. UNCHANGED <<out, pc, src, dst, step>> BY <1>1 DEF packVars, insertVars
<1>3. Product' = Product BY <1>1, <1>2 DEF Product
<1>4. Product \in Handable BY <1>1, ProductIsHandable
<1>5. faulty = FALSE /\ p = 0 /\ made = [n \in {} |-> {}] BY <1>1 DEF UnpackInv
<1>6. Walker!Init'
  <2>1. IsArchive(Product) BY <1>4 DEF Handable, Handed
  <2>2. /\ Product.len \in Nat /\ Product.off[1] = 0 /\ 1 \in 1..Len(Product.off)
        /\ \A i \in 1..Len(Product.off) : Product.len >= Product.off[i] + HDR
    BY <2>1, EntriesAre
  <2>3. Product.len >= HDR
    <3>1. Product.len >= Product.off[1] + HDR BY <2>2
    <3> QED BY <2>2, <3>1 DEF HDR
  <2>4. Product.len \in HDR..Product.len BY <2>2, <2>3 DEF HDR
  <2>5. [n \in {} |-> {}] = [n \in {} |-> [kind |-> "dir", is |-> "default"]] OBVIOUS
  <2> QED BY <1>1, <1>4, <1>5, <2>4, <2>5, SameWalker DEF Walker!Init
<1>7. Walker!WalkInv' /\ Walker!TreeInv' BY <1>6, WalkerStarts, PTL
<1> QED BY <1>1, <1>2, <1>3, <1>5, <1>7 DEF UnpackInv

(* A step of the walk. *)
LEMMA UnpackStepKeeps ==
  ASSUME UnpackInv, UnpackStep
  PROVE  UnpackInv'
<1>1. rc = "running" /\ Unpack!Next /\ UNCHANGED <<packVars, inserts, insertVars>> BY DEF UnpackStep
<1>2. UNCHANGED <<out, pc, src, dst, step, inserts>> BY <1>1 DEF packVars, insertVars
<1>3. Walker!Next /\ Walker!WalkInv /\ Walker!TreeInv /\ arc = Product /\ size = arc.len
  BY <1>1, SameStep DEF UnpackInv
<1>4. Walker!WalkInv' BY <1>3, WalkerGiven, Walker!WalkKeeps
<1>5. Walker!TreeInv' BY <1>3, WalkerGiven, Walker!StepKeepsTree
<1>6. UNCHANGED <<faulty, arc, size>> /\ rc' # "idle"
  BY <1>1
  DEF Unpack!Next, Unpack!NoTrailer, Unpack!Resync, Unpack!LoseSync, Unpack!BadName,
      Unpack!Overflow, Unpack!Trailer, Unpack!Extract, Unpack!Return
<1>7. rc' # "running" /\ NamesHaveRoom => Walker!Passed' = 1..(Walker!Last - 1)
  <2>1. HAVE rc' # "running" /\ NamesHaveRoom
  <2>2. \A i \in 1..(Walker!Last - 1) : Walker!Entry(i).ns < Walker!NAMEMAX
    BY <2>1, SameWalker DEF NamesHaveRoom
  <2> QED BY <1>3, <2>1, <2>2, WalkerGiven, Walker!EndsAtLast
<1>8. (NamesHaveRoom' <=> NamesHaveRoom) /\ Walker!Last' = Walker!Last
  BY <1>6 DEF NamesHaveRoom, Walker!Last
<1>9. Product' = Product BY <1>2 DEF Product
<1>10. faulty = FALSE /\ (inserts => step = "written")
       /\ (~inserts => step = "idle") /\ (pc # "elsewhere" /\ step # "idle" => src = out)
       /\ pc \notin {"packing", "failed"}
  BY <1>1 DEF UnpackInv
<1> QED BY <1>2, <1>3, <1>4, <1>5, <1>6, <1>7, <1>8, <1>9, <1>10 DEF UnpackInv

(* No step of any tool breaks what is known of the walk. *)
LEMMA UnpackKeeps ==
  ASSUME ChainInv, UnpackInv, [ChainNext]_chainVars
  PROVE  UnpackInv'
<1>1. CASE PackStep
  <2>1. Next /\ UNCHANGED <<inserts, insertVars, unpackVars>> BY <1>1 DEF PackStep
  <2>2. UNCHANGED <<step, faulty, p, rc, made>> BY <2>1 DEF insertVars, unpackVars
  <2>3. pc = "packing" BY <2>1 DEF Next, AddDevice, AddNode, CannotOpen, Write
  <2>4. step = "idle" /\ rc = "idle" BY <2>3 DEF UnpackInv
  <2> QED BY <2>1, <2>2, <2>4 DEF UnpackInv
<1>2. CASE StartInsert
  <2>1. /\ pc = "written" /\ inserts /\ step = "idle" /\ src' = out /\ step' = "scan"
        /\ UNCHANGED <<packVars, inserts, unpackVars>>
    BY <1>2 DEF StartInsert
  <2>2. UNCHANGED <<out, pc, faulty, p, rc, made>> BY <2>1 DEF packVars, unpackVars
  <2>3. rc = "idle" BY <2>1 DEF UnpackInv
  <2> QED BY <2>1, <2>2, <2>3 DEF UnpackInv
<1>3. CASE InsertStep
  <2>1. /\ step \in {"scan", "insert"} /\ DevNodes!Next
        /\ UNCHANGED <<packVars, inserts, unpackVars>>
    BY <1>3 DEF InsertStep
  <2>2. src' = src
    BY <2>1 DEF DevNodes!Next, DevNodes!Pass, DevNodes!Resync, DevNodes!Found, DevNodes!NotFound,
                DevNodes!Insert
  <2>3. UNCHANGED <<out, pc, faulty, p, rc, made>> BY <2>1 DEF packVars, unpackVars
  <2>4. rc = "idle" /\ inserts /\ pc \notin {"packing", "failed"}
        /\ (pc # "elsewhere" => src = out)
    BY <2>1 DEF UnpackInv
  <2> QED BY <2>1, <2>2, <2>3, <2>4 DEF UnpackInv
<1>4. CASE StartUnpack BY <1>4, StartUnpackKeeps
<1>5. CASE UnpackStep BY <1>5, UnpackStepKeeps
<1>6. CASE UNCHANGED chainVars
  <2>1. UNCHANGED <<out, pc, src, dst, step, inserts>> /\ UNCHANGED <<faulty, arc, size, p, rc, made>>
    BY <1>6 DEF chainVars, packVars, insertVars, unpackVars
  <2>2. UNCHANGED Walker!vars BY <2>1 DEF Walker!vars
  <2>3. rc # "idle" => Walker!WalkInv' /\ Walker!TreeInv'
    <3>1. HAVE rc # "idle"
    <3>2. Walker!WalkInv /\ Walker!TreeInv BY <3>1 DEF UnpackInv
    <3>3. Walker!WalkInv' BY <2>2, <3>2, WalkerGiven, Walker!WalkKeeps
    <3>4. Walker!TreeInv' BY <2>2, <3>2, WalkerGiven, Walker!StepKeepsTree
    <3> QED BY <3>3, <3>4
  <2>4. /\ NamesHaveRoom' <=> NamesHaveRoom
        /\ Walker!Last' = Walker!Last /\ Walker!Passed' = Walker!Passed
        /\ Product' = Product
    BY <2>1 DEF NamesHaveRoom, Walker!Last, Walker!Passed, Product
  <2> QED BY <2>1, <2>3, <2>4 DEF UnpackInv
<1> QED BY <1>1, <1>2, <1>3, <1>4, <1>5, <1>6 DEF ChainNext

(* What is known of the walk, in every state. *)
LEMMA UnpackInvariant == ChainSpec => [](ChainInv /\ UnpackInv)
<1>1. ChainInit => UnpackInv BY UnpackStarts
<1>2. ChainInv /\ UnpackInv /\ [ChainNext]_chainVars => UnpackInv' BY UnpackKeeps
<1> QED BY <1>1, <1>2, ChainInvariant, PTL DEF ChainSpec

-----------------------------------------------------------------------------
(* The round trip.                                                         *)

(* The entries of an archive, without its trailer. *)
EntriesOf(a) == {EntryOf(a, i) : i \in 1..(Len(a.off) - 1)}

DeviceHeader(k) == Header(devs[k].path, "dev", FALSE, devs[k].chars, 0)

(* The archive that is packed holds the devices and the nodes that can be   *)
(* reached, and nothing else.                                               *)
LEMMA WhatIsPacked ==
  ASSUME PackInv, pc = "written"
  PROVE  /\ \A n \in Reachable : NodeHeader(n) \in EntriesOf(out)
         /\ \A k \in DOMAIN devs : DeviceHeader(k) \in EntriesOf(out)
         /\ \A h \in EntriesOf(out) : \/ \E n \in Reachable : h = NodeHeader(n)
                                     \/ \E k \in DOMAIN devs : h = DeviceHeader(k)
<1> DEFINE n == Len(items)
<1>1. /\ PackTyped /\ items \in Seq(Entries) /\ out = Archive(items)
      /\ tree \in Trees /\ devs \in Manifests
  BY DEF PackInv, PackTyped, Laid
<1>2. /\ n \in Nat /\ out.off \in [1..(n + 1) -> Nat]
      /\ \A i \in 1..(n + 1) : out.hdr[out.off[i]] = IF i = n + 1 THEN Trailer ELSE items[i].hdr
  BY <1>1, ArchiveIs
<1>3. DOMAIN items = 1..n BY <1>1, LenProperties
<1>4. \A i \in 1..n : items[i] \in Makeable BY <1>3 DEF PackInv, AllMade
<1>5. Paths(devs) \cup Reachable \subseteq Packed BY DEF PackInv, NoneLeft
<1> HIDE DEF n
<1>6. Len(out.off) = n + 1
  <2>1. \A N \in Nat : \A f \in [1..N -> Nat] : Len(f) = N OBVIOUS
  <2>2. n + 1 \in Nat /\ out.off \in [1..(n + 1) -> Nat] BY <1>2
  <2> QED BY <2>1, <2>2
<1>7. EntriesOf(out) = {items[i].hdr : i \in 1..n}
  <2>1. Len(out.off) - 1 = n BY <1>2, <1>6
  <2>2. \A i \in 1..n : EntryOf(out, i) = items[i].hdr
    <3>1. TAKE i \in 1..n
    <3>2. i \in 1..(n + 1) /\ i # n + 1 BY <1>2
    <3> QED BY <1>2, <3>2 DEF EntryOf
  <2> QED BY <2>1, <2>2 DEF EntriesOf
<1>8. ASSUME NEW m \in DOMAIN tree, NEW k \in DOMAIN devs PROVE m # devs[k].path
  <2>1. devs[k].path \in Paths(devs) BY DEF Paths
  <2> QED BY <1>1, <2>1, TreesAssumption DEF IsFileTree
<1>9. ASSUME NEW m \in Reachable PROVE NodeHeader(m) \in EntriesOf(out)
  <2>1. PICK i \in 1..n : items[i].hdr.name = m BY <1>3, <1>5 DEF Packed
  <2>2. m \in DOMAIN tree BY DEF Reachable
  <2>3. ~OfDevice(items[i])
    <3>1. \A k \in DOMAIN devs : DeviceHeader(k).name = devs[k].path BY DEF DeviceHeader, Header
    <3> QED BY <1>8, <2>1, <2>2, <3>1 DEF OfDevice, DeviceHeader
  <2>4. PICK l \in Reachable : items[i].hdr = NodeHeader(l) BY <1>4, <2>3 DEF Makeable, OfNode
  <2>5. NodeHeader(l).name = l
    <3>1. l \in DOMAIN tree BY DEF Reachable
    <3> QED BY <1>1, <3>1, NodeHeaderIs
  <2> QED BY <1>7, <2>1, <2>4, <2>5
<1>10. ASSUME NEW k \in DOMAIN devs PROVE DeviceHeader(k) \in EntriesOf(out)
  <2>1. PICK i \in 1..n : items[i].hdr.name = devs[k].path BY <1>3, <1>5 DEF Packed, Paths
  <2>2. ~OfNode(items[i])
    <3>1. \A l \in Reachable : l \in DOMAIN tree BY DEF Reachable
    <3>2. \A l \in Reachable : NodeHeader(l).name = l BY <1>1, <3>1, NodeHeaderIs
    <3> QED BY <1>8, <2>1, <3>1, <3>2 DEF OfNode
  <2>3. PICK l \in DOMAIN devs : items[i].hdr = DeviceHeader(l)
    BY <1>4, <2>2 DEF Makeable, OfDevice, DeviceHeader
  <2>4. devs[l].path = devs[k].path BY <2>1, <2>3 DEF DeviceHeader, Header
  <2>5. l = k BY <1>1, <2>4, ManifestsAssumption DEF IsDeviceList
  <2> QED BY <1>7, <2>3, <2>5
<1>11. ASSUME NEW h \in EntriesOf(out)
       PROVE  \/ \E m \in Reachable : h = NodeHeader(m)
              \/ \E k \in DOMAIN devs : h = DeviceHeader(k)
  <2>1. PICK i \in 1..n : h = items[i].hdr BY <1>7
  <2> QED BY <1>4, <2>1 DEF Makeable, OfDevice, OfNode, DeviceHeader
<1> QED BY <1>9, <1>10, <1>11

(* The archive that is unpacked holds what was packed, and the nodes that   *)
(* were put in.                                                             *)
LEMMA WhatIsUnpacked ==
  ASSUME ChainInv, UnpackInv, pc = "written", rc # "idle"
  PROVE  EntriesOf(arc) = EntriesOf(out)
                          \cup (IF inserts THEN {DevNodes!NewNodes[k] : k \in 1..3} ELSE {})
<1>1. arc = Product BY DEF UnpackInv
<1>2. CASE ~inserts BY <1>1, <1>2 DEF Product
<1>3. CASE inserts
  <2>1. step = "written" /\ src = out BY <1>3 DEF UnpackInv
  <2>2. PICK i \in 1..(Len(src.off) - 1), after \in Nat :
          CutAt(src, i, after) /\ dst = DevNodes!Spliced(src, after)
    BY <2>1 DEF ChainInv, InsertInv, Inserted
  <2> DEFINE L == Len(src.off)
  <2>3. L \in Nat /\ i \in Nat /\ i >= 1 /\ i < L
    <3>1. L \in Nat BY <2>2, EntriesAre DEF CutAt, Handed
    <3> QED BY <2>2, <3>1
  <2>4. Len(dst.off) = L + 3 BY <2>2, SplicedOffsets
  <2>5. /\ \A j \in 1..i : EntryOf(dst, j) = EntryOf(src, j)
        /\ \A k \in 1..3 : EntryOf(dst, i + k) = DevNodes!NewNodes[k]
        /\ \A j \in (i + 1)..L : EntryOf(dst, j + 3) = EntryOf(src, j)
    BY <2>2, SplicedEntries
  <2> HIDE DEF L
  <2>6. EntriesOf(dst) = {EntryOf(dst, m) : m \in 1..(L + 2)}
    <3>1. Len(dst.off) - 1 = L + 2 BY <2>3, <2>4
    <3> QED BY <3>1 DEF EntriesOf
  <2>7. EntriesOf(src) = {EntryOf(src, m) : m \in 1..(L - 1)} BY DEF EntriesOf, L
  <2>8. ASSUME NEW m \in 1..(L + 2)
        PROVE  \/ EntryOf(dst, m) \in EntriesOf(src)
               \/ \E k \in 1..3 : EntryOf(dst, m) = DevNodes!NewNodes[k]
    <3>1. CASE m <= i
      <4>1. m \in 1..i /\ m \in 1..(L - 1) BY <2>3, <3>1
      <4> QED BY <2>5, <2>7, <4>1
    <3>2. CASE m > i /\ m <= i + 3
      <4>1. m - i \in 1..3 /\ i + (m - i) = m BY <2>3, <3>2
      <4> QED BY <2>5, <4>1
    <3>3. CASE m > i + 3
      <4>1. m - 3 \in (i + 1)..L /\ m - 3 \in 1..(L - 1) /\ (m - 3) + 3 = m BY <2>3, <3>3
      <4> QED BY <2>5, <2>7, <4>1
    <3> QED BY <2>3, <3>1, <3>2, <3>3
  <2>9. ASSUME NEW j \in 1..(L - 1) PROVE EntryOf(src, j) \in EntriesOf(dst)
    <3>1. CASE j <= i
      <4>1. j \in 1..i /\ j \in 1..(L + 2) BY <2>3, <3>1
      <4> QED BY <2>5, <2>6, <4>1
    <3>2. CASE j > i
      <4>1. j \in (i + 1)..L /\ j + 3 \in 1..(L + 2) BY <2>3, <3>2
      <4> QED BY <2>5, <2>6, <4>1
    <3> QED BY <2>3, <3>1, <3>2
  <2>10. ASSUME NEW k \in 1..3 PROVE DevNodes!NewNodes[k] \in EntriesOf(dst)
    <3>1. i + k \in 1..(L + 2) BY <2>3
    <3> QED BY <2>5, <2>6, <3>1
  <2>11. EntriesOf(dst) = EntriesOf(src) \cup {DevNodes!NewNodes[k] : k \in 1..3}
    BY <2>6, <2>7, <2>8, <2>9, <2>10
  <2> QED BY <1>1, <1>3, <2>1, <2>11 DEF Product
<1> QED BY <1>2, <1>3

(* What the walk leaves, in terms of the entries of the archive. *)
LEMMA WhatIsMade ==
  ASSUME UnpackInv, rc \notin {"idle", "running"}, NamesHaveRoom
  PROVE  /\ \A h \in EntriesOf(arc) :
              Unpack!Makes(h) => h.name \in DOMAIN made /\ made[h.name].kind = h.kind
         /\ \A n \in DOMAIN made : \E h \in EntriesOf(arc) :
              \/ n = h.name /\ Unpack!Makes(h)
              \/ n \in Above(h.name)
<1>1. /\ faulty = FALSE /\ Walker!TreeInv
      /\ Walker!Passed = 1..(Walker!Last - 1)
  BY DEF UnpackInv
<1>2. Walker!NothingSkipped /\ Walker!NothingForeign BY <1>1 DEF Walker!TreeInv
<1>3. \A i \in 1..(Len(arc.off) - 1) :
        Unpack!Makes(EntryOf(arc, i)) => /\ EntryOf(arc, i).name \in DOMAIN made
                                         /\ made[EntryOf(arc, i).name].kind = EntryOf(arc, i).kind
  BY <1>1, <1>2, SameWalker DEF Walker!NothingSkipped
<1>4. \A n \in DOMAIN made : \E i \in 1..(Len(arc.off) - 1) :
        \/ n = EntryOf(arc, i).name /\ Unpack!Makes(EntryOf(arc, i))
        \/ n \in Above(EntryOf(arc, i).name)
  BY <1>1, <1>2, SameWalker DEF Walker!NothingForeign
<1> QED BY <1>3, <1>4 DEF EntriesOf

(* What is above a directory of a path is above the path. *)
LEMMA AboveAbove ==
  ASSUME NEW n \in Seq(STRING), NEW d \in Above(n)
  PROVE  Above(d) \subseteq Above(n)
<1>1. PICK k \in 1..(Len(n) - 1) : d = SubSeq(n, 1, k) BY DEF Above
<1>2. Len(n) \in Nat /\ k \in Nat /\ k <= Len(n) BY <1>1, LenProperties
<1>3. d \in Seq(STRING) /\ Len(d) = k /\ \A i \in 1..k : d[i] = n[i]
  <2>1. 1 \in 1..(Len(n) + 1) /\ k \in 1..Len(n) /\ \A i \in 1..k : n[i] \in STRING
    BY <1>1, <1>2, ElementOfSeq
  <2> QED BY <1>1, <1>2, <2>1, SubSeqProperties
<1>4. ASSUME NEW l \in 1..(k - 1) PROVE SubSeq(d, 1, l) = SubSeq(n, 1, l) /\ l \in 1..(Len(n) - 1)
  <2>1. l \in Nat /\ l >= 1 /\ l <= k - 1 /\ l \in 1..(Len(n) - 1) BY <1>1, <1>2
  <2>2. SubSeq(d, 1, l) = [i \in 1..l |-> d[i]]
    <3>1. \A i \in 1..l : i - 1 + 1 = i OBVIOUS
    <3>2. \A i \in 1..l : d[i] \in STRING BY <1>3, <2>1, ElementOfSeq
    <3> QED BY <1>3, <2>1, <3>1, <3>2, SubSeqProperties
  <2>3. SubSeq(n, 1, l) = [i \in 1..l |-> n[i]] BY <1>2, <2>1, SubSeqProperties
  <2>4. [i \in 1..l |-> d[i]] = [i \in 1..l |-> n[i]] BY <1>3, <2>1
  <2> QED BY <2>1, <2>2, <2>3, <2>4
<1> QED BY <1>3, <1>4 DEF Above

(* The walker has room for the names of what was packed and put in. *)
LEMMA RoomForAll ==
  ASSUME ChainInv, UnpackInv, pc = "written", rc # "idle", ShortNames
  PROVE  NamesHaveRoom
<1>1. PackInv BY DEF ChainInv
<1>2. ASSUME NEW h \in EntriesOf(arc) PROVE h.ns < Unpack!NAMEMAX
  <2>1. \/ \E m \in Reachable : h = NodeHeader(m)
        \/ \E k \in DOMAIN devs : h = DeviceHeader(k)
        \/ \E k \in 1..3 : h = DevNodes!NewNodes[k]
    BY <1>1, WhatIsPacked, WhatIsUnpacked
  <2>2. \A m \in Reachable : NodeHeader(m).ns < Unpack!NAMEMAX BY DEF ShortNames
  <2>3. \A k \in DOMAIN devs : DeviceHeader(k).ns < Unpack!NAMEMAX
    <3>1. \A k \in DOMAIN devs : DeviceHeader(k).ns = devs[k].chars + 1
      BY DEF DeviceHeader, Header
    <3> QED BY <3>1 DEF ShortNames
  <2>4. \A k \in 1..3 : DevNodes!NewNodes[k].ns < Unpack!NAMEMAX
    <3>1. /\ DevNodes!NewNodes[1].ns = 12 /\ DevNodes!NewNodes[2].ns = 9
          /\ DevNodes!NewNodes[3].ns = 9
      <4> DEFINE hs(name, chars) == [name |-> <<"dev", name>>, kind |-> "dev", slash |-> FALSE,
                                     ns |-> chars + 1, fs |-> 0]
                 N == DevNodes!NewNodes
      <4>1. N = <<hs("console", 11), hs("null", 8), hs("zero", 8)>>
        BY DEF DevNodes!NewNodes, DevNodes!NodeHeader
      <4>2. \A name : hs(name, 11).ns = 12 /\ hs(name, 8).ns = 9 OBVIOUS
      <4>3. N[1] = hs("console", 11) /\ N[2] = hs("null", 8) /\ N[3] = hs("zero", 8)
        <5> HIDE DEF hs, N
        <5> QED BY <4>1
      <4> HIDE DEF hs
      <4> QED BY <4>2, <4>3
    <3>2. Unpack!NAMEMAX = 1024 BY DEF Unpack!NAMEMAX
    <3>3. \A k \in 1..3 : k = 1 \/ k = 2 \/ k = 3 OBVIOUS
    <3> QED BY <3>1, <3>2, <3>3
  <2> QED BY <2>1, <2>2, <2>3, <2>4
<1> QED BY <1>2 DEF NamesHaveRoom, EntriesOf

(* For every tree, every list of devices and every order of listing, with   *)
(* the device nodes put in later or not: the walk leaves what was packed,   *)
(* each node with its kind, and nothing else.                               *)
THEOREM RoundTripTheorem == ChainSpec => []RoundTrip
<1>1. ASSUME ChainInv, UnpackInv, pc = "written", rc \notin {"idle", "running"}, ShortNames
      PROVE  /\ \A n \in Arriving : n \in DOMAIN made /\ made[n].kind = KindOut(n)
             /\ \A n \in NodePaths : n \in DOMAIN made /\ made[n].kind = "dev"
             /\ DOMAIN made \subseteq Arriving \cup NodePaths \cup UNION {Above(n) : n \in NodePaths}
  <2>1. PackInv /\ tree \in Trees /\ devs \in Manifests BY <1>1 DEF ChainInv, PackInv, PackTyped
  <2>2. NamesHaveRoom BY <1>1, RoomForAll
  <2>3. /\ \A h \in EntriesOf(arc) :
             Unpack!Makes(h) => h.name \in DOMAIN made /\ made[h.name].kind = h.kind
        /\ \A n \in DOMAIN made : \E h \in EntriesOf(arc) :
             \/ n = h.name /\ Unpack!Makes(h)
             \/ n \in Above(h.name)
    BY <1>1, <2>2, WhatIsMade
  <2>4. EntriesOf(arc) = EntriesOf(out)
                         \cup (IF inserts THEN {DevNodes!NewNodes[k] : k \in 1..3} ELSE {})
    BY <1>1, WhatIsUnpacked
  <2>5. /\ \A n \in Reachable : NodeHeader(n) \in EntriesOf(out)
        /\ \A k \in DOMAIN devs : DeviceHeader(k) \in EntriesOf(out)
        /\ \A h \in EntriesOf(out) : \/ \E n \in Reachable : h = NodeHeader(n)
                                    \/ \E k \in DOMAIN devs : h = DeviceHeader(k)
    BY <1>1, <2>1, WhatIsPacked
  <2>6. \A n \in Reachable : n \in DOMAIN tree BY DEF Reachable
  <2>7. ASSUME NEW n \in DOMAIN tree
        PROVE  NodeHeader(n).name = n /\ NodeHeader(n).kind = KindOut(n)
    <3>1. /\ NodeHeader(n).name = n
          /\ NodeHeader(n).kind = IF tree[n].kind \in {"dir", "dirlink"} THEN "dir" ELSE tree[n].kind
      BY <2>1, NodeHeaderIs
    <3> QED BY <3>1 DEF KindOut
  <2>8. ASSUME NEW k \in DOMAIN devs
        PROVE  /\ DeviceHeader(k).name = devs[k].path /\ devs[k].path \in NodePaths
               /\ DeviceHeader(k).kind = "dev" /\ Unpack!Makes(DeviceHeader(k))
    BY DEF DeviceHeader, Header, Unpack!Makes, NodePaths, Paths
  <2>9. ASSUME NEW k \in 1..3
        PROVE  DevNodes!NewNodes[k].kind = "dev" /\ Unpack!Makes(DevNodes!NewNodes[k])
    BY NodesAre DEF Unpack!Makes
  <2>10. NodePaths = {devs[k].path : k \in DOMAIN devs}
                     \cup (IF inserts THEN {DevNodes!NewNodes[k].name : k \in 1..3} ELSE {})
    BY NodesAre DEF NodePaths, Paths
  <2>11. ASSUME NEW n \in Arriving PROVE n \in DOMAIN made /\ made[n].kind = KindOut(n)
    <3>1. n \in Reachable /\ Unpack!Makes(NodeHeader(n)) BY DEF Arriving
    <3>2. NodeHeader(n) \in EntriesOf(arc) BY <2>4, <2>5, <3>1
    <3>3. NodeHeader(n).name = n /\ NodeHeader(n).kind = KindOut(n) BY <2>6, <2>7, <3>1
    <3> QED BY <2>3, <3>1, <3>2, <3>3
  <2>12. ASSUME NEW n \in NodePaths PROVE n \in DOMAIN made /\ made[n].kind = "dev"
    <3>1. CASE \E k \in DOMAIN devs : n = devs[k].path
      <4>1. PICK k \in DOMAIN devs : n = devs[k].path BY <3>1
      <4>2. DeviceHeader(k) \in EntriesOf(arc) BY <2>4, <2>5
      <4>3. /\ DeviceHeader(k).name = n /\ DeviceHeader(k).kind = "dev"
            /\ Unpack!Makes(DeviceHeader(k))
        BY <2>8, <4>1
      <4> QED BY <2>3, <4>2, <4>3
    <3>2. CASE inserts /\ \E k \in 1..3 : n = DevNodes!NewNodes[k].name
      <4>1. PICK k \in 1..3 : n = DevNodes!NewNodes[k].name BY <3>2
      <4>2. DevNodes!NewNodes[k] \in EntriesOf(arc) BY <2>4, <3>2
      <4> QED BY <2>3, <2>9, <4>1, <4>2
    <3> QED BY <2>10, <3>1, <3>2
  <2>13. ASSUME NEW n \in DOMAIN made
         PROVE  n \in Arriving \cup NodePaths \cup UNION {Above(m) : m \in NodePaths}
    <3>1. PICK h \in EntriesOf(arc) : \/ n = h.name /\ Unpack!Makes(h)
                                     \/ n \in Above(h.name)
      BY <2>3
    <3>2. CASE \E m \in Reachable : h = NodeHeader(m)
      <4>1. PICK m \in Reachable : h = NodeHeader(m) BY <3>2
      <4>2. m \in DOMAIN tree /\ h.name = m BY <2>6, <2>7, <4>1
      <4>3. CASE n = m /\ Unpack!Makes(h) BY <4>1, <4>3 DEF Arriving
      <4>4. CASE n \in Above(m)
        <5>1. m \in Seq(STRING) /\ n \in DOMAIN tree /\ tree[n].kind = "dir"
          BY <2>1, <4>2, <4>4, TreeIs
        <5>2. Above(n) \subseteq Above(m) BY <4>4, <5>1, AboveAbove
        <5>3. n \in Reachable BY <4>1, <5>1, <5>2 DEF Reachable
        <5>4. NodeHeader(n).kind = "dir"
          BY <2>7, <5>1 DEF KindOut
        <5>5. Unpack!Makes(NodeHeader(n)) BY <5>4 DEF Unpack!Makes
        <5> QED BY <5>3, <5>5 DEF Arriving
      <4> QED BY <3>1, <4>2, <4>3, <4>4
    <3>3. CASE \E k \in DOMAIN devs : h = DeviceHeader(k)
      <4>1. h.name \in NodePaths BY <2>8, <3>3
      <4> QED BY <3>1, <4>1
    <3>4. CASE inserts /\ \E k \in 1..3 : h = DevNodes!NewNodes[k]
      <4>1. h.name \in NodePaths BY <2>10, <3>4
      <4> QED BY <3>1, <4>1
    <3> QED BY <2>4, <2>5, <3>2, <3>3, <3>4
  <2> QED BY <2>11, <2>12, <2>13
<1>2. ChainInv /\ UnpackInv => RoundTrip BY <1>1 DEF RoundTrip
<1> QED BY <1>2, UnpackInvariant, PTL
=============================================================================
