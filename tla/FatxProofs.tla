----------------------------- MODULE FatxProofs -----------------------------
(***************************************************************************)
(* Proofs about Fatx, for every size of volume, cluster, page and request. *)
(*                                                                         *)
(* TypeInv says where each call is: StackInv that the labels it comes back *)
(* to are those of routines that call the one it is in, and that the call  *)
(* is one that comes there.  The lemmas GoType, BackType, SubType and      *)
(* SubTwoType are about the four ways a step moves on.                     *)
(*                                                                         *)
(* StructInv says what the clusters in use are for at every step: Forest   *)
(* that they are those of chains that do not meet, DirectoryInv what the   *)
(* directory is, WhereInv which cluster, file and slot each call has.      *)
(*                                                                         *)
(* OwnInv says that the cluster a call is at belongs to its own file,      *)
(* OnlyMine what a step may change then, StoredInv what the disk has of    *)
(* files that were closed, SurvivesInv what a power loss leaves of them.   *)
(***************************************************************************)
EXTENDS Fatx, TLAPS, FiniteSetTheorems, WellFoundedInduction

-----------------------------------------------------------------------------
(***************************************************************************)
(* Where a call can be and which labels it returns to                      *)
(***************************************************************************)

Allocating == {"alloc", "scan", "zero"}
Attaching == {"attach", "attach_end"}
Truncating == {"truncate_start", "truncate", "truncate_grown", "truncate_end"}
Reading == {"read_start", "read", "read_advance"}
Writing == {"write_start", "write_extended", "find_grown", "write", "advance", "write_grown", "write_end"}
Creating == {"open_w", "create", "slot", "mark", "dirent", "dir_grown", "open_failed", "open_truncated"}

PCs ==
  {"idle", "lookup", "free", "set_attr", "find", "opened", "read_end", "fs_write_end", "pad", "padded",
   "pad_end", "lseek_end", "flush", "closed", "return"}
    \cup Allocating \cup Attaching \cup Truncating \cup Reading \cup Writing \cup Creating

Ops == {"none", "r", "r+", "w", "read", "write", "lseek", "close"}

\* The labels that the routine p is in returns to; none when it is the call itself.
Returns(p) ==
  IF p = "lookup" THEN {"opened", "open_w", "truncate_start", "set_attr", "write_start", "read_start", "pad_end"}
  ELSE IF p \in Allocating THEN {"create", "attach"}
  ELSE IF p \in Attaching THEN {"truncate_grown", "find_grown", "write_grown", "dir_grown"}
  ELSE IF p = "free" THEN {"truncate_end", "open_failed"}
  ELSE IF p \in Truncating THEN {"open_truncated", "write_extended"}
  ELSE IF p = "set_attr" THEN {"open_truncated", "write_extended", "write_end"}
  ELSE IF p = "find" THEN {"read_end", "fs_write_end", "padded"}
  ELSE IF p \in Writing THEN {"fs_write_end", "padded"}
  ELSE IF p \in Reading THEN {"read_end"}
  ELSE {}

\* The calls that come to p.
OpsAt(p) ==
  IF p = "idle" THEN {"none"}
  ELSE IF p = "lookup" THEN {"r", "r+", "w", "read", "write", "lseek"}
  ELSE IF p \in Allocating \cup Attaching \cup Truncating \cup {"free", "set_attr"} THEN {"w", "write", "lseek"}
  ELSE IF p = "find" THEN {"read", "write", "lseek"}
  ELSE IF p \in Writing THEN {"write", "lseek"}
  ELSE IF p \in Reading \cup {"read_end"} THEN {"read"}
  ELSE IF p = "opened" THEN {"r", "r+", "w"}
  ELSE IF p \in Creating THEN {"w"}
  ELSE IF p = "fs_write_end" THEN {"write"}
  ELSE IF p \in {"pad", "padded", "pad_end", "lseek_end"} THEN {"lseek"}
  ELSE IF p \in {"flush", "closed"} THEN {"close"}
  ELSE Ops \ {"none"}

StackInv ==
  /\ pc \in PCs /\ call.op \in OpsAt(pc)
  /\ call.ret \in Seq(PCs)
  /\ IF call.ret = <<>> THEN Returns(pc) = {} ELSE call.ret[1] \in Returns(pc)
  /\ \A k \in 1 .. Len(call.ret) :
       /\ call.op \in OpsAt(call.ret[k])
       /\ IF k = Len(call.ret) THEN Returns(call.ret[k]) = {} ELSE call.ret[k + 1] \in Returns(call.ret[k])

-----------------------------------------------------------------------------
(***************************************************************************)
(* Types                                                                   *)
(***************************************************************************)

Spots == [cluster : Clusters, entry : Nat]
Attributes == [first : Clusters, size : Nat]
Pages == UNION {[ent : [D -> Entries], dirty : BOOLEAN] : D \in SUBSET FatIndices}

Calls ==
  [op : Ops, fd : Fds \cup {None}, name : Names \cup {None}, n : Nat, to : Nat, offset : Int,
   ret : Seq(PCs), ok : BOOLEAN, result : Int, dir : Spots,
   found : Attributes, attr : Attributes, cluster : Clusters, new : Clusters, victim : Clusters,
   zero : BOOLEAN, start : Nat, wrapped : BOOLEAN, off : Int, done : Int, enc : Int, goal : Nat,
   end : Int, left : Int, chunk : Nat, buf : Seq(UnitValues)]

DiskType ==
  /\ fat \in [FatIndices -> Entries] /\ data \in [Clusters -> [Slots -> UnitValues]]
  /\ page \in Pages
  /\ ~page.dirty => \A k \in DOMAIN page.ent : page.ent[k] = fat[k]
  /\ i \in (2 .. NumClusters) \cup Indices

\* A read begins at a cursor and stays in the slots of its cluster.
ReadType ==
  call.op = "read" =>
    call.offset \in Nat /\ call.off \in Nat /\ (pc = "read" => call.off < Units)

CallType ==
  /\ ReadType
  /\ call \in Calls
  /\ pc = "idle" <=> call.op = "none"
  /\ pc = "idle" => call = NoCall
  /\ call.op # "none" => call.fd \in Fds /\ call.name \in Names
  /\ call.op \in {"read", "write", "lseek", "close"} /\ pc # "return" => fds[call.fd] # None

TypeInv ==
  /\ scenario \in Scenarios
  /\ fds \in [Fds -> OpenFiles \cup {None}]
  /\ DiskType
  /\ StackInv
  /\ CallType

-----------------------------------------------------------------------------
LEMMA Constants ==
  /\ NumClusters \in Nat /\ NumClusters > 2 /\ Units \in Nat \ {0} /\ PageEntries \in Nat \ {0}
  /\ Chunk \in Nat \ {0} /\ Lengths \subseteq Nat \ {0} /\ Indices \subseteq Nat \ {0, 1}
  /\ None \notin Fds /\ None \notin Names /\ None \notin OpenFiles
  /\ root_cluster \in Clusters /\ Clusters \subseteq FatIndices /\ 0 \in Slots
BY FatxAssumption, ValuesAssumption DEF Clusters, FatIndices, root_cluster, Slots

LEMMA LeastIn ==
  ASSUME NEW S \in SUBSET Nat, S # {}
  PROVE  Least(S) \in S /\ \A k \in S : Least(S) <= k
<1> DEFINE R == OpToRel(<, Nat)
<1>1. IsWellFoundedOn(R, Nat)
  BY NatLessThanWellFounded
<1>2. \A j, k \in Nat : j < k => <<j, k>> \in R
  BY DEF OpToRel
<1> HIDE DEF R
<1>3. PICK m \in S : \A k \in S : ~(<<k, m>> \in R)
  BY <1>1, WFMin
<1>4. ASSUME NEW k \in S PROVE m <= k
  <2>1. ~(k < m)
    BY <1>2, <1>3
  <2>2. QED
    BY <2>1
<1>5. QED
  BY <1>4 DEF Least

\* Pushing labels.
LEMMA PushOne ==
  ASSUME NEW S, NEW l \in S, NEW ret \in Seq(S)
  PROVE  /\ <<l>> \o ret \in Seq(S) /\ Len(<<l>> \o ret) = Len(ret) + 1
         /\ (<<l>> \o ret)[1] = l /\ \A k \in 1 .. Len(ret) : (<<l>> \o ret)[k + 1] = ret[k]
OBVIOUS

LEMMA PushTwo ==
  ASSUME NEW S, NEW l \in S, NEW m \in S, NEW ret \in Seq(S)
  PROVE  /\ <<l, m>> \o ret \in Seq(S) /\ Len(<<l, m>> \o ret) = Len(ret) + 2
         /\ (<<l, m>> \o ret)[1] = l /\ (<<l, m>> \o ret)[2] = m
         /\ \A k \in 1 .. Len(ret) : (<<l, m>> \o ret)[k + 2] = ret[k]
OBVIOUS

LEMMA PopOne ==
  ASSUME NEW S, NEW ret \in Seq(S), ret # <<>>, NEW n \in Nat \ {0}, n = Len(ret)
  PROVE  /\ Head(ret) = ret[1] /\ Tail(ret) \in Seq(S) /\ Len(Tail(ret)) = n - 1
         /\ \A k \in 1 .. n - 1 : Tail(ret)[k] = ret[k + 1]
         /\ Tail(ret) = <<>> <=> n = 1
<1>1. /\ Head(ret) = ret[1] /\ Tail(ret) \in Seq(S) /\ Len(Tail(ret)) = n - 1
      /\ \A k \in 1 .. n - 1 : Tail(ret)[k] = ret[k + 1]
  OBVIOUS
<1>2. Tail(ret) = <<>> <=> Len(Tail(ret)) = 0
  BY <1>1
<1>3. QED
  BY <1>1, <1>2

\* What is behind the call in p can be behind it in q.
Fits(p, q) == Returns(p) \subseteq Returns(q) /\ (Returns(p) = {} => Returns(q) = {})

Top(q) == IF call.ret = <<>> THEN Returns(q) = {} ELSE call.ret[1] \in Returns(q)

LEMMA TopFits ==
  ASSUME StackInv, NEW q, Fits(pc, q)
  PROVE  Top(q)
BY DEF StackInv, Fits, Top

LEMMA GoStack ==
  ASSUME StackInv, pc' \in PCs, call'.op = call.op, call'.ret = call.ret,
         Top(pc'), call.op \in OpsAt(pc')
  PROVE  StackInv'
BY DEF StackInv, Top

LEMMA BackStack ==
  ASSUME StackInv, Returns(pc) # {}, pc' = Head(call.ret), call'.op = call.op,
         call'.ret = Tail(call.ret)
  PROVE  StackInv' /\ pc' \in Returns(pc) /\ call.op \in OpsAt(pc') /\ call.ret # <<>>
<1>1. call.ret \in Seq(PCs) /\ call.ret # <<>>
  BY DEF StackInv, Top
<1>2. PICK n \in Nat \ {0} : n = Len(call.ret)
  BY <1>1
<1>3. /\ pc' = call.ret[1] /\ call'.ret \in Seq(PCs) /\ Len(call'.ret) = n - 1
      /\ \A k \in 1 .. n - 1 : call'.ret[k] = call.ret[k + 1]
      /\ call'.ret = <<>> <=> n = 1
  <2>1. /\ Head(call.ret) = call.ret[1] /\ Tail(call.ret) \in Seq(PCs) /\ Len(Tail(call.ret)) = n - 1
        /\ \A k \in 1 .. n - 1 : Tail(call.ret)[k] = call.ret[k + 1]
        /\ Tail(call.ret) = <<>> <=> n = 1
    BY <1>1, <1>2, PopOne
  <2>2. QED
    BY <2>1
<1>4. 1 \in 1 .. n /\ (n # 1 => 1 \in 1 .. n - 1 /\ 1 + 1 = 2)
  OBVIOUS
<1>5. pc' \in PCs /\ pc' \in Returns(pc) /\ call.op \in OpsAt(pc')
  BY <1>1, <1>2, <1>3, <1>4 DEF StackInv, Top
<1>6. IF call'.ret = <<>> THEN Returns(pc') = {} ELSE call'.ret[1] \in Returns(pc')
  BY <1>2, <1>3, <1>4 DEF StackInv, Top
<1>7. ASSUME NEW k \in 1 .. n - 1
      PROVE  /\ call'.op \in OpsAt(call'.ret[k])
             /\ IF k = n - 1 THEN Returns(call'.ret[k]) = {}
                ELSE call'.ret[k + 1] \in Returns(call'.ret[k])
  <2>1. k + 1 \in 1 .. n /\ (k = n - 1 <=> k + 1 = n) /\ (k # n - 1 => k + 1 \in 1 .. n - 1)
    OBVIOUS
  <2>2. QED
    BY <1>2, <1>3, <2>1 DEF StackInv, Top
<1>8. QED
  BY <1>1, <1>3, <1>5, <1>6, <1>7 DEF StackInv, Top

LEMMA SubStack ==
  ASSUME StackInv, NEW l \in PCs, pc' \in PCs, call'.op = call.op, call'.ret = <<l>> \o call.ret,
         l \in Returns(pc'), Top(l), call.op \in OpsAt(pc') \cap OpsAt(l)
  PROVE  StackInv'
<1> DEFINE n == Len(call.ret)
<1>1. call.ret \in Seq(PCs) /\ n \in Nat
  BY DEF StackInv, Top
<1>2. /\ call'.ret \in Seq(PCs) /\ Len(call'.ret) = n + 1 /\ call'.ret[1] = l /\ call'.ret # <<>>
      /\ \A k \in 1 .. n : call'.ret[k + 1] = call.ret[k]
  BY <1>1, PushOne
<1>3. ASSUME NEW k \in 1 .. n + 1
      PROVE  /\ call'.op \in OpsAt(call'.ret[k])
             /\ IF k = n + 1 THEN Returns(call'.ret[k]) = {}
                ELSE call'.ret[k + 1] \in Returns(call'.ret[k])
  <2>1. CASE k = 1
    <3>1. n = 0 <=> call.ret = <<>>
      BY <1>1
    <3>2. n # 0 => call'.ret[2] = call.ret[1]
      <4>1. n # 0 => 1 \in 1 .. n /\ 1 + 1 = 2
        BY <1>1
      <4>2. QED
        BY <1>2, <4>1
    <3>3. QED
      BY <1>2, <2>1, <3>1, <3>2 DEF StackInv, Top
  <2>2. CASE k # 1
    <3>1. PICK j \in 1 .. n : k = j + 1 /\ (j # n => j + 1 \in 1 .. n)
      BY <1>1, <2>2
    <3>2. /\ call'.ret[k] = call.ret[j] /\ (j # n => call'.ret[k + 1] = call.ret[j + 1])
          /\ (k = n + 1 <=> j = n)
      BY <1>1, <1>2, <3>1
    <3>3. QED
      BY <3>1, <3>2 DEF StackInv, Top
  <2>3. QED
    BY <2>1, <2>2
<1>4. QED
  BY <1>2, <1>3 DEF StackInv, Top

LEMMA SubTwoStack ==
  ASSUME StackInv, NEW l \in PCs, NEW m \in PCs, pc' \in PCs, call'.op = call.op,
         call'.ret = <<l, m>> \o call.ret,
         l \in Returns(pc'), m \in Returns(l), Top(m),
         call.op \in OpsAt(pc') \cap OpsAt(l) \cap OpsAt(m)
  PROVE  StackInv'
<1> DEFINE n == Len(call.ret)
<1>1. call.ret \in Seq(PCs) /\ n \in Nat
  BY DEF StackInv, Top
<1>2. /\ call'.ret \in Seq(PCs) /\ Len(call'.ret) = n + 2 /\ call'.ret[1] = l /\ call'.ret[2] = m
      /\ call'.ret # <<>> /\ \A k \in 1 .. n : call'.ret[k + 2] = call.ret[k]
  BY <1>1, PushTwo
<1>3. ASSUME NEW k \in 1 .. n + 2
      PROVE  /\ call'.op \in OpsAt(call'.ret[k])
             /\ IF k = n + 2 THEN Returns(call'.ret[k]) = {}
                ELSE call'.ret[k + 1] \in Returns(call'.ret[k])
  <2>1. CASE k = 1
    <3>1. k + 1 = 2 /\ k # n + 2
      BY <1>1, <2>1
    <3>2. QED
      BY <1>2, <2>1, <3>1
  <2>2. CASE k = 2
    <3>1. n = 0 <=> call.ret = <<>>
      BY <1>1
    <3>2. n # 0 => call'.ret[3] = call.ret[1]
      <4>1. n # 0 => 1 \in 1 .. n /\ 1 + 2 = 3
        BY <1>1
      <4>2. QED
        BY <1>2, <4>1
    <3>3. QED
      BY <1>2, <2>2, <3>1, <3>2 DEF StackInv, Top
  <2>3. CASE k # 1 /\ k # 2
    <3>1. PICK j \in 1 .. n : k = j + 2 /\ (j # n => j + 1 \in 1 .. n)
      BY <1>1, <2>3
    <3>2. /\ call'.ret[k] = call.ret[j] /\ (j # n => call'.ret[k + 1] = call.ret[j + 1])
          /\ (k = n + 2 <=> j = n)
      BY <1>1, <1>2, <3>1
    <3>3. QED
      BY <3>1, <3>2 DEF StackInv, Top
  <2>4. QED
    BY <2>1, <2>2, <2>3
<1>4. QED
  BY <1>2, <1>3 DEF StackInv, Top

-----------------------------------------------------------------------------
LEMMA ReturnsTable ==
  /\ Returns("lookup") =
       {"opened", "open_w", "truncate_start", "set_attr", "write_start", "read_start", "pad_end"}
  /\ \A p \in Allocating : Returns(p) = {"create", "attach"}
  /\ \A p \in Attaching : Returns(p) = {"truncate_grown", "find_grown", "write_grown", "dir_grown"}
  /\ Returns("free") = {"truncate_end", "open_failed"}
  /\ \A p \in Truncating : Returns(p) = {"open_truncated", "write_extended"}
  /\ Returns("set_attr") = {"open_truncated", "write_extended", "write_end"}
  /\ Returns("find") = {"read_end", "fs_write_end", "padded"}
  /\ \A p \in Writing : Returns(p) = {"fs_write_end", "padded"}
  /\ \A p \in Reading : Returns(p) = {"read_end"}
  /\ \A p \in Creating \cup {"idle", "opened", "read_end", "fs_write_end", "pad", "padded",
              "pad_end", "lseek_end", "flush", "closed", "return"} : Returns(p) = {}
BY DEF Returns, Allocating, Attaching, Truncating, Reading, Writing, Creating

LEMMA OpsTable ==
  /\ OpsAt("idle") = {"none"} /\ OpsAt("return") = Ops \ {"none"}
  /\ OpsAt("lookup") = {"r", "r+", "w", "read", "write", "lseek"}
  /\ \A p \in Allocating \cup Attaching \cup Truncating \cup {"free", "set_attr"} :
       OpsAt(p) = {"w", "write", "lseek"}
  /\ OpsAt("find") = {"read", "write", "lseek"}
  /\ \A p \in Writing : OpsAt(p) = {"write", "lseek"}
  /\ \A p \in Reading \cup {"read_end"} : OpsAt(p) = {"read"}
  /\ OpsAt("opened") = {"r", "r+", "w"}
  /\ \A p \in Creating : OpsAt(p) = {"w"}
  /\ OpsAt("fs_write_end") = {"write"}
  /\ \A p \in {"pad", "padded", "pad_end", "lseek_end"} : OpsAt(p) = {"lseek"}
  /\ \A p \in {"flush", "closed"} : OpsAt(p) = {"close"}
BY DEF OpsAt, Allocating, Attaching, Truncating, Reading, Writing, Creating

LEMMA LabelSets ==
  /\ {"alloc", "scan", "zero"} = Allocating /\ {"attach", "attach_end"} = Attaching
  /\ {"truncate_start", "truncate", "truncate_grown", "truncate_end"} = Truncating
  /\ {"read_start", "read", "read_advance"} = Reading
  /\ {"write_start", "write_extended", "find_grown", "write", "advance", "write_grown", "write_end"} = Writing
  /\ {"open_w", "create", "slot", "mark", "dirent", "dir_grown", "open_failed", "open_truncated"} = Creating
  /\ {"idle", "lookup", "free", "set_attr", "find", "opened", "read_end", "fs_write_end", "pad", "padded",
       "pad_end", "lseek_end", "flush", "closed", "return"} \subseteq PCs
  /\ Allocating \cup Attaching \cup Truncating \cup Reading \cup Writing \cup Creating \subseteq PCs
BY DEF PCs, Allocating, Attaching, Truncating, Reading, Writing, Creating

LEMMA DataEntry ==
  ASSUME NEW k \in Entries, IsData(k)
  PROVE  k \in Clusters
BY Constants DEF Entries, IsData, Clusters

LEMMA ViewType ==
  ASSUME DiskType
  PROVE  /\ View \in [FatIndices -> Entries]
         /\ \A k : Hit(k) => k \in FatIndices /\ page.ent[k] = View[k] /\ View[k] \in Entries
         /\ ~page.dirty => View = fat
BY DEF DiskType, Pages, View, Hit

LEMMA WriteFatType ==
  ASSUME DiskType, NEW k, Hit(k), NEW e \in Entries, WriteFat(k, e), fat' = fat, data' = data,
         i' \in (2 .. NumClusters) \cup Indices
  PROVE  DiskType' /\ View' = [View EXCEPT ![k] = e] /\ page'.dirty
<1>1. PICK D \in SUBSET FatIndices : page \in [ent : [D -> Entries], dirty : BOOLEAN]
  BY DEF DiskType, Pages
<1>2. page' \in [ent : [D -> Entries], dirty : BOOLEAN] /\ page'.dirty /\ page'.ent = [page.ent EXCEPT ![k] = e]
  BY <1>1 DEF WriteFat
<1>3. DiskType'
  BY <1>1, <1>2 DEF DiskType, Pages
<1>4. View' = [View EXCEPT ![k] = e]
  BY <1>1, <1>2 DEF View, Hit
<1>5. QED
  BY <1>2, <1>3, <1>4

LEMMA StoreType ==
  ASSUME data \in [Clusters -> [Slots -> UnitValues]], NEW c, NEW e, NEW u \in UnitValues,
         StoreUnit(<<c, e>>, u)
  PROVE  data' \in [Clusters -> [Slots -> UnitValues]]
BY DEF StoreUnit

LEMMA WantedIndex ==
  ASSUME TypeInv, Wanted # 0
  PROVE  Wanted \in Clusters
<1>1. call.dir.cluster \in Clusters /\ call.cluster \in Clusters /\ call.new \in Clusters /\ call.victim \in Clusters
  BY DEF TypeInv, CallType, Calls, Spots
<1>2. index \in Clusters
  <2>1. i \in Nat /\ i >= 2
    BY Constants DEF TypeInv, DiskType
  <2>2. QED
    BY <2>1, Constants DEF index, Clusters
<1>3. QED
  BY <1>1, <1>2 DEF Wanted

\* The page is read and written back without a change of the FAT as the driver sees it.
LEMMA PageSteps ==
  ASSUME TypeInv, FlushPage \/ LoadPage
  PROVE  DiskType' /\ View' = View /\ (LoadPage => fat' = fat) /\ (FlushPage => fat' = View)
<1>1. PICK D \in SUBSET FatIndices : page \in [ent : [D -> Entries], dirty : BOOLEAN]
  BY DEF TypeInv, DiskType, Pages
<1>2. DiskType /\ View \in [FatIndices -> Entries]
  BY ViewType DEF TypeInv
<1>3. CASE FlushPage
  <2>1. page' \in [ent : [D -> Entries], dirty : BOOLEAN] /\ page'.ent = page.ent /\ fat' = View
        /\ data' = data /\ i' = i
    BY <1>1, <1>3 DEF FlushPage
  <2>2. \A k \in DOMAIN page'.ent : page'.ent[k] = fat'[k]
    BY <1>1, <2>1 DEF View, Hit
  <2>3. DiskType'
    <3>1. page' \in Pages
      BY <2>1 DEF Pages
    <3>2. QED
      BY <1>2, <2>1, <2>2, <3>1 DEF DiskType
  <2>4. View' = View
    BY <1>1, <2>1 DEF View, Hit
  <2>5. ~LoadPage
    BY <1>3 DEF FlushPage, LoadPage
  <2>6. QED
    BY <2>1, <2>3, <2>4, <2>5
<1>4. CASE LoadPage
  <2> DEFINE E == Wanted .. Smaller(Wanted + PageEntries - 1, NumClusters)
  <2>1. Wanted \in Clusters
    BY <1>4, WantedIndex DEF LoadPage, Miss
  <2>2. E \in SUBSET FatIndices
    BY <2>1, Constants DEF Clusters, FatIndices, Smaller
  <2>3. page' = [ent |-> [k \in E |-> fat[k]], dirty |-> FALSE] /\ fat' = fat /\ data' = data /\ i' = i
    BY <1>4 DEF LoadPage, disk
  <2> HIDE DEF E
  <2>4. page' \in [ent : [E -> Entries], dirty : BOOLEAN] /\ ~page'.dirty
    BY <1>2, <2>2, <2>3 DEF DiskType
  <2>5. View' = fat /\ View = fat
    <3>1. View = fat
      BY <1>2, <1>4, ViewType DEF LoadPage
    <3>2. View' = [k \in FatIndices |-> fat[k]]
      BY <2>3 DEF View, Hit
    <3>3. QED
      BY <1>2, <3>1, <3>2 DEF DiskType
  <2>6. DiskType'
    BY <1>2, <2>2, <2>3, <2>4 DEF DiskType, Pages
  <2>7. ~FlushPage
    BY <1>4 DEF FlushPage, LoadPage
  <2>8. QED
    BY <2>3, <2>5, <2>6, <2>7
<1>5. QED
  BY <1>3, <1>4

-----------------------------------------------------------------------------
LEMMA SameDisk ==
  ASSUME TypeInv, UNCHANGED <<disk, page, i>>
  PROVE  DiskType'
BY DEF TypeInv, DiskType, disk

LEMMA Popped ==
  ASSUME TypeInv, Returns(pc) # {}
  PROVE  call.ret # <<>> /\ Tail(call.ret) \in Seq(PCs)
<1>1. call.ret \in Seq(PCs) /\ call.ret # <<>>
  BY DEF TypeInv, StackInv
<1>2. QED
  BY <1>1

\* What a step that moves the call on keeps.
FdsKept ==
  \/ fds' = fds
  \/ /\ fds' \in [Fds -> OpenFiles \cup {None}]
     /\ pc' = "return" \/ (fds[call.fd] # None => fds'[call.fd] # None)
Kept == /\ call' \in Calls /\ call'.op = call.op /\ call'.fd = call.fd /\ call'.name = call.name
        /\ FdsKept /\ scenario' = scenario
Unread == /\ call'.offset = call.offset /\ call'.off = call.off /\ pc' # "read"

LEMMA NotReading ==
  ASSUME TypeInv, pc \notin {"lookup", "find", "read_start", "read", "read_advance", "read_end", "return", "idle"}
  PROVE  call.op # "read"
BY DEF TypeInv, StackInv, OpsAt, PCs, Allocating, Attaching, Truncating, Reading, Writing, Creating

\* What an action that only moves the call on has to show.
LEMMA CallStep ==
  ASSUME TypeInv, Kept, ReadType' \/ call.op # "read" \/ Unread,
         DiskType', StackInv', pc \notin {"idle", "return"}, pc' # "idle"
  PROVE  TypeInv'
<1>1. fds' \in [Fds -> OpenFiles \cup {None}]
      /\ (pc' = "return" \/ (fds[call.fd] # None => fds'[call.fd] # None))
  BY DEF TypeInv, Kept, FdsKept
<1>2. ReadType'
  BY DEF TypeInv, CallType, Kept, ReadType, Unread
<1>3. QED
  BY <1>1, <1>2 DEF TypeInv, CallType, Kept

\* A step within a routine, a call of q that returns to l, and to l and then m.
Near(p, q) ==
  q \in PCs \ {"idle"} /\ Fits(p, q) /\ OpsAt(p) \subseteq OpsAt(q) /\ p \notin {"idle", "return"}
Calling(p, q, l) ==
  /\ q \in PCs \ {"idle"} /\ l \in PCs /\ l \in Returns(q) /\ Fits(p, l)
  /\ OpsAt(p) \subseteq OpsAt(q) \cap OpsAt(l) /\ p \notin {"idle", "return"}
CallingTwo(p, q, l, m) ==
  /\ q \in PCs \ {"idle"} /\ l \in PCs /\ m \in PCs /\ l \in Returns(q) /\ m \in Returns(l)
  /\ Fits(p, m) /\ OpsAt(p) \subseteq OpsAt(q) \cap OpsAt(l) \cap OpsAt(m) /\ p \notin {"idle", "return"}

LEMMA NearTable ==
  /\ Near("lookup", "lookup") /\ Near("slot", "slot") /\ Near("slot", "dirent") /\ Near("slot", "mark")
  /\ Near("mark", "dirent") /\ Near("dir_grown", "dirent") /\ Near("alloc", "scan") /\ Near("scan", "scan")
  /\ Near("scan", "zero") /\ Near("attach", "attach_end") /\ Near("free", "free")
  /\ Near("truncate_start", "truncate") /\ Near("truncate", "truncate") /\ Near("truncate", "truncate_end")
  /\ Near("truncate_grown", "truncate") /\ Near("find", "find")
  /\ Near("write_start", "find") /\ Near("read_start", "find") /\ Near("find_grown", "find")
  /\ Near("write", "advance") /\ Near("write", "write_end")
  /\ Near("advance", "write") /\ Near("write_grown", "write") /\ Near("read", "read_advance")
  /\ Near("read_advance", "read")
  /\ Near("create", "slot") /\ Near("padded", "pad") /\ Near("pad_end", "lseek_end") /\ Near("flush", "closed")
  /\ \A p \in {"create", "open_truncated", "open_failed", "opened", "read_end", "fs_write_end", "padded",
              "lseek_end", "closed"} : Near(p, "return")
<1>1. Near("lookup", "lookup") /\ Near("slot", "slot") /\ Near("slot", "dirent") /\ Near("slot", "mark")
  BY DEF Near, Fits, Returns, OpsAt, Allocating, Attaching, Truncating, Reading, Writing, Creating, PCs, Ops
<1>2. Near("mark", "dirent") /\ Near("dir_grown", "dirent") /\ Near("alloc", "scan") /\ Near("scan", "scan")
  BY DEF Near, Fits, Returns, OpsAt, Allocating, Attaching, Truncating, Reading, Writing, Creating, PCs, Ops
<1>3. Near("scan", "zero") /\ Near("attach", "attach_end") /\ Near("free", "free")
  BY DEF Near, Fits, Returns, OpsAt, Allocating, Attaching, Truncating, Reading, Writing, Creating, PCs, Ops
<1>4. Near("truncate_start", "truncate") /\ Near("truncate", "truncate") /\ Near("truncate", "truncate_end")
  BY DEF Near, Fits, Returns, OpsAt, Allocating, Attaching, Truncating, Reading, Writing, Creating, PCs, Ops
<1>5. Near("truncate_grown", "truncate") /\ Near("find", "find")
      /\ Near("write_start", "find") /\ Near("read_start", "find") /\ Near("find_grown", "find")
  BY DEF Near, Fits, Returns, OpsAt, Allocating, Attaching, Truncating, Reading, Writing, Creating, PCs, Ops
<1>6. Near("write", "advance") /\ Near("write", "write_end")
  BY DEF Near, Fits, Returns, OpsAt, Allocating, Attaching, Truncating, Reading, Writing, Creating, PCs, Ops
<1>7. Near("advance", "write") /\ Near("write_grown", "write") /\ Near("read", "read_advance")
  BY DEF Near, Fits, Returns, OpsAt, Allocating, Attaching, Truncating, Reading, Writing, Creating, PCs, Ops
<1>8. Near("read_advance", "read")
  BY DEF Near, Fits, Returns, OpsAt, Allocating, Attaching, Truncating, Reading, Writing, Creating, PCs, Ops
<1>9. Near("create", "slot") /\ Near("padded", "pad") /\ Near("pad_end", "lseek_end") /\ Near("flush", "closed")
  BY DEF Near, Fits, Returns, OpsAt, Allocating, Attaching, Truncating, Reading, Writing, Creating, PCs, Ops
<1>10. \A p \in {"create", "open_truncated", "open_failed", "opened", "read_end", "fs_write_end", "padded",
              "lseek_end", "closed"} : Near(p, "return")
  BY DEF Near, Fits, Returns, OpsAt, Allocating, Attaching, Truncating, Reading, Writing, Creating, PCs, Ops
<1> QED
  BY <1>1, <1>2, <1>3, <1>4, <1>5, <1>6, <1>7, <1>8, <1>9, <1>10

LEMMA CallingTable ==
  /\ Calling("dir_grown", "free", "open_failed") /\ Calling("truncate", "free", "truncate_end")
  /\ Calling("truncate_end", "lookup", "set_attr") /\ Calling("write_extended", "lookup", "write_start")
  /\ Calling("open_w", "alloc", "create") /\ Calling("open_truncated", "lookup", "opened")
  /\ Calling("pad", "lookup", "pad_end")
  /\ CallingTwo("slot", "alloc", "attach", "dir_grown")
  /\ CallingTwo("truncate", "alloc", "attach", "truncate_grown")
  /\ CallingTwo("advance", "alloc", "attach", "write_grown")
  /\ CallingTwo("write", "lookup", "set_attr", "write_end")
  /\ CallingTwo("write_start", "lookup", "truncate_start", "write_extended")
  /\ \A p \in {"open_w", "dirent"} : CallingTwo(p, "lookup", "truncate_start", "open_truncated")
  /\ CallingTwo("pad", "lookup", "write_start", "padded")
<1>1. Calling("dir_grown", "free", "open_failed") /\ Calling("truncate", "free", "truncate_end")
  BY DEF Calling, CallingTwo, Fits, Returns, OpsAt, Allocating, Attaching, Truncating, Reading, Writing, Creating, PCs, Ops
<1>2. Calling("truncate_end", "lookup", "set_attr") /\ Calling("write_extended", "lookup", "write_start")
  BY DEF Calling, CallingTwo, Fits, Returns, OpsAt, Allocating, Attaching, Truncating, Reading, Writing, Creating, PCs, Ops
<1>3. Calling("open_w", "alloc", "create") /\ Calling("open_truncated", "lookup", "opened")
  BY DEF Calling, CallingTwo, Fits, Returns, OpsAt, Allocating, Attaching, Truncating, Reading, Writing, Creating, PCs, Ops
<1>4. Calling("pad", "lookup", "pad_end")
  BY DEF Calling, CallingTwo, Fits, Returns, OpsAt, Allocating, Attaching, Truncating, Reading, Writing, Creating, PCs, Ops
<1>5. CallingTwo("slot", "alloc", "attach", "dir_grown")
  BY DEF Calling, CallingTwo, Fits, Returns, OpsAt, Allocating, Attaching, Truncating, Reading, Writing, Creating, PCs, Ops
<1>6. CallingTwo("truncate", "alloc", "attach", "truncate_grown")
  BY DEF Calling, CallingTwo, Fits, Returns, OpsAt, Allocating, Attaching, Truncating, Reading, Writing, Creating, PCs, Ops
<1>7. CallingTwo("advance", "alloc", "attach", "write_grown")
  BY DEF Calling, CallingTwo, Fits, Returns, OpsAt, Allocating, Attaching, Truncating, Reading, Writing, Creating, PCs, Ops
<1>8. CallingTwo("write", "lookup", "set_attr", "write_end")
  BY DEF Calling, CallingTwo, Fits, Returns, OpsAt, Allocating, Attaching, Truncating, Reading, Writing, Creating, PCs, Ops
<1>9. CallingTwo("write_start", "lookup", "truncate_start", "write_extended")
  BY DEF Calling, CallingTwo, Fits, Returns, OpsAt, Allocating, Attaching, Truncating, Reading, Writing, Creating, PCs, Ops
<1>10. \A p \in {"open_w", "dirent"} : CallingTwo(p, "lookup", "truncate_start", "open_truncated")
  BY DEF Calling, CallingTwo, Fits, Returns, OpsAt, Allocating, Attaching, Truncating, Reading, Writing, Creating, PCs, Ops
<1>11. CallingTwo("pad", "lookup", "write_start", "padded")
  BY DEF Calling, CallingTwo, Fits, Returns, OpsAt, Allocating, Attaching, Truncating, Reading, Writing, Creating, PCs, Ops
<1> QED
  BY <1>1, <1>2, <1>3, <1>4, <1>5, <1>6, <1>7, <1>8, <1>9, <1>10, <1>11

LEMMA GoType ==
  ASSUME TypeInv, Kept, call'.ret = call.ret, Near(pc, pc'), DiskType',
         ReadType' \/ call.op # "read" \/ Unread
  PROVE  TypeInv'
BY GoStack, CallStep, TopFits DEF TypeInv, Kept, Near, StackInv

LEMMA Returning ==
  /\ Returns("scan") # {} /\ Returns("zero") # {} /\ Returns("attach") # {} /\ Returns("attach_end") # {}
  /\ Returns("free") # {} /\ Returns("truncate_start") # {} /\ Returns("truncate") # {}
  /\ Returns("truncate_grown") # {} /\ Returns("set_attr") # {} /\ Returns("write_start") # {}
  /\ Returns("write_extended") # {} /\ Returns("find_grown") # {} /\ Returns("write_grown") # {}
  /\ Returns("write_end") # {} /\ Returns("read_start") # {} /\ Returns("read") # {}
  /\ Returns("read_advance") # {}
<1>1. /\ Returns("scan") # {} /\ Returns("zero") # {} /\ Returns("attach") # {} /\ Returns("attach_end") # {}
      /\ Returns("free") # {} /\ Returns("set_attr") # {}
  BY DEF Returns, Allocating, Attaching, Truncating, Reading, Writing
<1>2. /\ Returns("truncate_start") # {} /\ Returns("truncate") # {} /\ Returns("truncate_grown") # {}
  BY DEF Returns, Allocating, Attaching, Truncating, Reading, Writing
<1>3. /\ Returns("write_start") # {} /\ Returns("write_extended") # {} /\ Returns("find_grown") # {}
      /\ Returns("write_grown") # {} /\ Returns("write_end") # {}
  BY DEF Returns, Allocating, Attaching, Truncating, Reading, Writing
<1>4. Returns("read_start") # {} /\ Returns("read") # {} /\ Returns("read_advance") # {}
  BY DEF Returns, Allocating, Attaching, Truncating, Reading, Writing
<1>5. QED
  BY <1>1, <1>2, <1>3, <1>4

LEMMA NoReturnToIdle ==
  ASSUME NEW p, "idle" \in Returns(p)
  PROVE  FALSE
BY DEF Returns, Allocating, Attaching, Truncating, Reading, Writing, Creating

LEMMA BackType ==
  ASSUME TypeInv, Returns(pc) # {}, pc' = Head(call.ret), Kept,
         call'.ret = Tail(call.ret), DiskType',
         ReadType' \/ call.op # "read" \/ Unread
  PROVE  TypeInv'
BY BackStack, CallStep, NoReturnToIdle, ReturnsTable DEF TypeInv, Kept

LEMMA SubType ==
  ASSUME TypeInv, NEW l, Calling(pc, pc', l), Kept, call'.ret = <<l>> \o call.ret,
         DiskType', ReadType' \/ call.op # "read" \/ Unread
  PROVE  TypeInv'
<1>1. call.op \in OpsAt(pc)
  BY DEF TypeInv, StackInv
<1>2. QED
  BY <1>1, SubStack, TopFits, CallStep DEF TypeInv, Kept, Calling

LEMMA SubTwoType ==
  ASSUME TypeInv, NEW l, NEW m, CallingTwo(pc, pc', l, m), Kept, call'.ret = <<l, m>> \o call.ret,
         DiskType', ReadType' \/ call.op # "read" \/ Unread
  PROVE  TypeInv'
<1>1. call.op \in OpsAt(pc)
  BY DEF TypeInv, StackInv
<1>2. QED
  BY <1>1, SubTwoStack, TopFits, CallStep DEF TypeInv, Kept, CallingTwo

\* The stops of a scan are in the slots.
LEMMA LeastStop ==
  ASSUME Stops # {}
  PROVE  Least(Stops) \in Slots /\ Least(Stops) \in Nat /\ Least(Stops) \in Stops
<1>1. Stops \in SUBSET Nat /\ Stops \subseteq Slots
  BY Constants DEF Stops, Slots
<1>2. Least(Stops) \in Stops
  BY <1>1, LeastIn
<1>3. QED
  BY <1>1, <1>2

\* What the page says of an index it has.
LEMMA NextCluster ==
  ASSUME DiskType, NEW c, Hit(c)
  PROVE  /\ c \in FatIndices /\ page.ent[c] = View[c] /\ page.ent[c] \in Entries
         /\ IsData(page.ent[c]) => page.ent[c] \in Clusters
BY ViewType, DataEntry

LEMMA LookupType ==
  ASSUME TypeInv, Lookup
  PROVE  TypeInv'
<1> DEFINE here == call.dir.cluster
           u == data[here][Least(Stops)]
<1>1. /\ call \in Calls /\ StackInv /\ DiskType /\ here \in Clusters /\ pc = "lookup"
      /\ fds' = fds /\ scenario' = scenario /\ DiskType'
  BY SameDisk DEF TypeInv, CallType, Calls, Lookup, told, Spots
<1>2. PICK rest \in Seq(PCs) : rest = Tail(call.ret)
  BY <1>1, Popped, ReturnsTable
<1>3. CASE Stops # {}
  <2>1. u \in UnitValues /\ (~IsEnd(u) => u \in Dirents)
    BY <1>1, <1>3, LeastStop DEF DiskType, Stops, Named, IsEntry, UnitValues
  <2>2. PICK at \in Spots : at = [cluster |-> here, entry |-> Least(Stops)]
    BY <1>1, <1>3, LeastStop DEF Spots
  <2>3. CASE IsEnd(u)
    <3>1. Back(FALSE, [dir |-> at])
      BY <1>3, <2>2, <2>3 DEF Lookup
    <3>2. pc' = Head(call.ret) /\ Kept /\ Unread /\ call'.ret = Tail(call.ret)
      BY <1>1, <1>2, <3>1, BackStack, ReturnsTable DEF Back, Having, NoLocals, Calls, Kept, FdsKept, Unread
    <3>3. QED
      BY <1>1, <3>2, BackType, ReturnsTable
  <2>4. CASE ~IsEnd(u)
    <3>1. PICK a \in Attributes : a = [first |-> u.first, size |-> u.size]
      BY <2>1, <2>4 DEF Dirents, Attributes
    <3>2. Back(TRUE, [dir |-> at, found |-> a])
      BY <1>3, <2>2, <2>4, <3>1 DEF Lookup
    <3>3. pc' = Head(call.ret) /\ Kept /\ Unread /\ call'.ret = Tail(call.ret)
      BY <1>1, <1>2, <3>2, BackStack, ReturnsTable DEF Back, Having, NoLocals, Calls, Kept, FdsKept, Unread
    <3>4. QED
      BY <1>1, <3>3, BackType, ReturnsTable
  <2>5. QED
    BY <2>3, <2>4
<1>4. CASE Stops = {}
  <2>1. Hit(here) /\ page.ent[here] \in Entries /\ (IsData(page.ent[here]) => page.ent[here] \in Clusters)
    BY <1>1, <1>4, NextCluster DEF Lookup
  <2>2. CASE IsData(page.ent[here])
    <3>1. PICK at \in Spots : at = [cluster |-> page.ent[here], entry |-> 0]
      BY <2>1, <2>2 DEF Spots
    <3>2. Go("lookup", [dir |-> at])
      BY <1>4, <2>2, <3>1 DEF Lookup
    <3>3. pc' = "lookup" /\ Kept /\ Unread /\ call'.ret = call.ret
      BY <1>1, <3>2 DEF Go, Having, NoLocals, Calls, Kept, FdsKept, Unread
    <3>4. QED
      BY <1>1, <3>3, GoType, NearTable
  <2>3. CASE ~IsData(page.ent[here])
    <3>1. PICK at \in Spots : at = [cluster |-> here, entry |-> Units]
      BY <1>1, Constants DEF Spots
    <3>2. Back(FALSE, [dir |-> at])
      BY <1>4, <2>3, <3>1 DEF Lookup
    <3>3. pc' = Head(call.ret) /\ Kept /\ Unread /\ call'.ret = Tail(call.ret)
      BY <1>1, <1>2, <3>2, BackStack, ReturnsTable DEF Back, Having, NoLocals, Calls, Kept, FdsKept, Unread
    <3>4. QED
      BY <1>1, <3>3, BackType, ReturnsTable
  <2>4. QED
    BY <2>2, <2>3
<1>5. QED
  BY <1>3, <1>4

LEMMA FindSlotType ==
  ASSUME TypeInv, FindSlot
  PROVE  TypeInv'
<1> DEFINE here == call.dir.cluster
<1>1. /\ call \in Calls /\ StackInv /\ DiskType /\ here \in Clusters /\ pc = "slot"
      /\ fds' = fds /\ scenario' = scenario /\ DiskType'
  BY SameDisk DEF TypeInv, CallType, Calls, FindSlot, told, Spots
<1>2. call.op = "w" /\ Returns(pc) = {}
  BY <1>1, OpsTable, ReturnsTable, LabelSets DEF StackInv
<1>3. CASE Stops # {}
  <2>1. PICK at \in Spots : at = [cluster |-> here, entry |-> Least(Stops)]
    BY <1>1, <1>3, LeastStop DEF Spots
  <2>2. PICK p \in {"dirent", "mark"} : Go(p, [dir |-> at])
    BY <1>3, <2>1 DEF FindSlot
  <2>3. pc' = p /\ Kept /\ call'.ret = call.ret
    BY <1>1, <2>2 DEF Go, Having, NoLocals, Calls, Kept, FdsKept
  <2>4. QED
    BY <1>1, <1>2, <2>3, GoType, NearTable
<1>4. CASE Stops = {}
  <2>1. Hit(here) /\ page.ent[here] \in Entries /\ (IsData(page.ent[here]) => page.ent[here] \in Clusters)
    BY <1>1, <1>4, NextCluster DEF FindSlot
  <2>2. CASE IsData(page.ent[here])
    <3>1. PICK at \in Spots : at = [cluster |-> page.ent[here], entry |-> 0]
      BY <2>1, <2>2 DEF Spots
    <3>2. Go("slot", [dir |-> at])
      BY <1>4, <2>2, <3>1 DEF FindSlot
    <3>3. pc' = "slot" /\ Kept /\ call'.ret = call.ret
      BY <1>1, <3>2 DEF Go, Having, NoLocals, Calls, Kept, FdsKept
    <3>4. QED
      BY <1>1, <1>2, <3>3, GoType, NearTable
  <2>3. CASE ~IsData(page.ent[here])
    <3>1. Sub("alloc", <<"attach", "dir_grown">>, [cluster |-> here, zero |-> TRUE])
      BY <1>4, <2>3 DEF FindSlot, Grow
    <3>2. PICK rest \in Seq(PCs) : rest = <<"attach", "dir_grown">> \o call.ret
      BY <1>1, LabelSets, PushTwo DEF StackInv
    <3>3. pc' = "alloc" /\ Kept /\ call'.ret = <<"attach", "dir_grown">> \o call.ret
      BY <1>1, <3>1, <3>2 DEF Sub, Having, NoLocals, Calls, Kept, FdsKept
    <3>4. QED
      BY <1>1, <1>2, <3>3, SubTwoType, CallingTable
  <2>4. QED
    BY <2>2, <2>3
<1>5. QED
  BY <1>3, <1>4

\* A step at p whose entry of the page was hit writes it.
LEMMA MarkEndType ==
  ASSUME TypeInv, MarkEnd
  PROVE  TypeInv'
<1>1. /\ call \in Calls /\ StackInv /\ DiskType /\ pc = "mark" /\ fds' = fds /\ scenario' = scenario
  BY DEF TypeInv, CallType, MarkEnd, told
<1>2. DiskType'
  <2>1. StoreUnit(Place(call.dir.cluster, call.dir.entry + 1), EndMark)
        /\ fat' = fat /\ page' = page /\ i' = i
    BY DEF MarkEnd
  <2>2. data' \in [Clusters -> [Slots -> UnitValues]]
    BY <1>1, <2>1, StoreType DEF DiskType, Place, UnitValues
  <2>3. QED
    BY <1>1, <2>1, <2>2 DEF DiskType
<1>3. Go("dirent", NoLocals)
  BY DEF MarkEnd
<1>4. pc' = "dirent" /\ Kept /\ call'.ret = call.ret
  BY <1>1, <1>3 DEF Go, Having, NoLocals, Calls, Kept, FdsKept
<1>5. QED
  BY <1>1, <1>2, <1>4, GoType, NearTable, NotReading

LEMMA DirGrownType ==
  ASSUME TypeInv, DirGrown
  PROVE  TypeInv'
<1>1. /\ call \in Calls /\ StackInv /\ DiskType /\ pc = "dir_grown" /\ fds' = fds /\ scenario' = scenario
  BY DEF TypeInv, CallType, DirGrown, told
<1>2. call.op = "w" /\ Returns(pc) = {} /\ pc # "idle"
  BY <1>1, OpsTable, ReturnsTable, LabelSets DEF StackInv
<1>3. CASE call.ok
  <2>1. DiskType'
    <3>1. StoreUnit(Place(call.cluster, 0), EndMark) /\ fat' = fat /\ page' = page /\ i' = i
      BY <1>3 DEF DirGrown
    <3>2. data' \in [Clusters -> [Slots -> UnitValues]]
      BY <1>1, <3>1, StoreType DEF DiskType, Place, UnitValues
    <3>3. QED
      BY <1>1, <3>1, <3>2 DEF DiskType
  <2>2. PICK at \in Spots : at = [call.dir EXCEPT !.entry = Units]
    BY <1>1, Constants DEF Calls, Spots
  <2>3. Go("dirent", [dir |-> at])
    BY <1>3, <2>2 DEF DirGrown
  <2>4. pc' = "dirent" /\ Kept /\ call'.ret = call.ret
    BY <1>1, <2>3 DEF Go, Having, NoLocals, Calls, Kept, FdsKept
  <2>5. QED
    BY <1>1, <1>2, <2>1, <2>4, GoType, NearTable
<1>4. CASE ~call.ok
  <2>1. DiskType'
    BY <1>4, SameDisk DEF DirGrown, disk
  <2>2. PICK c \in Clusters : c = call.attr.first
    BY <1>1 DEF Calls, Attributes
  <2>3. Sub("free", <<"open_failed">>, [victim |-> c])
    BY <1>4, <2>2 DEF DirGrown
  <2>4. PICK rest \in Seq(PCs) : rest = <<"open_failed">> \o call.ret
    BY <1>1, LabelSets, PushOne DEF StackInv
  <2>5. pc' = "free" /\ Kept /\ call'.ret = <<"open_failed">> \o call.ret
    BY <1>1, <2>3, <2>4 DEF Sub, Having, NoLocals, Calls, Kept, FdsKept
  <2>6. QED
    BY <1>1, <1>2, <2>1, <2>5, SubType, CallingTable
<1>5. QED
  BY <1>3, <1>4

\* What the proof of every action begins with.
LEMMA Here ==
  ASSUME TypeInv
  PROVE  /\ call \in Calls /\ StackInv /\ DiskType
         /\ call.ret # <<>> => Tail(call.ret) \in Seq(PCs)
         /\ Returns(pc) # {} => Tail(call.ret) \in Seq(PCs)
         /\ i \in Nat /\ i >= 2
<1>1. call \in Calls /\ StackInv /\ DiskType /\ call.ret \in Seq(PCs)
  BY DEF TypeInv, CallType, StackInv
<1>2. call.ret # <<>> => Tail(call.ret) \in Seq(PCs)
  BY <1>1
<1>3. i \in Nat /\ i >= 2
  <2>1. i \in (2 .. NumClusters) \cup Indices /\ NumClusters \in Nat /\ \A k \in Indices : k \in Nat \ {0, 1}
    BY <1>1, Constants DEF DiskType
  <2>2. QED
    BY <2>1
<1>4. QED
  BY <1>1, <1>2, <1>3, Popped

\* Labels on the stack.
LEMMA Pushed ==
  ASSUME TypeInv
  PROVE  /\ \A l \in PCs : <<l>> \o call.ret \in Seq(PCs)
         /\ \A l, m \in PCs : <<l, m>> \o call.ret \in Seq(PCs)
<1>1. call.ret \in Seq(PCs)
  BY DEF TypeInv, StackInv
<1>2. QED
  BY <1>1, PushOne, PushTwo

LEMMA AllocType ==
  ASSUME TypeInv, Alloc
  PROVE  TypeInv'
<1>1. call \in Calls /\ pc = "alloc" /\ fds' = fds /\ scenario' = scenario /\ DiskType' /\ i \in Nat
  BY SameDisk, Here DEF Alloc, told
<1>2. pc' = "scan" /\ Kept /\ call'.ret = call.ret
  BY <1>1 DEF Alloc, Go, Having, NoLocals, Calls, Kept, FdsKept
<1>3. QED
  BY <1>1, <1>2, GoType, NearTable, NotReading

\* The index is in the FAT.
LEMMA IndexType ==
  ASSUME TypeInv
  PROVE  index \in Clusters /\ index >= 2 /\ index < NumClusters /\ wrapped \in BOOLEAN
<1>1. call \in Calls /\ i \in Nat /\ i >= 2
  BY Here
<1>2. QED
  BY <1>1, Constants DEF index, wrapped, Clusters, Calls

LEMMA ScanType ==
  ASSUME TypeInv, Scan
  PROVE  TypeInv'
<1>1. /\ call \in Calls /\ pc = "scan" /\ fds' = fds /\ scenario' = scenario /\ fat' = fat /\ data' = data
      /\ DiskType /\ index \in Clusters /\ index >= 2 /\ index < NumClusters /\ call.op # "read"
      /\ Returns(pc) # {}
  BY Here, IndexType, NotReading, Returning DEF Scan, told, disk
<1>2. PICK rest \in Seq(PCs) : rest = Tail(call.ret)
  BY <1>1, Here
<1>3. PICK k \in Clusters : k = index
  BY <1>1
<1>4. index \in 2 .. NumClusters /\ index + 1 \in 2 .. NumClusters
  BY <1>1, Constants DEF Clusters
<1>5. CASE Exhausted
  <2>1. Back(FALSE, NoLocals) /\ page' = page /\ i' = index
    BY <1>5 DEF Scan
  <2>2. DiskType'
    BY <1>1, <1>4, <2>1 DEF DiskType
  <2>3. pc' = Head(call.ret) /\ Kept /\ call'.ret = Tail(call.ret)
    BY <1>1, <1>2, <2>1 DEF Back, Having, NoLocals, Calls, Kept, FdsKept
  <2>4. QED
    BY <1>1, <2>2, <2>3, BackType
<1>6. CASE ~Exhausted /\ page.ent[index] = AVAILABLE
  <2>1. WriteFat(index, END) /\ i' = index /\ Hit(index)
    BY <1>6 DEF Scan
  <2>2. DiskType'
    BY <1>1, <1>4, <2>1, WriteFatType, Constants DEF END, Entries
  <2>3. CASE call.zero
    <3>1. pc' = "zero" /\ Kept /\ call'.ret = call.ret
      <4>1. Go("zero", [new |-> k])
        BY <1>3, <1>6, <2>3 DEF Scan
      <4>2. QED
        BY <1>1, <4>1 DEF Go, Having, NoLocals, Calls, Kept, FdsKept
    <3>2. QED
      BY <1>1, <2>2, <3>1, GoType, NearTable
  <2>4. CASE ~call.zero
    <3>1. pc' = Head(call.ret) /\ Kept /\ call'.ret = Tail(call.ret)
      <4>1. Back(TRUE, [new |-> k])
        BY <1>3, <1>6, <2>4 DEF Scan
      <4>2. QED
        BY <1>1, <1>2, <4>1 DEF Back, Having, NoLocals, Calls, Kept, FdsKept
    <3>2. QED
      BY <1>1, <2>2, <3>1, BackType
  <2>5. QED
    BY <2>3, <2>4
<1>7. CASE ~Exhausted /\ page.ent[index] # AVAILABLE
  <2>1. i' = index + 1 /\ page' = page
    BY <1>7 DEF Scan
  <2>2. DiskType'
    BY <1>1, <1>4, <2>1 DEF DiskType
  <2>3. PICK w \in BOOLEAN : w = wrapped
    BY IndexType
  <2>4. Go("scan", [wrapped |-> w])
    BY <1>7, <2>3 DEF Scan
  <2>5. pc' = "scan" /\ Kept /\ call'.ret = call.ret
    BY <1>1, <2>4 DEF Go, Having, NoLocals, Calls, Kept, FdsKept
  <2>6. QED
    BY <1>1, <2>2, <2>5, GoType, NearTable
<1>8. QED
  BY <1>5, <1>6, <1>7

LEMMA ZeroClusterType ==
  ASSUME TypeInv, ZeroCluster
  PROVE  TypeInv'
<1>1. /\ call \in Calls /\ pc = "zero" /\ fds' = fds /\ scenario' = scenario /\ call.op # "read"
      /\ DiskType /\ fat' = fat /\ page' = page /\ i' = i /\ Returns(pc) # {}
  BY Here, NotReading, Returning DEF ZeroCluster, told
<1>2. PICK rest \in Seq(PCs) : rest = Tail(call.ret)
  BY <1>1, Here
<1>3. DiskType'
  <2>1. [e \in Slots |-> Zero] \in [Slots -> UnitValues]
    BY DEF UnitValues
  <2>2. data' \in [Clusters -> [Slots -> UnitValues]]
    BY <1>1, <2>1 DEF ZeroCluster, DiskType
  <2>3. QED
    BY <1>1, <2>2 DEF DiskType
<1>4. Back(TRUE, NoLocals)
  BY DEF ZeroCluster
<1>5. pc' = Head(call.ret) /\ Kept /\ call'.ret = Tail(call.ret)
  BY <1>1, <1>2, <1>4 DEF Back, Having, NoLocals, Calls, Kept, FdsKept
<1>6. QED
  BY <1>1, <1>3, <1>5, BackType

LEMMA AttachType ==
  ASSUME TypeInv, Attach
  PROVE  TypeInv'
<1>1. /\ call \in Calls /\ pc = "attach" /\ fds' = fds /\ scenario' = scenario /\ call.op # "read"
      /\ DiskType /\ fat' = fat /\ data' = data /\ i' = i /\ Returns(pc) # {}
  BY Here, NotReading, Returning DEF Attach, told, disk
<1>2. PICK rest \in Seq(PCs) : rest = Tail(call.ret)
  BY <1>1, Here
<1>3. CASE Back(FALSE, NoLocals) /\ page' = page
  <2>1. DiskType'
    BY <1>1, <1>3 DEF DiskType
  <2>2. pc' = Head(call.ret) /\ Kept /\ call'.ret = Tail(call.ret)
    BY <1>1, <1>2, <1>3 DEF Back, Having, NoLocals, Calls, Kept, FdsKept
  <2>3. QED
    BY <1>1, <2>1, <2>2, BackType
<1>4. CASE Hit(call.cluster) /\ WriteFat(call.cluster, call.new) /\ Go("attach_end", NoLocals)
  <2>1. call.new \in Entries
    BY <1>1, Constants DEF Calls, Clusters, Entries
  <2>2. i' \in (2 .. NumClusters) \cup Indices
    BY <1>1 DEF DiskType
  <2>3. DiskType'
    BY <1>1, <1>4, <2>1, <2>2, WriteFatType
  <2>4. pc' = "attach_end" /\ Kept /\ call'.ret = call.ret
    BY <1>1, <1>4 DEF Go, Having, NoLocals, Calls, Kept, FdsKept
  <2>5. QED
    BY <1>1, <2>3, <2>4, GoType, NearTable
<1>5. QED
  BY <1>3, <1>4 DEF Attach

LEMMA AttachEndType ==
  ASSUME TypeInv, AttachEnd
  PROVE  TypeInv'
<1>1. /\ call \in Calls /\ pc = "attach_end" /\ fds' = fds /\ scenario' = scenario /\ call.op # "read"
      /\ DiskType /\ fat' = fat /\ data' = data /\ i' = i /\ Returns(pc) # {}
  BY Here, NotReading, Returning DEF AttachEnd, told, disk
<1>2. PICK rest \in Seq(PCs) : rest = Tail(call.ret)
  BY <1>1, Here
<1>3. DiskType'
  <2>1. END \in Entries /\ i' \in (2 .. NumClusters) \cup Indices /\ Hit(call.new) /\ WriteFat(call.new, END)
    BY <1>1, Constants DEF DiskType, END, Entries, AttachEnd
  <2>2. QED
    BY <1>1, <2>1, WriteFatType
<1>4. PICK c \in Clusters : c = call.new
  BY <1>1 DEF Calls
<1>5. pc' = Head(call.ret) /\ Kept /\ call'.ret = Tail(call.ret)
  <2>1. Back(TRUE, [cluster |-> c])
    BY <1>4 DEF AttachEnd
  <2>2. QED
    BY <1>1, <1>2, <2>1 DEF Back, Having, NoLocals, Calls, Kept, FdsKept
<1>6. QED
  BY <1>1, <1>3, <1>5, BackType

LEMMA FreeChainType ==
  ASSUME TypeInv, FreeChain
  PROVE  TypeInv'
<1>1. /\ call \in Calls /\ pc = "free" /\ fds' = fds /\ scenario' = scenario /\ call.op # "read"
      /\ DiskType /\ fat' = fat /\ data' = data /\ i' = i /\ Returns(pc) # {}
      /\ Hit(call.victim)
  BY Here, NotReading, Returning DEF FreeChain, told, disk
<1>2. PICK rest \in Seq(PCs) : rest = Tail(call.ret)
  BY <1>1, Here
<1>3. DiskType'
  <2>1. AVAILABLE \in Entries /\ i' \in (2 .. NumClusters) \cup Indices /\ WriteFat(call.victim, AVAILABLE)
    BY <1>1, Constants DEF DiskType, AVAILABLE, Entries, FreeChain
  <2>2. QED
    BY <1>1, <2>1, WriteFatType
<1>4. CASE IsData(page.ent[call.victim])
  <2>1. PICK c \in Clusters : c = page.ent[call.victim]
    BY <1>1, <1>4, NextCluster
  <2>2. Go("free", [victim |-> c])
    BY <1>4, <2>1 DEF FreeChain
  <2>3. pc' = "free" /\ Kept /\ call'.ret = call.ret
    BY <1>1, <2>2 DEF Go, Having, NoLocals, Calls, Kept, FdsKept
  <2>4. QED
    BY <1>1, <1>3, <2>3, GoType, NearTable
<1>5. CASE ~IsData(page.ent[call.victim])
  <2>1. Back(TRUE, NoLocals)
    BY <1>5 DEF FreeChain
  <2>2. pc' = Head(call.ret) /\ Kept /\ call'.ret = Tail(call.ret)
    BY <1>1, <1>2, <2>1 DEF Back, Having, NoLocals, Calls, Kept, FdsKept
  <2>3. QED
    BY <1>1, <1>3, <2>2, BackType
<1>6. QED
  BY <1>4, <1>5

LEMMA TruncateStartType ==
  ASSUME TypeInv, TruncateStart
  PROVE  TypeInv'
<1>1. /\ call \in Calls /\ pc = "truncate_start" /\ fds' = fds /\ scenario' = scenario /\ call.op # "read"
      /\ DiskType' /\ Returns(pc) # {}
  BY Here, NotReading, SameDisk, Returning DEF TruncateStart, told
<1>2. CASE call.ok
  <2>1. PICK a \in Attributes : a = call.found
    BY <1>1 DEF Calls
  <2>2. PICK c \in Clusters : c = call.found.first
    BY <1>1 DEF Calls, Attributes
  <2>3. PICK one \in Int : one = 1
    OBVIOUS
  <2>4. Go("truncate", [cluster |-> c, enc |-> one, attr |-> a])
    BY <1>2, <2>1, <2>2, <2>3 DEF TruncateStart
  <2>5. pc' = "truncate" /\ Kept /\ call'.ret = call.ret
    BY <1>1, <2>4 DEF Go, Having, NoLocals, Calls, Kept, FdsKept
  <2>6. QED
    BY <1>1, <2>5, GoType, NearTable
<1>3. CASE ~call.ok
  <2>1. PICK rest \in Seq(PCs) : rest = Tail(call.ret)
    BY <1>1, Here
  <2>2. Back(FALSE, NoLocals)
    BY <1>3 DEF TruncateStart
  <2>3. pc' = Head(call.ret) /\ Kept /\ call'.ret = Tail(call.ret)
    BY <1>1, <2>1, <2>2 DEF Back, Having, NoLocals, Calls, Kept, FdsKept
  <2>4. QED
    BY <1>1, <2>3, BackType
<1>4. QED
  BY <1>2, <1>3

\* A cluster is to be allocated and attached.
LEMMA GrowType ==
  ASSUME TypeInv, NEW back, NEW z \in BOOLEAN, Grow(back, [zero |-> z]), CallingTwo(pc, "alloc", "attach", back),
         fds' = fds, scenario' = scenario, DiskType', call.op # "read"
  PROVE  TypeInv'
<1>1. call \in Calls /\ back \in PCs
  BY Here DEF CallingTwo
<1>2. PICK rest \in Seq(PCs) : rest = <<"attach", back>> \o call.ret
  BY <1>1, Pushed, LabelSets DEF Attaching
<1>3. Sub("alloc", <<"attach", back>>, [zero |-> z])
  BY DEF Grow
<1>4. pc' = "alloc" /\ Kept /\ call'.ret = <<"attach", back>> \o call.ret
  BY <1>1, <1>2, <1>3 DEF Sub, Having, NoLocals, Calls, Kept, FdsKept
<1>5. QED
  BY <1>4, SubTwoType

LEMMA TruncateWalkType ==
  ASSUME TypeInv, TruncateWalk
  PROVE  TypeInv'
<1>1. /\ call \in Calls /\ pc = "truncate" /\ fds' = fds /\ scenario' = scenario /\ call.op # "read"
      /\ DiskType' /\ Returns(pc) # {} /\ DiskType
  BY Here, NotReading, SameDisk, Returning DEF TruncateWalk, told
<1>2. PICK next \in Entries : next = page.ent[call.cluster] /\ (IsData(next) => next \in Clusters)
  BY <1>1, NextCluster DEF TruncateWalk
<1>3. CASE call.enc * Units < call.goal /\ IsData(next)
  <2>1. PICK c \in Clusters : c = next
    BY <1>2, <1>3
  <2>2. PICK m \in Int : m = call.enc + 1
    BY <1>1 DEF Calls
  <2>3. Go("truncate", [cluster |-> c, enc |-> m])
    BY <1>2, <1>3, <2>1, <2>2 DEF TruncateWalk
  <2>4. pc' = "truncate" /\ Kept /\ call'.ret = call.ret
    BY <1>1, <2>3 DEF Go, Having, NoLocals, Calls, Kept, FdsKept
  <2>5. QED
    BY <1>1, <2>4, GoType, NearTable
<1>4. CASE call.enc * Units < call.goal /\ ~IsData(next)
  <2>1. Grow("truncate_grown", [zero |-> TRUE])
    BY <1>2, <1>4 DEF TruncateWalk
  <2>2. QED
    BY <1>1, <2>1, GrowType, CallingTable
<1>5. CASE ~(call.enc * Units < call.goal) /\ IsData(next)
  <2>1. PICK c \in Clusters : c = next
    BY <1>2, <1>5
  <2>2. PICK rest \in Seq(PCs) : rest = <<"truncate_end">> \o call.ret
    BY <1>1, Pushed, LabelSets DEF Truncating
  <2>3. Sub("free", <<"truncate_end">>, [victim |-> c])
    BY <1>2, <1>5, <2>1 DEF TruncateWalk
  <2>4. pc' = "free" /\ Kept /\ call'.ret = <<"truncate_end">> \o call.ret
    BY <1>1, <2>2, <2>3 DEF Sub, Having, NoLocals, Calls, Kept, FdsKept
  <2>5. QED
    BY <1>1, <2>4, SubType, CallingTable
<1>6. CASE ~(call.enc * Units < call.goal) /\ ~IsData(next)
  <2>1. Go("truncate_end", NoLocals)
    BY <1>2, <1>6 DEF TruncateWalk
  <2>2. pc' = "truncate_end" /\ Kept /\ call'.ret = call.ret
    BY <1>1, <2>1 DEF Go, Having, NoLocals, Calls, Kept, FdsKept
  <2>3. QED
    BY <1>1, <2>2, GoType, NearTable
<1>7. QED
  BY <1>3, <1>4, <1>5, <1>6

LEMMA TruncateGrownType ==
  ASSUME TypeInv, TruncateGrown
  PROVE  TypeInv'
<1>1. /\ call \in Calls /\ pc = "truncate_grown" /\ fds' = fds /\ scenario' = scenario /\ call.op # "read"
      /\ DiskType' /\ Returns(pc) # {}
  BY Here, NotReading, SameDisk, Returning DEF TruncateGrown, told
<1>2. CASE call.ok
  <2>1. PICK m \in Int : m = call.enc + 1
    BY <1>1 DEF Calls
  <2>2. Go("truncate", [enc |-> m])
    BY <1>2, <2>1 DEF TruncateGrown
  <2>3. pc' = "truncate" /\ Kept /\ call'.ret = call.ret
    BY <1>1, <2>2 DEF Go, Having, NoLocals, Calls, Kept, FdsKept
  <2>4. QED
    BY <1>1, <2>3, GoType, NearTable
<1>3. CASE ~call.ok
  <2>1. PICK rest \in Seq(PCs) : rest = Tail(call.ret)
    BY <1>1, Here
  <2>2. Back(FALSE, NoLocals)
    BY <1>3 DEF TruncateGrown
  <2>3. pc' = Head(call.ret) /\ Kept /\ call'.ret = Tail(call.ret)
    BY <1>1, <2>1, <2>2 DEF Back, Having, NoLocals, Calls, Kept, FdsKept
  <2>4. QED
    BY <1>1, <2>3, BackType
<1>4. QED
  BY <1>2, <1>3

LEMMA Root ==
  NoCall.dir \in Spots
BY Constants DEF NoCall, Spots

LEMMA TruncateEndType ==
  ASSUME TypeInv, TruncateEnd
  PROVE  TypeInv'
<1>1. /\ call \in Calls /\ pc = "truncate_end" /\ fds' = fds /\ scenario' = scenario /\ call.op # "read"
      /\ DiskType /\ fat' = fat /\ data' = data /\ i' = i
  BY Here, NotReading DEF TruncateEnd, told, disk
<1>2. DiskType'
  <2>1. END \in Entries /\ i' \in (2 .. NumClusters) \cup Indices /\ Hit(call.cluster) /\ WriteFat(call.cluster, END)
    BY <1>1, Constants DEF DiskType, END, Entries, TruncateEnd
  <2>2. QED
    BY <1>1, <2>1, WriteFatType
<1>3. PICK rest \in Seq(PCs) : rest = <<"set_attr">> \o call.ret
  BY <1>1, Pushed, LabelSets
<1>4. PICK a \in Attributes : a = [call.attr EXCEPT !.size = call.goal]
  <2>1. call.attr \in Attributes /\ call.goal \in Nat
    BY <1>1 DEF Calls
  <2>2. QED
    BY <2>1 DEF Attributes
<1>5. PICK at \in Spots : at = NoCall.dir
  BY Root
<1>6. pc' = "lookup" /\ call' = Having(call, [attr |-> a], [dir |-> at, ret |-> rest])
  BY <1>3, <1>4, <1>5 DEF TruncateEnd, LookUp
<1>7. pc' = "lookup" /\ Kept /\ call'.ret = <<"set_attr">> \o call.ret
  BY <1>1, <1>3, <1>6 DEF Having, NoLocals, Calls, Kept, FdsKept
<1>8. QED
  BY <1>1, <1>2, <1>7, SubType, CallingTable

\* The entry that is stored.
LEMMA StoreDirentType ==
  ASSUME TypeInv, StoreDirent, call.op # "none"
  PROVE  data' \in [Clusters -> [Slots -> UnitValues]]
<1>1. call.name \in Names /\ call.attr \in Attributes /\ data \in [Clusters -> [Slots -> UnitValues]]
  BY DEF TypeInv, CallType, Calls, DiskType
<1>2. [name |-> call.name, first |-> call.attr.first, size |-> call.attr.size] \in UnitValues
  BY <1>1 DEF UnitValues, Dirents, Attributes
<1>3. QED
  BY <1>1, <1>2, StoreType DEF StoreDirent, Place

LEMMA SetAttrType ==
  ASSUME TypeInv, SetAttr
  PROVE  TypeInv'
<1>1. /\ call \in Calls /\ pc = "set_attr" /\ fds' = fds /\ scenario' = scenario /\ call.op # "read"
      /\ DiskType /\ fat' = fat /\ page' = page /\ i' = i /\ Returns(pc) # {} /\ call.op # "none"
  BY Here, NotReading, Returning DEF SetAttr, told, TypeInv, CallType
<1>2. DiskType'
  <2>1. data' \in [Clusters -> [Slots -> UnitValues]]
    BY <1>1, StoreDirentType DEF SetAttr, DiskType
  <2>2. QED
    BY <1>1, <2>1 DEF DiskType
<1>3. PICK rest \in Seq(PCs) : rest = Tail(call.ret)
  BY <1>1, Here
<1>4. PICK b \in BOOLEAN : b = call.ok
  BY <1>1 DEF Calls
<1>5. Back(b, NoLocals)
  BY <1>4 DEF SetAttr
<1>6. pc' = Head(call.ret) /\ Kept /\ call'.ret = Tail(call.ret)
  BY <1>1, <1>3, <1>5 DEF Back, Having, NoLocals, Calls, Kept, FdsKept
<1>7. QED
  BY <1>1, <1>2, <1>6, BackType

LEMMA NoReturnToRead ==
  ASSUME NEW p, "read" \in Returns(p)
  PROVE  FALSE
BY DEF Returns, Allocating, Attaching, Truncating, Reading, Writing, Creating

\* A routine comes back with a result.
LEMMA ResultType ==
  ASSUME TypeInv, Returns(pc) # {}, NEW b \in BOOLEAN, NEW r \in Int, Back(b, [result |-> r]),
         fds' = fds, scenario' = scenario, DiskType'
  PROVE  TypeInv'
<1>1. call \in Calls /\ StackInv
  BY Here
<1>2. PICK rest \in Seq(PCs) : rest = Tail(call.ret)
  BY Here
<1>3. /\ pc' = Head(call.ret) /\ Kept /\ call'.ret = Tail(call.ret)
      /\ call'.off = call.off /\ call'.offset = call.offset
  BY <1>1, <1>2 DEF Back, Having, NoLocals, Calls, Kept, FdsKept
<1>4. Unread
  BY <1>1, <1>3, BackStack, NoReturnToRead DEF Unread, Kept
<1>5. QED
  BY <1>3, <1>4, BackType

LEMMA Integers0 == 0 \in Int /\ -1 \in Int
OBVIOUS

\* A routine fails with a result.
LEMMA FailType ==
  ASSUME TypeInv, Returns(pc) # {}, NEW r \in Int, Back(FALSE, [result |-> r]),
         fds' = fds, scenario' = scenario, DiskType'
  PROVE  TypeInv'
<1>1. call \in Calls /\ StackInv
  BY Here
<1>2. PICK rest \in Seq(PCs) : rest = Tail(call.ret)
  BY Here
<1>3. /\ pc' = Head(call.ret) /\ Kept /\ call'.ret = Tail(call.ret)
      /\ call'.off = call.off /\ call'.offset = call.offset
  BY <1>1, <1>2 DEF Back, Having, NoLocals, Calls, Kept, FdsKept
<1>4. Unread
  BY <1>1, <1>3, BackStack, NoReturnToRead DEF Unread, Kept
<1>5. QED
  BY <1>3, <1>4, BackType

LEMMA TopFind ==
  ASSUME StackInv, pc = "find"
  PROVE  IF call.op = "read" THEN Top("read") ELSE Top("write") /\ Top("find_grown")
<1>1. Returns(pc) = {"read_end", "fs_write_end", "padded"} /\ call.op \in {"read", "write", "lseek"}
  BY ReturnsTable, OpsTable DEF StackInv
<1>2. call.ret # <<>> /\ call.ret \in Seq(PCs) /\ call.ret[1] \in Returns(pc)
  BY <1>1 DEF StackInv
<1>3. 1 \in 1 .. Len(call.ret)
  BY <1>2
<1>4. call.op \in OpsAt(call.ret[1])
  BY <1>3 DEF StackInv
<1>5. IF call.op = "read" THEN call.ret[1] = "read_end" ELSE call.ret[1] \in {"fs_write_end", "padded"}
  BY <1>1, <1>2, <1>4, OpsTable
<1>6. Returns("read") = {"read_end"} /\ Returns("write") = {"fs_write_end", "padded"}
      /\ Returns("find_grown") = {"fs_write_end", "padded"}
  BY ReturnsTable, LabelSets
<1>7. QED
  BY <1>2, <1>5, <1>6 DEF Top

LEMMA FindType ==
  ASSUME TypeInv, Find
  PROVE  TypeInv'
<1>1. /\ call \in Calls /\ pc = "find" /\ fds' = fds /\ scenario' = scenario
      /\ DiskType' /\ Returns(pc) = {"read_end", "fs_write_end", "padded"} /\ DiskType /\ StackInv
      /\ (call.op = "read" => call.off \in Nat /\ call.offset \in Nat) /\ call.off \in Int
      /\ Units \in Nat
  BY Here, SameDisk, ReturnsTable, Constants DEF Find, told, TypeInv, CallType, ReadType, Calls
<1>2. call.op \in {"read", "write", "lseek"}
  BY <1>1, OpsTable DEF StackInv
<1>3. CASE call.off < Units
  <2>1. PICK p \in {"read", "write"} : p = (IF call.op = "read" THEN "read" ELSE "write")
    OBVIOUS
  <2>2. Go(p, NoLocals)
    BY <1>3, <2>1 DEF Find
  <2>3. pc' = p /\ Kept /\ call'.ret = call.ret /\ call'.off = call.off /\ call'.offset = call.offset
    BY <1>1, <2>2 DEF Go, Having, NoLocals, Calls, Kept, FdsKept
  <2>4. ReadType'
    BY <1>1, <1>3, <2>3 DEF ReadType, Kept
  <2>5. p \in PCs /\ call.op \in OpsAt(p) /\ p # "idle" /\ Top(p)
    BY <1>1, <1>2, <2>1, TopFind, OpsTable, LabelSets
  <2>6. StackInv'
    BY <1>1, <2>3, <2>5, GoStack DEF Kept
  <2>7. QED
    BY <1>1, <2>3, <2>4, <2>5, <2>6, CallStep
<1>4. CASE ~(call.off < Units)
  <2>1. PICK next \in Entries : next = page.ent[call.cluster] /\ (IsData(next) => next \in Clusters)
    BY <1>1, <1>4, NextCluster DEF Find
  <2>2. CASE IsData(next)
    <3>1. PICK c \in Clusters : c = next
      BY <2>1, <2>2
    <3>2. PICK m \in Int : m = call.off - Units
      BY <1>1
    <3>3. call.op = "read" => m \in Nat
      BY <1>1, <1>4, <3>2
    <3>4. Go("find", [cluster |-> c, off |-> m])
      BY <1>4, <2>1, <2>2, <3>1, <3>2 DEF Find
    <3>5. pc' = "find" /\ Kept /\ call'.ret = call.ret /\ call'.off = m /\ call'.offset = call.offset
      BY <1>1, <3>4 DEF Go, Having, NoLocals, Calls, Kept, FdsKept
    <3>6. ReadType'
      BY <1>1, <3>3, <3>5 DEF ReadType, Kept
    <3>7. QED
      BY <1>1, <3>5, <3>6, GoType, NearTable
  <2>3. CASE ~IsData(next) /\ call.op # "read" /\ next = END
    <3>1. Grow("find_grown", [zero |-> TRUE])
      BY <1>4, <2>1, <2>3 DEF Find
    <3>2. PICK rest \in Seq(PCs) : rest = <<"attach", "find_grown">> \o call.ret
      BY Pushed, LabelSets DEF Attaching, Writing
    <3>3. pc' = "alloc" /\ Kept /\ call'.ret = <<"attach", "find_grown">> \o call.ret
      BY <1>1, <3>1, <3>2 DEF Grow, Sub, Having, NoLocals, Calls, Kept, FdsKept
    <3>4. StackInv'
      <4>1. /\ "find_grown" \in PCs /\ "attach" \in PCs /\ "alloc" \in PCs /\ "attach" \in Returns("alloc")
            /\ "find_grown" \in Returns("attach") /\ Top("find_grown")
        BY <1>1, <1>2, <2>3, TopFind, ReturnsTable, LabelSets
      <4>2. call.op \in OpsAt("alloc") \cap OpsAt("attach") \cap OpsAt("find_grown")
        BY <1>2, <2>3, OpsTable, LabelSets
      <4>3. QED
        BY <1>1, <3>3, <4>1, <4>2, SubTwoStack DEF Kept
    <3>5. QED
      BY <1>1, <2>3, <3>3, <3>4, CallStep
  <2>4. CASE ~IsData(next) /\ ~(call.op # "read" /\ next = END)
    <3>1. Back(FALSE, [result |-> 0])
      BY <1>4, <2>1, <2>4 DEF Find
    <3>2. QED
      BY <1>1, <3>1, FailType, Integers0, Zenon
  <2>5. QED
    BY <2>2, <2>3, <2>4
<1>5. QED
  BY <1>3, <1>4

LEMMA FindGrownType ==
  ASSUME TypeInv, FindGrown
  PROVE  TypeInv'
<1>1. /\ call \in Calls /\ pc = "find_grown" /\ fds' = fds /\ scenario' = scenario /\ call.op # "read"
      /\ DiskType' /\ Returns(pc) # {}
  BY Here, NotReading, SameDisk, Returning DEF FindGrown, told
<1>2. CASE call.ok
  <2>1. PICK m \in Int : m = call.off - Units
    BY <1>1, Constants DEF Calls
  <2>2. Go("find", [off |-> m])
    BY <1>2, <2>1 DEF FindGrown
  <2>3. pc' = "find" /\ Kept /\ call'.ret = call.ret
    BY <1>1, <2>2 DEF Go, Having, NoLocals, Calls, Kept, FdsKept
  <2>4. QED
    BY <1>1, <2>3, GoType, NearTable
<1>3. CASE ~call.ok
  <2>1. Back(FALSE, [result |-> 0])
    BY <1>3 DEF FindGrown
  <2>2. QED
    BY <1>1, <2>1, FailType, Integers0, Zenon
<1>4. QED
  BY <1>2, <1>3

\* Looking the file up, to come back to two labels, for a new size.
LEMMA TruncateType ==
  ASSUME TypeInv, NEW back, NEW size \in Nat, Truncate(back, size),
         CallingTwo(pc, "lookup", "truncate_start", back), call.op # "read",
         fds' = fds, scenario' = scenario, DiskType'
  PROVE  TypeInv'
<1>1. call \in Calls /\ back \in PCs
  BY Here DEF CallingTwo
<1>2. PICK rest \in Seq(PCs) : rest = <<"truncate_start", back>> \o call.ret
  BY <1>1, Pushed, LabelSets DEF Truncating
<1>3. PICK at \in Spots : at = NoCall.dir
  BY Root
<1>4. pc' = "lookup" /\ call' = Having(call, [goal |-> size], [dir |-> at, ret |-> rest])
  BY <1>2, <1>3 DEF Truncate, LookUp
<1>5. pc' = "lookup" /\ Kept /\ call'.ret = <<"truncate_start", back>> \o call.ret
  BY <1>1, <1>2, <1>4 DEF Having, NoLocals, Calls, Kept, FdsKept
<1>6. QED
  BY <1>5, SubTwoType

\* Looking the file up, to come back to one label.
LEMMA LookUpType ==
  ASSUME TypeInv, NEW back, LookUp(<<back>>, NoLocals),
         Calling(pc, "lookup", back), call.op # "read",
         fds' = fds, scenario' = scenario, DiskType'
  PROVE  TypeInv'
<1>1. call \in Calls /\ back \in PCs
  BY Here DEF Calling
<1>2. PICK rest \in Seq(PCs) : rest = <<back>> \o call.ret
  BY <1>1, Pushed
<1>3. PICK at \in Spots : at = NoCall.dir
  BY Root
<1>4. pc' = "lookup" /\ call' = Having(call, NoLocals, [dir |-> at, ret |-> rest])
  BY <1>2, <1>3 DEF LookUp
<1>5. pc' = "lookup" /\ Kept /\ call'.ret = <<back>> \o call.ret
  BY <1>1, <1>2, <1>4 DEF Having, NoLocals, Calls, Kept, FdsKept
<1>6. QED
  BY <1>5, SubType

LEMMA WriteStartType ==
  ASSUME TypeInv, WriteStart
  PROVE  TypeInv'
<1>1. /\ call \in Calls /\ pc = "write_start" /\ fds' = fds /\ scenario' = scenario /\ call.op # "read"
      /\ DiskType' /\ Returns(pc) # {}
  BY Here, NotReading, SameDisk, Returning DEF WriteStart, told
<1>2. CASE ~call.ok
  <2>1. Back(FALSE, [result |-> -1])
    BY <1>2 DEF WriteStart
  <2>2. QED
    BY <1>1, <2>1, FailType, Integers0, Zenon
<1>3. CASE call.ok /\ call.offset > call.found.size
  <2>1. PICK size \in Nat : size = call.offset + 1
    <3>1. call.offset \in Int /\ call.found.size \in Nat
      BY <1>1 DEF Calls, Attributes
    <3>2. QED
      BY <1>3, <3>1
  <2>2. Truncate("write_extended", size)
    BY <1>3, <2>1 DEF WriteStart
  <2>3. QED
    BY <1>1, <2>2, TruncateType, CallingTable
<1>4. CASE call.ok /\ ~(call.offset > call.found.size)
  <2>1. PICK a \in Attributes : a = call.found
    BY <1>1 DEF Calls
  <2>2. PICK c \in Clusters : c = call.found.first
    BY <1>1 DEF Calls, Attributes
  <2>3. PICK o \in Int : o = call.offset
    BY <1>1 DEF Calls
  <2>4. Go("find", [attr |-> a, cluster |-> c, off |-> o])
    BY <1>4, <2>1, <2>2, <2>3 DEF WriteStart
  <2>5. pc' = "find" /\ Kept /\ call'.ret = call.ret
    BY <1>1, <2>4 DEF Go, Having, NoLocals, Calls, Kept, FdsKept
  <2>6. QED
    BY <1>1, <2>5, GoType, NearTable
<1>5. QED
  BY <1>2, <1>3, <1>4

LEMMA WriteExtendedType ==
  ASSUME TypeInv, WriteExtended
  PROVE  TypeInv'
<1>1. /\ call \in Calls /\ pc = "write_extended" /\ fds' = fds /\ scenario' = scenario /\ call.op # "read"
      /\ DiskType' /\ Returns(pc) # {}
  BY Here, NotReading, SameDisk, Returning DEF WriteExtended, told
<1>2. CASE call.ok
  BY <1>1, <1>2, LookUpType, CallingTable DEF WriteExtended
<1>3. CASE ~call.ok
  <2>1. Back(FALSE, [result |-> -1])
    BY <1>3 DEF WriteExtended
  <2>2. QED
    BY <1>1, <2>1, FailType, Integers0, Zenon
<1>4. QED
  BY <1>2, <1>3

LEMMA WriteType ==
  ASSUME TypeInv, Write
  PROVE  TypeInv'
<1>1. /\ call \in Calls /\ pc = "write" /\ fds' = fds /\ scenario' = scenario /\ call.op # "read"
      /\ DiskType /\ fat' = fat /\ page' = page /\ i' = i /\ call.op # "none" /\ call.name \in Names
  BY Here, NotReading DEF Write, told, TypeInv, CallType
<1>2. Written \in UnitValues
  BY <1>1 DEF Written, UnitValues
<1>3. DiskType'
  <2>1. data \in [Clusters -> [Slots -> UnitValues]] /\ call.cluster \in Clusters
    BY <1>1 DEF DiskType, Calls
  <2>2. [e \in Slots |-> IF e \in call.off .. call.off + room - 1 THEN Written ELSE data[call.cluster][e]]
          \in [Slots -> UnitValues]
    BY <1>2, <2>1
  <2>3. data' \in [Clusters -> [Slots -> UnitValues]]
    BY <2>1, <2>2 DEF Write
  <2>4. QED
    BY <1>1, <2>3 DEF DiskType
<1>4. PICK done \in Int : done = call.done + room
  <2>1. call.done \in Int /\ call.off \in Int /\ call.n \in Nat
    BY <1>1 DEF Calls
  <2>2. room \in Int
    BY <2>1, Constants DEF room, Smaller
  <2>3. QED
    BY <2>1, <2>2
<1>5. CASE done < call.n
  <2>1. Go("advance", [done |-> done])
    BY <1>4, <1>5 DEF Write
  <2>2. pc' = "advance" /\ Kept /\ call'.ret = call.ret
    BY <1>1, <2>1 DEF Go, Having, NoLocals, Calls, Kept, FdsKept
  <2>3. QED
    BY <1>1, <1>3, <2>2, GoType, NearTable
<1>6. CASE ~(done < call.n) /\ call.offset + call.n > call.attr.size
  <2>1. PICK a \in Attributes : a = [call.attr EXCEPT !.size = call.offset + call.n]
    <3>1. call.attr \in Attributes /\ call.attr.size \in Nat /\ call.offset \in Int /\ call.n \in Nat
      BY <1>1 DEF Calls, Attributes
    <3>2. call.offset + call.n \in Nat
      BY <1>6, <3>1
    <3>3. QED
      BY <3>1, <3>2 DEF Attributes
  <2>2. PICK rest \in Seq(PCs) : rest = <<"set_attr", "write_end">> \o call.ret
    BY <1>1, Pushed, LabelSets
  <2>3. PICK at \in Spots : at = NoCall.dir
    BY Root
  <2>4. pc' = "lookup" /\ call' = Having(call, [done |-> done, attr |-> a], [dir |-> at, ret |-> rest])
    BY <1>4, <1>6, <2>1, <2>2, <2>3 DEF Write, LookUp
  <2>5. pc' = "lookup" /\ Kept /\ call'.ret = <<"set_attr", "write_end">> \o call.ret
    BY <1>1, <2>2, <2>4 DEF Having, NoLocals, Calls, Kept, FdsKept
  <2>6. QED
    BY <1>1, <1>3, <2>5, SubTwoType, CallingTable
<1>7. CASE ~(done < call.n) /\ ~(call.offset + call.n > call.attr.size)
  <2>1. Go("write_end", [done |-> done, ok |-> TRUE])
    BY <1>4, <1>7 DEF Write
  <2>2. pc' = "write_end" /\ Kept /\ call'.ret = call.ret
    BY <1>1, <2>1 DEF Go, Having, NoLocals, Calls, Kept, FdsKept
  <2>3. QED
    BY <1>1, <1>3, <2>2, GoType, NearTable
<1>8. QED
  BY <1>5, <1>6, <1>7

\* The first slot of the next cluster.
LEMMA AdvanceType ==
  ASSUME TypeInv, NEW p \in {"read", "write"}, NEW c \in Clusters, Go(p, [cluster |-> c, off |-> 0]), Near(pc, p),
         call.op = "read" => p = "read", fds' = fds, scenario' = scenario, DiskType'
  PROVE  TypeInv'
<1>1. call \in Calls
  BY Here
<1>2. PICK o \in Int : o = 0
  OBVIOUS
<1>3. Go(p, [cluster |-> c, off |-> o])
  BY <1>2
<1> DEFINE locals == [cluster |-> c, off |-> o]
<1>4. pc' = p /\ call' = Having(call, locals, NoLocals)
  BY <1>3 DEF Go
<1>5. /\ call'.ret = call.ret /\ call'.off = o /\ call'.offset = call.offset
      /\ call'.op = call.op /\ call'.fd = call.fd /\ call'.name = call.name
  BY <1>1, <1>4 DEF Having, NoLocals, Calls
<1>6. call' \in Calls
  BY <1>1, <1>4 DEF Having, NoLocals, Calls
<1>7. pc' = p /\ Kept
  BY <1>4, <1>5, <1>6 DEF Kept, FdsKept
<1>8. ReadType'
  BY <1>2, <1>5, <1>7, Constants DEF ReadType, TypeInv, CallType, Kept
<1>9. QED
  BY <1>5, <1>7, <1>8, GoType

LEMMA WriteAdvanceType ==
  ASSUME TypeInv, WriteAdvance
  PROVE  TypeInv'
<1>1. /\ call \in Calls /\ pc = "advance" /\ fds' = fds /\ scenario' = scenario /\ call.op # "read"
      /\ DiskType' /\ DiskType
  BY Here, NotReading, SameDisk DEF WriteAdvance, told
<1>2. PICK next \in Entries : next = page.ent[call.cluster] /\ (IsData(next) => next \in Clusters)
  BY <1>1, NextCluster DEF WriteAdvance
<1>3. CASE IsData(next)
  <2>1. PICK c \in Clusters : c = next
    BY <1>2, <1>3
  <2>2. Go("write", [cluster |-> c, off |-> 0])
    BY <1>2, <1>3, <2>1 DEF WriteAdvance
  <2>3. Near(pc, "write") /\ "write" \in {"read", "write"}
    BY <1>1, NearTable
  <2>4. QED
    BY <1>1, <2>2, <2>3, AdvanceType, Zenon
<1>4. CASE ~IsData(next)
  <2>1. Grow("write_grown", [zero |-> call.n - call.done < Units])
    BY <1>2, <1>4 DEF WriteAdvance
  <2>2. (call.n - call.done < Units) \in BOOLEAN
    OBVIOUS
  <2>3. QED
    BY <1>1, <2>1, <2>2, GrowType, CallingTable
<1>5. QED
  BY <1>3, <1>4

LEMMA WriteGrownType ==
  ASSUME TypeInv, WriteGrown
  PROVE  TypeInv'
<1>1. /\ call \in Calls /\ pc = "write_grown" /\ fds' = fds /\ scenario' = scenario /\ call.op # "read"
      /\ DiskType' /\ Returns(pc) # {}
  BY Here, NotReading, SameDisk, Returning DEF WriteGrown, told
<1>2. CASE call.ok
  <2>1. PICK o \in Int : o = 0
    OBVIOUS
  <2>2. Go("write", [off |-> o])
    BY <1>2, <2>1 DEF WriteGrown
  <2>3. pc' = "write" /\ Kept /\ call'.ret = call.ret
    BY <1>1, <2>2 DEF Go, Having, NoLocals, Calls, Kept, FdsKept
  <2>4. QED
    BY <1>1, <2>3, GoType, NearTable
<1>3. CASE ~call.ok
  <2>1. Back(FALSE, [result |-> -1])
    BY <1>3 DEF WriteGrown
  <2>2. QED
    BY <1>1, <2>1, FailType, Integers0, Zenon
<1>4. QED
  BY <1>2, <1>3

LEMMA WriteEndType ==
  ASSUME TypeInv, WriteEnd
  PROVE  TypeInv'
<1>1. /\ call \in Calls /\ pc = "write_end" /\ fds' = fds /\ scenario' = scenario
      /\ DiskType' /\ Returns(pc) # {}
  BY Here, SameDisk, Returning DEF WriteEnd, told
<1>2. PICK b \in BOOLEAN : b = call.ok
  BY <1>1 DEF Calls
<1>3. PICK r \in Int : r = (IF call.ok THEN call.n ELSE -1)
  <2>1. call.n \in Int /\ -1 \in Int
    BY <1>1 DEF Calls
  <2>2. (IF call.ok THEN call.n ELSE -1) \in Int
    BY <2>1, Zenon
  <2>3. QED
    BY <2>2, Zenon
<1>4. Back(b, [result |-> r])
  BY <1>2, <1>3 DEF WriteEnd
<1>5. QED
  BY <1>1, <1>4, ResultType

LEMMA ReadStartType ==
  ASSUME TypeInv, ReadStart
  PROVE  TypeInv'
<1>1. /\ call \in Calls /\ pc = "read_start" /\ fds' = fds /\ scenario' = scenario
      /\ DiskType' /\ Returns(pc) # {}
  <2>1. pc = "read_start" /\ fds' = fds /\ scenario' = scenario /\ UNCHANGED <<disk, page, i>>
    BY DEF ReadStart, told
  <2>2. Returns("read_start") # {}
    BY Returning
  <2>3. QED
    BY <2>1, <2>2, Here, SameDisk
<1>2. CASE ~call.ok
  <2>1. Back(FALSE, [result |-> -1])
    BY <1>2 DEF ReadStart
  <2>2. QED
    BY <1>1, <2>1, FailType, Integers0, Zenon
<1>3. CASE call.ok /\ call.offset >= call.found.size
  <2>1. Back(FALSE, [result |-> 0])
    BY <1>3 DEF ReadStart
  <2>2. QED
    BY <1>1, <2>1, FailType, Integers0, Zenon
<1>4. CASE call.ok /\ ~(call.offset >= call.found.size)
  <2>1. PICK a \in Attributes : a = call.found
    BY <1>1 DEF Calls
  <2>2. PICK c \in Clusters : c = call.found.first
    BY <1>1 DEF Calls, Attributes
  <2>3. PICK o \in Int : o = call.offset /\ (call.op = "read" => o \in Nat)
    BY <1>1 DEF Calls, TypeInv, CallType, ReadType
  <2>4. Go("find", [attr |-> a, cluster |-> c, off |-> o])
    BY <1>4, <2>1, <2>2, <2>3 DEF ReadStart
  <2>5. pc' = "find" /\ Kept /\ call'.ret = call.ret /\ call'.off = o /\ call'.offset = call.offset
    BY <1>1, <2>4 DEF Go, Having, NoLocals, Calls, Kept, FdsKept
  <2>6. ReadType'
    BY <2>3, <2>5 DEF ReadType, Kept
  <2>7. QED
    BY <1>1, <2>5, <2>6, GoType, NearTable
<1>5. QED
  BY <1>2, <1>3, <1>4

LEMMA ReadBytes ==
  ASSUME TypeInv, pc = "read", NEW n \in Int, n <= room
  PROVE  call.buf \o [k \in 1 .. n |-> data[call.cluster][call.off + k - 1]] \in Seq(UnitValues)
<1>1. /\ call.cluster \in Clusters /\ data \in [Clusters -> [Slots -> UnitValues]] /\ call.buf \in Seq(UnitValues)
      /\ call.off \in Int /\ call.n \in Nat /\ call.done \in Int
  BY Here DEF Calls, DiskType
<1>2. call.op = "read"
  BY OpsTable, LabelSets DEF TypeInv, StackInv
<1>3. call.off \in Nat /\ call.off < Units
  BY <1>2 DEF TypeInv, CallType, ReadType
<1>4. room <= Units - call.off
  BY <1>1, Constants DEF room, Smaller
<1>5. ASSUME NEW k \in 1 .. n PROVE data[call.cluster][call.off + k - 1] \in UnitValues
  <2>1. room \in Int
    BY <1>1, Constants DEF room, Smaller
  <2>2. call.off + k - 1 \in Slots
    BY <1>1, <1>3, <1>4, <2>1, Constants DEF Slots
  <2>3. QED
    BY <1>1, <2>2
<1>6. PICK len \in Nat : 1 .. n = 1 .. len
  <2>1. CASE n \in Nat
    BY <2>1
  <2>2. CASE n \notin Nat
    <3>1. 1 .. n = 1 .. 0
      BY <2>2
    <3>2. QED
      BY <3>1
  <2>3. QED
    BY <2>1, <2>2
<1>7. [k \in 1 .. n |-> data[call.cluster][call.off + k - 1]] \in Seq(UnitValues)
  BY <1>5, <1>6
<1>8. QED
  BY <1>1, <1>7

LEMMA ReadActionType ==
  ASSUME TypeInv, Read
  PROVE  TypeInv'
<1>1. /\ call \in Calls /\ pc = "read" /\ fds' = fds /\ scenario' = scenario
      /\ DiskType' /\ Returns(pc) # {} /\ StackInv
  BY Here, SameDisk, Returning DEF Read, told
<1>2. PICK n \in Int : n = Smaller(room, call.attr.size - call.offset - call.done) /\ n <= room
  <2>1. call.off \in Int /\ call.n \in Nat /\ call.done \in Int /\ call.offset \in Int /\ call.attr.size \in Nat
    BY <1>1 DEF Calls, Attributes
  <2>2. room \in Int
    BY <2>1, Constants DEF room, Smaller
  <2>3. QED
    BY <2>1, <2>2 DEF Smaller
<1>3. PICK m \in Int : m = call.done + n
  BY <1>1 DEF Calls
<1>4. PICK buf \in Seq(UnitValues) :
        buf = call.buf \o [k \in 1 .. n |-> data[call.cluster][call.off + k - 1]]
  BY <1>1, <1>2, ReadBytes
<1>5. \/ Go("read_advance", [buf |-> buf, done |-> m, result |-> m])
      \/ Back(TRUE, [buf |-> buf, done |-> m, result |-> m])
  BY <1>2, <1>3, <1>4 DEF Read
<1>6. CASE Go("read_advance", [buf |-> buf, done |-> m, result |-> m])
  <2>1. pc' = "read_advance" /\ Kept /\ Unread /\ call'.ret = call.ret
    BY <1>1, <1>6 DEF Go, Having, NoLocals, Calls, Kept, FdsKept, Unread
  <2>2. QED
    BY <1>1, <2>1, GoType, NearTable
<1>7. CASE Back(TRUE, [buf |-> buf, done |-> m, result |-> m])
  <2>1. PICK rest \in Seq(PCs) : rest = Tail(call.ret)
    BY <1>1, Here
  <2>2. /\ pc' = Head(call.ret) /\ Kept /\ call'.ret = Tail(call.ret)
        /\ call'.off = call.off /\ call'.offset = call.offset
    BY <1>1, <1>7, <2>1 DEF Back, Having, NoLocals, Calls, Kept, FdsKept
  <2>3. Unread
    BY <1>1, <2>2, BackStack, NoReturnToRead DEF Unread, Kept
  <2>4. QED
    BY <1>1, <2>2, <2>3, BackType
<1>8. QED
  BY <1>5, <1>6, <1>7

LEMMA ReadAdvanceType ==
  ASSUME TypeInv, ReadAdvance
  PROVE  TypeInv'
<1>1. /\ call \in Calls /\ pc = "read_advance" /\ fds' = fds /\ scenario' = scenario
      /\ DiskType' /\ DiskType /\ Returns(pc) # {}
  BY Here, SameDisk, Returning DEF ReadAdvance, told
<1>2. PICK next \in Entries : next = page.ent[call.cluster] /\ (IsData(next) => next \in Clusters)
  BY <1>1, NextCluster DEF ReadAdvance
<1>3. CASE IsData(next)
  <2>1. PICK c \in Clusters : c = next
    BY <1>2, <1>3
  <2>2. Go("read", [cluster |-> c, off |-> 0])
    BY <1>2, <1>3, <2>1 DEF ReadAdvance
  <2>3. Near(pc, "read") /\ "read" \in {"read", "write"}
    BY <1>1, NearTable
  <2>4. QED
    BY <1>1, <2>2, <2>3, AdvanceType, Zenon
<1>4. CASE ~IsData(next)
  <2>1. Back(FALSE, [result |-> -1])
    BY <1>2, <1>4 DEF ReadAdvance
  <2>2. QED
    BY <1>1, <2>1, FailType, Integers0, Zenon
<1>5. QED
  BY <1>3, <1>4

\* The call is about to return with a result.
LEMMA ReturnType ==
  ASSUME TypeInv, NEW r \in Int, Return(r), FdsKept, scenario' = scenario, DiskType', Near(pc, "return")
  PROVE  TypeInv'
<1>1. call \in Calls
  BY Here
<1>2. pc' = "return" /\ Kept /\ Unread /\ call'.ret = call.ret
  BY <1>1 DEF Return, Go, Having, NoLocals, Calls, Kept, Unread
<1>3. QED
  BY <1>2, GoType

LEMMA OpenCreateType ==
  ASSUME TypeInv, OpenCreate
  PROVE  TypeInv'
<1>1. /\ call \in Calls /\ pc = "open_w" /\ fds' = fds /\ scenario' = scenario /\ call.op # "read" /\ DiskType'
  BY Here, NotReading, SameDisk DEF OpenCreate, told
<1>2. CASE call.ok
  <2>1. Truncate("open_truncated", 0) /\ 0 \in Nat
    BY <1>2 DEF OpenCreate
  <2>2. QED
    BY <1>1, <2>1, TruncateType, CallingTable
<1>3. CASE ~call.ok
  <2>1. PICK rest \in Seq(PCs) : rest = <<"create">> \o call.ret
    BY Pushed, LabelSets DEF Creating
  <2>2. Sub("alloc", <<"create">>, [zero |-> TRUE])
    BY <1>3 DEF OpenCreate
  <2>3. pc' = "alloc" /\ Kept /\ call'.ret = <<"create">> \o call.ret
    BY <1>1, <2>1, <2>2 DEF Sub, Having, NoLocals, Calls, Kept, FdsKept
  <2>4. QED
    BY <1>1, <2>3, SubType, CallingTable
<1>4. QED
  BY <1>2, <1>3

LEMMA CreateType ==
  ASSUME TypeInv, Create
  PROVE  TypeInv'
<1>1. /\ call \in Calls /\ pc = "create" /\ fds' = fds /\ scenario' = scenario /\ call.op # "read" /\ DiskType'
      /\ FdsKept
  BY Here, NotReading, SameDisk DEF Create, told, FdsKept
<1>2. CASE call.ok
  <2>1. PICK a \in Attributes : a = [first |-> call.new, size |-> 0]
    BY <1>1 DEF Calls, Attributes
  <2>2. PICK at \in Spots : at = NoCall.dir
    BY Root
  <2>3. Go("slot", [attr |-> a, dir |-> at])
    BY <1>2, <2>1, <2>2 DEF Create
  <2>4. pc' = "slot" /\ Kept /\ call'.ret = call.ret
    BY <1>1, <2>3 DEF Go, Having, NoLocals, Calls, Kept, FdsKept
  <2>5. QED
    BY <1>1, <2>4, GoType, NearTable
<1>3. CASE ~call.ok
  <2>1. Return(-1) /\ Near(pc, "return")
    BY <1>1, <1>3, NearTable DEF Create
  <2>2. QED
    BY <1>1, <2>1, ReturnType, Integers0
<1>4. QED
  BY <1>2, <1>3

LEMMA CreateDirentType ==
  ASSUME TypeInv, CreateDirent
  PROVE  TypeInv'
<1>1. /\ call \in Calls /\ pc = "dirent" /\ fds' = fds /\ scenario' = scenario /\ call.op # "read"
      /\ DiskType /\ fat' = fat /\ page' = page /\ i' = i /\ call.op # "none"
  BY Here, NotReading DEF CreateDirent, told, TypeInv, CallType
<1>2. DiskType'
  <2>1. data' \in [Clusters -> [Slots -> UnitValues]]
    BY <1>1, StoreDirentType DEF CreateDirent
  <2>2. QED
    BY <1>1, <2>1 DEF DiskType
<1>3. Truncate("open_truncated", 0) /\ 0 \in Nat
  BY DEF CreateDirent
<1>4. QED
  BY <1>1, <1>2, <1>3, TruncateType, CallingTable

LEMMA OpenTruncatedType ==
  ASSUME TypeInv, OpenTruncated
  PROVE  TypeInv'
<1>1. /\ call \in Calls /\ pc \in {"open_truncated", "open_failed"} /\ fds' = fds /\ scenario' = scenario
      /\ call.op # "read" /\ DiskType' /\ FdsKept
  <2>1. pc \in {"open_truncated", "open_failed"} /\ fds' = fds /\ scenario' = scenario /\ UNCHANGED <<disk, page, i>>
    BY DEF OpenTruncated, told
  <2>2. call.op # "read"
    BY <2>1, NotReading
  <2>3. QED
    BY <2>1, <2>2, Here, SameDisk DEF FdsKept
<1>2. CASE pc = "open_truncated" /\ call.ok
  BY <1>1, <1>2, LookUpType, CallingTable DEF OpenTruncated
<1>3. CASE ~(pc = "open_truncated" /\ call.ok)
  <2>1. Return(-1) /\ Near(pc, "return")
    BY <1>1, <1>3, NearTable DEF OpenTruncated
  <2>2. QED
    BY <1>1, <2>1, ReturnType, Integers0
<1>4. QED
  BY <1>2, <1>3

LEMMA OpenedType ==
  ASSUME TypeInv, Opened
  PROVE  TypeInv'
<1>1. /\ call \in Calls /\ pc = "opened" /\ scenario' = scenario /\ DiskType' /\ call.op # "none"
      /\ call.fd \in Fds /\ call.name \in Names /\ fds \in [Fds -> OpenFiles \cup {None}]
  BY Here, SameDisk DEF Opened, TypeInv, CallType
<1>2. \E r \in Int : Return(r)
  BY Integers0 DEF Opened
<1>3. FdsKept
  <2>1. CASE call.ok
    <3>1. [name |-> call.name, cursor |-> 0, file_size |-> call.found.size, writable |-> call.op # "r"] \in OpenFiles
      <4>1. call.found.size \in Nat /\ 0 \in Nat /\ (call.op # "r") \in BOOLEAN
        BY <1>1 DEF Calls, Attributes
      <4>2. QED
        BY <1>1, <4>1 DEF OpenFiles
    <3>2. fds' \in [Fds -> OpenFiles \cup {None}]
      BY <1>1, <2>1, <3>1 DEF Opened
    <3>3. pc' = "return"
      BY <1>2 DEF Return, Go
    <3>4. QED
      BY <3>2, <3>3 DEF FdsKept
  <2>2. CASE ~call.ok
    BY <2>2 DEF Opened, FdsKept
  <2>3. QED
    BY <2>1, <2>2
<1>4. Near(pc, "return")
  BY <1>1, NearTable
<1>5. QED
  BY <1>1, <1>2, <1>3, <1>4, ReturnType

\* A cursor that moves stays a cursor.
LEMMA CursorType ==
  ASSUME TypeInv, NEW d \in Fds, fds[d] # None, NEW c \in Nat, fds' = [fds EXCEPT ![d].cursor = c]
  PROVE  FdsKept
<1>1. fds \in [Fds -> OpenFiles \cup {None}] /\ fds[d] \in OpenFiles
  BY DEF TypeInv
<1>2. [fds[d] EXCEPT !.cursor = c] \in OpenFiles
  BY <1>1 DEF OpenFiles
<1>3. fds' = [fds EXCEPT ![d] = [fds[d] EXCEPT !.cursor = c]]
  OBVIOUS
<1>4. None \notin OpenFiles
  BY Constants
<1>5. QED
  BY <1>1, <1>2, <1>3, <1>4 DEF FdsKept

LEMMA MoveCursorType ==
  ASSUME TypeInv, MoveCursor, call.op \in {"read", "write"}, pc # "return"
  PROVE  FdsKept
<1>1. call.fd \in Fds /\ fds[call.fd] # None /\ fds \in [Fds -> OpenFiles \cup {None}] /\ call.result \in Int
  BY Here DEF TypeInv, CallType, Calls
<1>2. fds[call.fd] \in OpenFiles
  BY <1>1
<1>3. PICK c \in Nat : c = fds[call.fd].cursor + Larger(call.result, 0)
  <2>1. Larger(call.result, 0) \in Nat
    BY <1>1 DEF Larger
  <2>2. fds[call.fd].cursor \in Nat
    BY <1>2 DEF OpenFiles
  <2>3. QED
    BY <2>1, <2>2
<1>4. fds' = [fds EXCEPT ![call.fd].cursor = c]
  BY <1>1, <1>3 DEF MoveCursor
<1>5. QED
  BY <1>1, <1>4, CursorType

LEMMA ReadEndType ==
  ASSUME TypeInv, ReadEnd
  PROVE  TypeInv'
<1>1. pc = "read_end" /\ scenario' = scenario /\ UNCHANGED <<disk, page, i>> /\ MoveCursor /\ Return(call.result)
  BY DEF ReadEnd
<1>2. call.op \in {"read", "write"} /\ call.result \in Int
  BY <1>1, OpsTable, Here DEF StackInv, Calls
<1>3. FdsKept /\ DiskType' /\ Near(pc, "return")
  BY <1>1, <1>2, MoveCursorType, SameDisk, NearTable
<1>4. QED
  BY <1>1, <1>2, <1>3, ReturnType

LEMMA FsWriteEndType ==
  ASSUME TypeInv, FsWriteEnd
  PROVE  TypeInv'
<1>1. pc = "fs_write_end" /\ scenario' = scenario /\ UNCHANGED <<disk, page, i>> /\ MoveCursor /\ Return(call.result)
  BY DEF FsWriteEnd
<1>2. call.op \in {"read", "write"} /\ call.result \in Int
  BY <1>1, OpsTable, Here DEF StackInv, Calls
<1>3. FdsKept /\ DiskType' /\ Near(pc, "return")
  BY <1>1, <1>2, MoveCursorType, SameDisk, NearTable
<1>4. QED
  BY <1>1, <1>2, <1>3, ReturnType

LEMMA PadType ==
  ASSUME TypeInv, Pad
  PROVE  TypeInv'
<1>1. /\ call \in Calls /\ pc = "pad" /\ fds' = fds /\ scenario' = scenario /\ call.op # "read" /\ DiskType'
  BY Here, NotReading, SameDisk DEF Pad, told
<1>2. CASE call.left # 0
  <2>1. PICK rest \in Seq(PCs) : rest = <<"write_start", "padded">> \o call.ret
    BY Pushed, LabelSets DEF Writing
  <2>2. PICK at \in Spots : at = NoCall.dir
    BY Root
  <2>3. PICK o \in Int, n \in Nat : o = call.end /\ n = call.chunk
    BY <1>1 DEF Calls
  <2>4. PICK zero \in Int : zero = 0
    OBVIOUS
  <2>5. pc' = "lookup" /\ call' = Having(call, [offset |-> o, n |-> n, done |-> zero], [dir |-> at, ret |-> rest])
    BY <1>2, <2>1, <2>2, <2>3, <2>4 DEF Pad, fatx_write, LookUp
  <2>6. pc' = "lookup" /\ Kept /\ call'.ret = <<"write_start", "padded">> \o call.ret
    BY <1>1, <2>1, <2>5 DEF Having, NoLocals, Calls, Kept, FdsKept
  <2>7. QED
    BY <1>1, <2>6, SubTwoType, CallingTable
<1>3. CASE call.left = 0
  BY <1>1, <1>3, LookUpType, CallingTable DEF Pad
<1>4. QED
  BY <1>2, <1>3

LEMMA PaddedType ==
  ASSUME TypeInv, Padded
  PROVE  TypeInv'
<1>1. /\ call \in Calls /\ pc = "padded" /\ fds' = fds /\ scenario' = scenario /\ call.op # "read" /\ DiskType'
      /\ FdsKept
  BY Here, NotReading, SameDisk DEF Padded, told, FdsKept
<1>2. CASE call.result = 0
  <2>1. Return(-1) /\ Near(pc, "return")
    BY <1>1, <1>2, NearTable DEF Padded
  <2>2. QED
    BY <1>1, <2>1, ReturnType, Integers0
<1>3. CASE call.result # 0
  <2>1. PICK end \in Int, left \in Int : end = call.end + call.result /\ left = call.left - call.result
    <3>1. call.end \in Int /\ call.left \in Int /\ call.result \in Int
      BY <1>1 DEF Calls
    <3>2. call.end + call.result \in Int /\ call.left - call.result \in Int
      BY <3>1
    <3>3. QED
      BY <3>2
  <2>2. Go("pad", [end |-> end, left |-> left])
    BY <1>3, <2>1 DEF Padded
  <2>3. pc' = "pad" /\ Kept /\ call'.ret = call.ret
    BY <1>1, <2>2 DEF Go, Having, NoLocals, Calls, Kept
  <2>4. QED
    BY <1>1, <2>3, GoType, NearTable
<1>4. QED
  BY <1>2, <1>3

LEMMA PadEndType ==
  ASSUME TypeInv, PadEnd
  PROVE  TypeInv'
<1>1. /\ call \in Calls /\ pc = "pad_end" /\ scenario' = scenario /\ call.op # "read" /\ DiskType'
      /\ call.op = "lseek" /\ call.fd \in Fds /\ fds[call.fd] # None /\ fds \in [Fds -> OpenFiles \cup {None}]
  <2>1. pc = "pad_end" /\ scenario' = scenario /\ UNCHANGED <<disk, page, i>>
    BY DEF PadEnd
  <2>2. call.op = "lseek"
    BY <2>1, Here, OpsTable DEF StackInv
  <2>3. QED
    BY <2>1, <2>2, Here, SameDisk DEF TypeInv, CallType
<1>2. PICK f \in OpenFiles : f = fds[call.fd]
  BY <1>1
<1>3. PICK n \in Nat : n = IF call.ok THEN call.found.size ELSE f.file_size
  BY <1>1, <1>2 DEF Calls, Attributes, OpenFiles
<1>4. fds' = [fds EXCEPT ![call.fd] = [f EXCEPT !.file_size = n]]
  BY <1>1, <1>2, <1>3 DEF PadEnd
<1>5. [f EXCEPT !.file_size = n] \in OpenFiles
  BY <1>2, <1>3 DEF OpenFiles
<1>6. FdsKept
  BY <1>1, <1>4, <1>5, Constants DEF FdsKept
<1>7. pc' = "lseek_end" /\ Kept /\ call'.ret = call.ret
  <2>1. Go("lseek_end", NoLocals)
    BY DEF PadEnd
  <2>2. QED
    BY <1>1, <1>6, <2>1 DEF Go, Having, NoLocals, Calls, Kept
<1>8. QED
  BY <1>1, <1>7, GoType, NearTable

LEMMA LseekEndType ==
  ASSUME TypeInv, LseekEnd
  PROVE  TypeInv'
<1>1. /\ pc = "lseek_end" /\ scenario' = scenario /\ UNCHANGED <<disk, page, i>>
      /\ fds' = [fds EXCEPT ![call.fd].cursor = call.to] /\ Return(call.to)
  BY DEF LseekEnd
<1>2. call.op = "lseek" /\ call.to \in Nat
  BY <1>1, OpsTable, Here DEF StackInv, Calls
<1>3. call.fd \in Fds /\ fds[call.fd] # None
  BY <1>1, <1>2 DEF TypeInv, CallType
<1>4. FdsKept
  BY <1>1, <1>2, <1>3, CursorType
<1>6. DiskType' /\ Near(pc, "return") /\ call.to \in Int
  BY <1>1, <1>2, SameDisk, NearTable
<1>5. QED
  BY <1>1, <1>4, <1>6, ReturnType

LEMMA FlushedType ==
  ASSUME TypeInv, Flushed
  PROVE  TypeInv'
<1>1. /\ call \in Calls /\ pc = "flush" /\ fds' = fds /\ scenario' = scenario /\ DiskType' /\ call.op # "read"
  BY Here, NotReading, SameDisk DEF Flushed, told
<1>2. Go("closed", NoLocals)
  BY DEF Flushed
<1>3. pc' = "closed" /\ Kept /\ call'.ret = call.ret
  BY <1>1, <1>2 DEF Go, Having, NoLocals, Calls, Kept, FdsKept
<1>4. QED
  BY <1>1, <1>3, GoType, NearTable

LEMMA ClosedType ==
  ASSUME TypeInv, Closed
  PROVE  TypeInv'
<1>1. /\ pc = "closed" /\ scenario' = scenario /\ UNCHANGED <<disk, page, i>>
      /\ fds' = [fds EXCEPT ![call.fd] = None] /\ Return(0)
  BY DEF Closed
<1>2. pc' = "return" /\ Near(pc, "return") /\ DiskType'
  BY <1>1, NearTable, SameDisk DEF Return, Go
<1>3. FdsKept
  BY <1>1, <1>2 DEF FdsKept, TypeInv
<1>4. QED
  BY <1>1, <1>2, <1>3, ReturnType, Integers0

\* What a step that leaves nothing of a call behind has to show.
LEMMA NoCallType == NoCall \in Calls /\ NoCall.op = "none"
<1>1. <<>> \in Seq(PCs) /\ <<>> \in Seq(UnitValues)
  OBVIOUS
<1>2. NoCall.dir \in Spots /\ root_cluster \in Clusters
  BY Root, Constants
<1>3. [first |-> root_cluster, size |-> 0] \in Attributes
  BY <1>2 DEF Attributes
<1>4. QED
  BY <1>1, <1>2, <1>3 DEF NoCall, Calls, Ops, root_cluster

LEMMA IdleStack ==
  ASSUME pc' = "idle", call' = NoCall
  PROVE  StackInv'
<1>1. call'.ret = <<>> /\ call'.op = "none"
  BY DEF NoCall
<1>2. Returns("idle") = {} /\ OpsAt("idle") = {"none"} /\ "idle" \in PCs
  BY ReturnsTable, OpsTable, LabelSets
<1>3. <<>> \in Seq(PCs) /\ Len(<<>>) = 0
  OBVIOUS
<1>4. QED
  BY <1>1, <1>2, <1>3 DEF StackInv

LEMMA FinishType ==
  ASSUME TypeInv, Finish
  PROVE  TypeInv'
<1>1. pc' = "idle" /\ call' = NoCall /\ fds' = fds /\ scenario' = scenario /\ DiskType' /\ StackInv'
  BY SameDisk, IdleStack DEF Finish, told
<1>2. QED
  BY <1>1, NoCallType DEF TypeInv, CallType, ReadType

LEMMA OtherVolumeType ==
  ASSUME TypeInv, OtherVolume
  PROVE  TypeInv'
<1>1. pc = "idle" /\ pc' = pc /\ call' = call /\ fds' = fds /\ scenario' = scenario /\ UNCHANGED <<disk, page>>
      /\ i' \in Indices
  BY DEF OtherVolume, told
<1>2. call = NoCall
  BY <1>1 DEF TypeInv, CallType
<1>3. DiskType'
  BY <1>1 DEF TypeInv, DiskType, disk
<1>4. StackInv'
  BY <1>1, <1>2, IdleStack
<1>5. QED
  BY <1>1, <1>3, <1>4 DEF TypeInv, CallType, ReadType

LEMMA LabelStacks == <<>> \in Seq(PCs) /\ \A l, m \in PCs : <<l>> \in Seq(PCs) /\ <<l, m>> \in Seq(PCs)
OBVIOUS

\* The labels of a call that begins.
LEMMA BeginStack ==
  ASSUME NEW l, NEW m, pc' \in PCs, call'.op \in OpsAt(pc'), call'.ret \in Seq(PCs),
         \/ call'.ret = <<>> /\ Returns(pc') = {}
         \/ /\ call'.ret = <<l>> /\ l \in Returns(pc') /\ Returns(l) = {} /\ call'.op \in OpsAt(l)
         \/ /\ call'.ret = <<l, m>> /\ l \in Returns(pc') /\ m \in Returns(l) /\ Returns(m) = {}
            /\ call'.op \in OpsAt(l) \cap OpsAt(m)
  PROVE  StackInv'
<1>1. CASE call'.ret = <<>> /\ Returns(pc') = {}
  <2>1. Len(<<>>) = 0
    OBVIOUS
  <2>2. QED
    BY <1>1, <2>1 DEF StackInv
<1>2. CASE call'.ret = <<l>> /\ l \in Returns(pc') /\ Returns(l) = {} /\ call'.op \in OpsAt(l)
  <2>1. Len(<<l>>) = 1 /\ <<l>>[1] = l /\ <<l>> # <<>>
    OBVIOUS
  <2>2. QED
    BY <1>2, <2>1 DEF StackInv
<1>3. CASE /\ call'.ret = <<l, m>> /\ l \in Returns(pc') /\ m \in Returns(l) /\ Returns(m) = {}
           /\ call'.op \in OpsAt(l) \cap OpsAt(m)
  <2>1. Len(<<l, m>>) = 2 /\ <<l, m>>[1] = l /\ <<l, m>>[2] = m /\ <<l, m>> # <<>>
    OBVIOUS
  <2>2. QED
    BY <1>3, <2>1 DEF StackInv
<1>4. QED
  BY <1>1, <1>2, <1>3

LEMMA BeginType ==
  ASSUME TypeInv, pc' # "idle", call' \in Calls, call'.op # "none", call'.fd \in Fds, call'.name \in Names,
         call'.op \in {"read", "write", "lseek", "close"} => fds'[call'.fd] # None,
         call'.op = "read" => call'.offset \in Nat /\ call'.off \in Nat /\ pc' # "read",
         fds' \in [Fds -> OpenFiles \cup {None}], scenario' = scenario, UNCHANGED <<disk, page, i>>, StackInv'
  PROVE  TypeInv'
<1>1. DiskType'
  BY SameDisk
<1>2. ReadType'
  BY DEF ReadType
<1>3. QED
  BY <1>1, <1>2 DEF TypeInv, CallType

LEMMA OpenType ==
  ASSUME TypeInv, NEW d \in Fds, NEW f \in Names, NEW op \in {"r", "r+", "w"}, Open(d, f, op)
  PROVE  TypeInv'
<1>1. /\ scenario' = scenario /\ UNCHANGED <<disk, page, i>> /\ fds' = fds /\ fds \in [Fds -> OpenFiles \cup {None}]
      /\ NoCall \in Calls /\ op \in Ops
  BY NoCallType DEF Open, TypeInv, Ops
<1>2. PICK l \in {"open_w", "opened"} : l = IF op = "w" THEN "open_w" ELSE "opened"
  OBVIOUS
<1>3. PICK rest \in Seq(PCs) : rest = <<l>>
  BY LabelStacks, LabelSets DEF Creating
<1>4. pc' = "lookup" /\ call' = Having(NoCall, [op |-> op, fd |-> d, name |-> f], [ret |-> rest])
  BY <1>2, <1>3 DEF Open, Begin
<1>5. /\ call' \in Calls /\ call'.op = op /\ call'.fd = d /\ call'.name = f /\ call'.ret = <<l>>
  BY <1>1, <1>3, <1>4 DEF Having, Calls
<1>6. /\ l \in Returns("lookup") /\ Returns(l) = {} /\ op \in OpsAt(l) /\ op \in OpsAt("lookup") /\ "lookup" \in PCs
      /\ op \notin {"none", "read", "write", "lseek", "close"}
  BY <1>2, ReturnsTable, OpsTable, LabelSets
<1>7. StackInv'
  BY <1>3, <1>4, <1>5, <1>6, BeginStack
<1>8. QED
  BY <1>1, <1>4, <1>5, <1>6, <1>7, BeginType

\* A call on an open file.
LEMMA FileHere ==
  ASSUME TypeInv, NEW d \in Fds, fds[d] # None
  PROVE  fds[d] \in OpenFiles /\ fds[d].name \in Names /\ fds[d].cursor \in Nat /\ fds[d].file_size \in Nat
         /\ fds[d].writable \in BOOLEAN
BY DEF TypeInv, OpenFiles

LEMMA FsReadType ==
  ASSUME TypeInv, NEW d \in Fds, NEW n \in Lengths, FsRead(d, n)
  PROVE  TypeInv'
<1>1. /\ scenario' = scenario /\ UNCHANGED <<disk, page, i>> /\ fds' = fds /\ fds \in [Fds -> OpenFiles \cup {None}]
      /\ NoCall \in Calls /\ n \in Nat /\ fds[d] # None /\ NoCall.off = 0
  BY NoCallType, Constants DEF FsRead, TypeInv, told, NoCall
<1>2. PICK f \in Names, o \in Int : f = fds[d].name /\ o = fds[d].cursor /\ o \in Nat
  BY <1>1, FileHere
<1>3. PICK rest \in Seq(PCs) : rest = <<"read_start", "read_end">>
  BY LabelStacks, LabelSets DEF Reading
<1>4. pc' = "lookup" /\ call' = Having(NoCall, [op |-> "read", fd |-> d, name |-> f, offset |-> o, n |-> n],
                                      [ret |-> rest])
  BY <1>2, <1>3 DEF FsRead, Begin
<1>5. /\ call' \in Calls /\ call'.op = "read" /\ call'.fd = d /\ call'.name = f
      /\ call'.ret = <<"read_start", "read_end">> /\ call'.off = NoCall.off /\ call'.offset = o
  <2>1. call' \in Calls
    BY <1>1, <1>3, <1>4 DEF Having, Calls, Ops
  <2>2. /\ call'.op = "read" /\ call'.fd = d /\ call'.name = f
        /\ call'.ret = <<"read_start", "read_end">> /\ call'.off = NoCall.off /\ call'.offset = o
    BY <1>1, <1>3, <1>4 DEF Having, Calls
  <2>3. QED
    BY <2>1, <2>2
<1>6. /\ "read_start" \in Returns("lookup") /\ "read_end" \in Returns("read_start") /\ Returns("read_end") = {}
      /\ "read" \in OpsAt("read_start") \cap OpsAt("read_end") /\ "read" \in OpsAt("lookup") /\ "lookup" \in PCs
  BY ReturnsTable, OpsTable, LabelSets
<1>7. StackInv'
  BY <1>3, <1>4, <1>5, <1>6, BeginStack
<1>8. QED
  BY <1>1, <1>2, <1>4, <1>5, <1>7, BeginType

LEMMA FsWriteType ==
  ASSUME TypeInv, NEW d \in Fds, NEW n \in Lengths, FsWrite(d, n)
  PROVE  TypeInv'
<1>1. /\ scenario' = scenario /\ UNCHANGED <<disk, page, i>> /\ fds' = fds /\ fds \in [Fds -> OpenFiles \cup {None}]
      /\ NoCall \in Calls /\ n \in Nat /\ fds[d] # None
  BY NoCallType, Constants DEF FsWrite, TypeInv, told
<1>2. PICK f \in Names, o \in Int : f = fds[d].name /\ o = fds[d].cursor
  BY <1>1, FileHere
<1>3. PICK rest \in Seq(PCs) : rest = <<"write_start", "fs_write_end">>
  BY LabelStacks, LabelSets DEF Writing
<1>4. pc' = "lookup" /\ call' = Having(NoCall, [op |-> "write", fd |-> d, name |-> f, offset |-> o, n |-> n],
                                      [ret |-> rest])
  BY <1>2, <1>3 DEF FsWrite, Begin
<1>5. /\ call' \in Calls /\ call'.op = "write" /\ call'.fd = d /\ call'.name = f
      /\ call'.ret = <<"write_start", "fs_write_end">>
  BY <1>1, <1>3, <1>4 DEF Having, Calls, Ops
<1>6. /\ "write_start" \in Returns("lookup") /\ "fs_write_end" \in Returns("write_start")
      /\ Returns("fs_write_end") = {} /\ "write" \in OpsAt("write_start") \cap OpsAt("fs_write_end")
      /\ "write" \in OpsAt("lookup") /\ "lookup" \in PCs
  BY ReturnsTable, OpsTable, LabelSets
<1>7. StackInv'
  BY <1>3, <1>4, <1>5, <1>6, BeginStack
<1>8. QED
  BY <1>1, <1>4, <1>5, <1>7, BeginType

LEMMA FsLseekType ==
  ASSUME TypeInv, NEW d \in Fds, NEW to \in scenario.seeks, FsLseek(d, to)
  PROVE  TypeInv'
<1> DEFINE end == fds[d].file_size
           pads == fds[d].writable /\ to > end
<1>1. /\ scenario' = scenario /\ UNCHANGED <<disk, page, i>> /\ fds \in [Fds -> OpenFiles \cup {None}]
      /\ NoCall \in Calls /\ to \in Nat /\ fds[d] # None
  BY NoCallType, FatxAssumption DEF FsLseek, TypeInv
<1>2. fds[d] \in OpenFiles /\ fds[d].name \in Names /\ fds[d].cursor \in Nat /\ end \in Nat
  BY <1>1, FileHere
<1>3. PICK f \in Names, e \in Int, left \in Int, chunk \in Nat, p \in {"pad", "lseek_end"} :
        /\ f = fds[d].name /\ e = end /\ p = (IF pads THEN "pad" ELSE "lseek_end")
        /\ left = (IF pads THEN to - end ELSE 0) /\ chunk = (IF pads THEN Smaller(to - end, Chunk) ELSE 0)
  <2>1. CASE pads
    <3>1. to - end \in Int /\ Smaller(to - end, Chunk) \in Nat
      BY <1>1, <1>2, <2>1, Constants DEF Smaller
    <3>2. QED
      BY <1>2, <2>1, <3>1
  <2>2. CASE ~pads
    BY <1>2, <2>2
  <2>3. QED
    BY <2>1, <2>2
<1>4. PICK rest \in Seq(PCs) : rest = <<>>
  BY LabelStacks
<1>5. /\ pc' = p
      /\ call' = Having(NoCall, [op |-> "lseek", fd |-> d, name |-> f, to |-> to, end |-> e, left |-> left,
                                 chunk |-> chunk], [ret |-> rest])
  BY <1>3, <1>4 DEF FsLseek, Begin
<1>6. /\ call' \in Calls /\ call'.op = "lseek" /\ call'.fd = d /\ call'.name = f /\ call'.ret = <<>>
  <2>1. call'.op = "lseek" /\ call'.fd = d /\ call'.name = f /\ call'.ret = rest
    BY <1>1, <1>5 DEF Having, Calls
  <2>2. "lseek" \in Ops /\ d \in Fds \cup {None} /\ f \in Names \cup {None} /\ end \in Int
    BY <1>2 DEF Ops
  <2>3. call' \in Calls
    BY <1>1, <1>5, <2>2 DEF Having, Calls
  <2>4. QED
    BY <1>4, <2>1, <2>3
<1>7. Returns(p) = {} /\ "lseek" \in OpsAt(p) /\ p \in PCs /\ p # "idle"
  BY <1>3, ReturnsTable, OpsTable, LabelSets
<1>8. StackInv'
  BY <1>4, <1>5, <1>6, <1>7, BeginStack
<1>9. fds' \in [Fds -> OpenFiles \cup {None}] /\ fds'[d] # None
  <2>1. PICK c \in Nat : c = IF pads THEN end ELSE fds[d].cursor
    BY <1>2
  <2>2. fds' = [fds EXCEPT ![d] = [fds[d] EXCEPT !.cursor = c]]
    BY <2>1 DEF FsLseek
  <2>3. [fds[d] EXCEPT !.cursor = c] \in OpenFiles
    BY <1>2, <2>1 DEF OpenFiles
  <2>4. QED
    BY <1>1, <2>2, <2>3, Constants
<1>10. QED
  BY <1>1, <1>5, <1>6, <1>7, <1>8, <1>9, BeginType

LEMMA CloseType ==
  ASSUME TypeInv, NEW d \in Fds, Close(d)
  PROVE  TypeInv'
<1>1. /\ scenario' = scenario /\ UNCHANGED <<disk, page, i>> /\ fds' = fds /\ fds \in [Fds -> OpenFiles \cup {None}]
      /\ NoCall \in Calls /\ fds[d] # None
  BY NoCallType DEF Close, TypeInv, told
<1>2. PICK f \in Names, p \in {"flush", "closed"} :
        f = fds[d].name /\ p = IF fds[d].writable THEN "flush" ELSE "closed"
  BY <1>1, FileHere
<1>3. PICK rest \in Seq(PCs) : rest = <<>>
  BY LabelStacks
<1>4. pc' = p /\ call' = Having(NoCall, [op |-> "close", fd |-> d, name |-> f], [ret |-> rest])
  BY <1>2, <1>3 DEF Close, Begin
<1>5. /\ call' \in Calls /\ call'.op = "close" /\ call'.fd = d /\ call'.name = f /\ call'.ret = <<>>
  BY <1>1, <1>3, <1>4 DEF Having, Calls, Ops
<1>6. Returns(p) = {} /\ "close" \in OpsAt(p) /\ p \in PCs /\ p # "idle"
  BY <1>2, ReturnsTable, OpsTable, LabelSets
<1>7. StackInv'
  BY <1>3, <1>4, <1>5, <1>6, BeginStack
<1>8. QED
  BY <1>1, <1>4, <1>5, <1>6, <1>7, BeginType

-----------------------------------------------------------------------------
LEMMA InitType == XInit => TypeInv
<1> SUFFICES ASSUME XInit PROVE TypeInv
  OBVIOUS
<1>1. scenario \in Scenarios /\ scenario.volume \in DOMAIN Volumes
  BY FatxAssumption DEF XInit
<1>2. fat \in [FatIndices -> Entries] /\ data \in [Clusters -> [Slots -> UnitValues]]
  BY <1>1, VolumesAssumption DEF XInit
<1>3. page \in Pages /\ DOMAIN page.ent = {}
  <2>1. page.ent \in [{} -> Entries] /\ page.dirty \in BOOLEAN /\ page = [ent |-> page.ent, dirty |-> page.dirty]
    BY DEF XInit, NoPage
  <2>2. {} \in SUBSET FatIndices
    OBVIOUS
  <2>3. QED
    BY <2>1, <2>2 DEF Pages
<1>4. DiskType
  BY <1>2, <1>3, Constants DEF DiskType, XInit
<1>5. fds \in [Fds -> OpenFiles \cup {None}]
  BY DEF XInit
<1>6. pc = "idle" /\ call = NoCall
  BY DEF XInit
<1>7. StackInv
  <2>1. call.ret = <<>> /\ call.op = "none"
    BY <1>6 DEF NoCall
  <2>2. Returns("idle") = {} /\ OpsAt("idle") = {"none"} /\ "idle" \in PCs
    BY ReturnsTable, OpsTable, LabelSets
  <2>3. <<>> \in Seq(PCs) /\ Len(<<>>) = 0
    OBVIOUS
  <2>4. QED
    BY <1>6, <2>1, <2>2, <2>3 DEF StackInv
<1>8. QED
  BY <1>1, <1>4, <1>5, <1>6, <1>7, NoCallType DEF TypeInv, CallType, ReadType

LEMMA PageType ==
  ASSUME TypeInv, FlushPage \/ LoadPage
  PROVE  TypeInv'
<1>1. DiskType'
  BY PageSteps
<1>2. scenario' = scenario /\ fds' = fds /\ pc' = pc /\ call' = call
  BY DEF FlushPage, LoadPage, told
<1>3. QED
  BY <1>1, <1>2 DEF TypeInv, CallType, StackInv, ReadType

LEMMA StepType ==
  ASSUME TypeInv, [XNext]_xvars
  PROVE  TypeInv'
<1>1. CASE Lookup \/ FindSlot \/ MarkEnd \/ DirGrown
  BY <1>1, LookupType, FindSlotType, MarkEndType, DirGrownType
<1>2. CASE Alloc \/ Scan \/ ZeroCluster \/ Attach \/ AttachEnd \/ FreeChain
  BY <1>2, AllocType, ScanType, ZeroClusterType, AttachType, AttachEndType, FreeChainType
<1>3. CASE TruncateStart \/ TruncateWalk \/ TruncateGrown \/ TruncateEnd \/ SetAttr
  BY <1>3, TruncateStartType, TruncateWalkType, TruncateGrownType, TruncateEndType, SetAttrType
<1>4. CASE Find \/ FindGrown \/ WriteStart \/ WriteExtended \/ Write \/ WriteAdvance \/ WriteGrown \/ WriteEnd
  BY <1>4, FindType, FindGrownType, WriteStartType, WriteExtendedType, WriteType, WriteAdvanceType,
     WriteGrownType, WriteEndType
<1>5. CASE ReadStart \/ Read \/ ReadAdvance \/ ReadEnd \/ FsWriteEnd
  BY <1>5, ReadStartType, ReadActionType, ReadAdvanceType, ReadEndType, FsWriteEndType
<1>6. CASE FlushPage \/ LoadPage
  BY <1>6, PageType
<1>7. CASE OpenCreate \/ Create \/ CreateDirent \/ OpenTruncated \/ Opened
  BY <1>7, OpenCreateType, CreateType, CreateDirentType, OpenTruncatedType, OpenedType
<1>8. CASE Pad \/ Padded \/ PadEnd \/ LseekEnd \/ Flushed \/ Closed \/ Finish
  BY <1>8, PadType, PaddedType, PadEndType, LseekEndType, FlushedType, ClosedType, FinishType
<1>9. CASE FsCall
  <2>1. PICK d \in Fds :
          \/ \E f \in Names, op \in {"r", "r+", "w"} : Open(d, f, op)
          \/ \E n \in Lengths : FsRead(d, n) \/ FsWrite(d, n)
          \/ \E to \in scenario.seeks : FsLseek(d, to)
          \/ Close(d)
    BY <1>9 DEF FsCall
  <2>2. QED
    BY <2>1, OpenType, FsReadType, FsWriteType, FsLseekType, CloseType
<1>10. CASE OtherVolume
  BY <1>10, OtherVolumeType
<1>11. CASE UNCHANGED xvars
  BY <1>11 DEF xvars, TypeInv, DiskType, StackInv, CallType, ReadType
<1>12. QED
  BY <1>1, <1>2, <1>3, <1>4, <1>5, <1>6, <1>7, <1>8, <1>9, <1>10, <1>11 DEF XNext, Step

LEMMA AlwaysTyped == XSpec => []TypeInv
<1>1. TypeInv /\ [XNext]_xvars => TypeInv'
  BY StepType
<1>2. QED
  BY <1>1, InitType, PTL DEF XSpec

\* The types of the disk, the page of the FAT, the allocator's index and the open files.
THEOREM XTypeCorrect == XSpec => []XTypeOK
<1>1. TypeInv => XTypeOK
  <2> SUFFICES ASSUME TypeInv PROVE XTypeOK
    OBVIOUS
  <2>1. DOMAIN page.ent \subseteq FatIndices /\ page.dirty \in BOOLEAN
    BY DEF TypeInv, DiskType, Pages
  <2>2. \A d \in Fds : fds[d] = None \/ fds[d] \in OpenFiles
    BY DEF TypeInv
  <2>3. call.fd \in Fds \cup {None}
    BY DEF TypeInv, CallType, Calls
  <2>4. QED
    BY <2>1, <2>2, <2>3 DEF XTypeOK, TypeInv, DiskType
<1>2. QED
  BY <1>1, AlwaysTyped, PTL

-----------------------------------------------------------------------------
(***************************************************************************)
(* Clusters in use                                                         *)
(***************************************************************************)

InUse(w) == {c \in Clusters : IsData(w[c]) \/ w[c] = END}

ClosedUnder(w, S) == \A c \in S : IsData(w[c]) => w[c] \in S

\* Whatever the chains from H lead to contains c.
Reached(w, H, c) == \A S \in SUBSET Clusters : H \subseteq S /\ ClosedUnder(w, S) => c \in S

\* In the FAT w the clusters in use are those of the chains that begin in H, which do not meet.
Forest(w, H) ==
  /\ H \subseteq InUse(w)
  /\ \A c \in Clusters : IsData(w[c]) => w[c] \in InUse(w) \ H
  /\ \A c, e \in Clusters : IsData(w[c]) /\ w[c] = w[e] => c = e
  /\ \A c \in InUse(w) : Reached(w, H, c)

-----------------------------------------------------------------------------
(***************************************************************************)
(* The directory                                                           *)
(***************************************************************************)

InScenario == scenario.names \cup Known(scenario.volume)

\* The slots with an entry that counts.
Live(slots) == {e \in Before(slots) : IsEntry(slots[e])}

DirectoryInv(slots) ==
  /\ \A e \in Before(slots) : slots[e] \in Dirents \cup {Deleted}
  /\ \A e \in Live(slots) : slots[e].name \in InScenario /\ slots[e].first # root_cluster
  /\ \A e, r \in Live(slots) :
       e # r => slots[e].name # slots[r].name /\ slots[e].first # slots[r].first

Directory == data[root_cluster]
Firsts(slots) == {slots[e].first : e \in Live(slots)}

\* The file f is in the directory and begins with the cluster c; it is not there.
Begins(slots, f, c) == \E e \in Live(slots) : slots[e].name = f /\ slots[e].first = c
Absent(slots, f) == \A e \in Live(slots) : slots[e].name # f

-----------------------------------------------------------------------------
(***************************************************************************)
(* Where a call is                                                         *)
(***************************************************************************)

\* The directory never grows.
Labels == PCs \ {"dir_grown", "open_failed"}

Caller == IF call.ret = <<>> THEN "idle" ELSE Head(call.ret)

\* The FAT without what a truncation has cut off but not marked yet.
Cutting == pc \in {"free", "truncate_end"}
Remaining == IF Cutting THEN [View EXCEPT ![call.cluster] = END] ELSE View

\* The clusters in use that nothing leads to yet or any more.
HasNew == pc = "zero" \/ (pc \in {"attach", "create"} /\ call.ok)
Loose ==
  IF HasNew THEN {call.new}
  ELSE IF pc \in {"slot", "mark", "dirent"} THEN {call.attr.first}
  ELSE IF pc = "free" THEN {call.victim} ELSE {}

Heads == {root_cluster} \cup Firsts(Directory)

GrowingFile == pc = "attach" \/ (pc \in Allocating /\ Caller = "attach")
InFile ==
  \/ pc \in {"truncate", "truncate_grown", "find", "find_grown", "write", "advance", "write_grown", "attach_end"}
  \/ GrowingFile
HasAttributes ==
  InFile \/ Cutting \/ pc = "set_attr" \/ (pc = "lookup" /\ Caller = "set_attr")
CreatingFile == pc \in {"create", "slot", "mark", "dirent"} \/ (pc \in Allocating /\ Caller = "create")

Common ==
  /\ pc \in Labels /\ call.ret \in Seq(Labels)
  /\ call.dir.cluster = root_cluster
  /\ call.op = "w" => call.name \in scenario.names

ChainAt ==
  /\ InFile => call.cluster \in InUse(View) \ {root_cluster}
  /\ Cutting => call.cluster # root_cluster
  /\ pc = "free" => Reached(Remaining, Heads, call.cluster)
  /\ GrowingFile => View[call.cluster] = END
  /\ HasNew \/ pc = "attach_end" => View[call.new] = END /\ call.new # root_cluster
  /\ HasNew /\ GrowingFile => call.new # call.cluster

FileAt ==
  /\ HasAttributes => Begins(Directory, call.name, call.attr.first)
  /\ pc \in {"truncate_start", "write_start", "read_start"} /\ call.ok =>
       Begins(Directory, call.name, call.found.first)
  /\ pc = "set_attr" /\ call.ok =>
       call.dir.entry \in Live(Directory) /\ Directory[call.dir.entry].name = call.name
  /\ CreatingFile \/ (pc = "open_w" /\ ~call.ok) => Absent(Directory, call.name)

SlotAt ==
  /\ pc \in {"mark", "dirent"} =>
       /\ call.dir.entry \in Slots
       /\ \A r \in 0 .. call.dir.entry - 1 : IsEntry(Directory[r])
  /\ pc = "mark" => IsEnd(Directory[call.dir.entry])
  /\ pc = "dirent" =>
       \/ Directory[call.dir.entry] = Deleted
       \/ /\ IsEnd(Directory[call.dir.entry])
          /\ call.dir.entry + 1 \in Slots /\ Directory[call.dir.entry + 1] = EndMark

WhereInv == Common /\ ChainAt /\ FileAt /\ SlotAt

Tidy ==
  /\ DirectoryInv(Directory)
  /\ Forest(Remaining, Heads \cup Loose)
  /\ Loose \cap Heads = {} /\ View[root_cluster] = END
  /\ WhereInv

StructInv == Calm => Tidy

-----------------------------------------------------------------------------
\* A cluster is taken: the chain of its own is one more.
LEMMA TakenForest ==
  ASSUME NEW w \in [FatIndices -> Entries], NEW H \in SUBSET Clusters, Forest(w, H),
         NEW c \in Clusters, w[c] = AVAILABLE
  PROVE  Forest([w EXCEPT ![c] = END], H \cup {c}) /\ c \notin H
<1> DEFINE x == [w EXCEPT ![c] = END]
<1>1. /\ x[c] = END /\ \A e \in Clusters : e # c => x[e] = w[e]
      /\ ~IsData(END) /\ ~IsData(AVAILABLE) /\ AVAILABLE # END
  BY Constants DEF IsData, END, AVAILABLE
<1>2. c \notin InUse(w) /\ InUse(x) = InUse(w) \cup {c}
  BY <1>1 DEF InUse
<1> HIDE DEF x
<1>3. H \cup {c} \subseteq InUse(x) /\ c \notin H
  BY <1>2 DEF Forest
<1>4. ASSUME NEW e \in Clusters, IsData(x[e])
      PROVE  e # c /\ x[e] = w[e] /\ x[e] \in InUse(x) \ (H \cup {c})
  BY <1>1, <1>2, <1>4 DEF Forest
<1>5. ASSUME NEW e \in Clusters, NEW d \in Clusters, IsData(x[e]), x[e] = x[d]
      PROVE  e = d
  <2>1. IsData(x[d])
    BY <1>5
  <2>2. x[e] = w[e] /\ x[d] = w[d]
    BY <1>4, <1>5, <2>1
  <2>3. QED
    BY <1>5, <2>2 DEF Forest
<1>6. ASSUME NEW e \in InUse(x), NEW S \in SUBSET Clusters, H \cup {c} \subseteq S, ClosedUnder(x, S)
      PROVE  e \in S
  <2>1. CASE e = c
    BY <1>6, <2>1
  <2>2. CASE e # c
    <3>1. ClosedUnder(w, S)
      BY <1>1, <1>6 DEF ClosedUnder
    <3>2. e \in InUse(w)
      BY <1>2, <2>2
    <3>3. QED
      BY <1>6, <3>1, <3>2 DEF Forest, Reached
  <2>3. QED
    BY <2>1, <2>2
<1>7. QED
  BY <1>3, <1>4, <1>5, <1>6 DEF Forest, Reached, x

\* A chain of one cluster is put behind another chain's end.
LEMMA AttachedForest ==
  ASSUME NEW w \in [FatIndices -> Entries], NEW H \in SUBSET Clusters, NEW n \in Clusters, n \notin H,
         Forest(w, H \cup {n}), w[n] = END, NEW c \in Clusters, w[c] = END, c # n
  PROVE  Forest([w EXCEPT ![c] = n], H)
<1> DEFINE x == [w EXCEPT ![c] = n]
<1>1. /\ x[c] = n /\ \A e \in Clusters : e # c => x[e] = w[e]
      /\ ~IsData(END) /\ IsData(n) /\ n # END
  BY Constants DEF IsData, END, Clusters
<1>2. InUse(x) = InUse(w)
  BY <1>1 DEF InUse
<1> HIDE DEF x
<1>3. H \subseteq InUse(x)
  BY <1>2 DEF Forest
<1>4. ASSUME NEW e \in Clusters, IsData(x[e])
      PROVE  x[e] \in InUse(x) \ H /\ (e # c => x[e] = w[e] /\ x[e] # n)
  BY <1>1, <1>2, <1>4 DEF Forest
<1>5. ASSUME NEW e \in Clusters, NEW d \in Clusters, IsData(x[e]), x[e] = x[d]
      PROVE  e = d
  <2>1. IsData(x[d])
    BY <1>5
  <2>2. CASE e = c \/ d = c
    BY <1>1, <1>4, <1>5, <2>1, <2>2
  <2>3. CASE e # c /\ d # c
    BY <1>1, <1>5, <2>3 DEF Forest
  <2>4. QED
    BY <2>2, <2>3
<1>6. ASSUME NEW e \in InUse(x), NEW S \in SUBSET Clusters, H \subseteq S, ClosedUnder(x, S)
      PROVE  e \in S
  <2> DEFINE T == S \cup {n}
  <2>1. T \in SUBSET Clusters /\ H \cup {n} \subseteq T
    BY <1>6
  <2>2. ClosedUnder(w, T)
    BY <1>1, <1>6 DEF ClosedUnder
  <2>3. c \in InUse(w)
    BY DEF InUse
  <2>4. e \in T /\ c \in T
    BY <1>2, <2>1, <2>2, <2>3 DEF Forest, Reached
  <2>5. n \in S
    BY <1>1, <1>6, <2>4 DEF ClosedUnder
  <2>6. QED
    BY <2>4, <2>5
<1>7. QED
  BY <1>3, <1>4, <1>5, <1>6 DEF Forest, Reached, x

\* A chain is cut behind c: what was behind it is a chain of its own, and does not lead to c.
LEMMA CutForest ==
  ASSUME NEW w \in [FatIndices -> Entries], NEW H \in SUBSET Clusters, Forest(w, H),
         NEW c \in Clusters, IsData(w[c])
  PROVE  LET x == [w EXCEPT ![c] = END]
         IN Forest(x, H \cup {w[c]}) /\ w[c] \in Clusters \ H /\ Reached(x, H, c)
<1> DEFINE x == [w EXCEPT ![c] = END]
           n == w[c]
<1>1. /\ x[c] = END /\ \A e \in Clusters : e # c => x[e] = w[e]
      /\ ~IsData(END) /\ IsData(n) /\ n # END
  BY Constants DEF IsData, END
<1>2. InUse(x) = InUse(w)
  BY <1>1 DEF InUse
<1>3. n \in InUse(w) \ H /\ n \in Clusters /\ c \in InUse(w)
  BY DEF Forest, InUse
<1> HIDE DEF x
<1>4. H \cup {n} \subseteq InUse(x)
  BY <1>2, <1>3 DEF Forest
<1>5. ASSUME NEW e \in Clusters, IsData(x[e])
      PROVE  e # c /\ x[e] = w[e] /\ x[e] \in InUse(x) \ (H \cup {n})
  BY <1>1, <1>2, <1>5 DEF Forest
<1>6. ASSUME NEW e \in Clusters, NEW d \in Clusters, IsData(x[e]), x[e] = x[d]
      PROVE  e = d
  <2>1. IsData(x[d])
    BY <1>6
  <2>2. x[e] = w[e] /\ x[d] = w[d]
    BY <1>5, <1>6, <2>1
  <2>3. QED
    BY <1>6, <2>2 DEF Forest
<1>7. ASSUME NEW e \in InUse(x), NEW S \in SUBSET Clusters, H \cup {n} \subseteq S, ClosedUnder(x, S)
      PROVE  e \in S
  <2>1. ClosedUnder(w, S)
    BY <1>1, <1>7 DEF ClosedUnder
  <2>2. QED
    BY <1>2, <1>7, <2>1 DEF Forest, Reached
<1>8. ASSUME NEW S \in SUBSET Clusters, H \subseteq S, ClosedUnder(x, S), c \notin S
      PROVE  FALSE
  <2>1. ClosedUnder(w, S)
    BY <1>1, <1>8 DEF ClosedUnder
  <2>2. QED
    BY <1>3, <1>8, <2>1 DEF Forest, Reached
<1>9. Forest(x, H \cup {n})
  BY <1>4, <1>5, <1>6, <1>7 DEF Forest, Reached
<1>10. Reached(x, H, c)
  BY <1>8 DEF Reached
<1>11. QED
  BY <1>3, <1>9, <1>10 DEF x

\* The first cluster of a chain is freed; the next one begins what is left of it.
LEMMA FreedForest ==
  ASSUME NEW w \in [FatIndices -> Entries], NEW H \in SUBSET Clusters, NEW v \in Clusters \ H,
         Forest(w, H \cup {v}), NEW c, Reached(w, H, c)
  PROVE  LET x == [w EXCEPT ![v] = AVAILABLE]
             rest == IF IsData(w[v]) THEN {w[v]} ELSE {}
         IN c # v /\ Forest(x, H \cup rest) /\ Reached(x, H, c) /\ rest \cap H = {} /\ rest \subseteq Clusters
<1> DEFINE x == [w EXCEPT ![v] = AVAILABLE]
           rest == IF IsData(w[v]) THEN {w[v]} ELSE {}
<1>1. /\ x[v] = AVAILABLE /\ \A e \in Clusters : e # v => x[e] = w[e]
      /\ ~IsData(AVAILABLE) /\ AVAILABLE # END /\ v \in InUse(w)
  BY Constants DEF IsData, END, AVAILABLE, Forest
<1>2. InUse(x) = InUse(w) \ {v}
  BY <1>1 DEF InUse
<1>3. rest \subseteq InUse(w) \ (H \cup {v}) /\ rest \subseteq Clusters
  BY DEF Forest, InUse
<1> HIDE DEF x
<1>4. H \cup rest \subseteq InUse(x)
  <2>1. H \subseteq InUse(w) /\ v \notin H
    BY DEF Forest
  <2>2. QED
    BY <1>2, <1>3, <2>1
<1>5. ASSUME NEW e \in Clusters, IsData(x[e])
      PROVE  e # v /\ x[e] = w[e] /\ x[e] \in InUse(x) \ (H \cup rest)
  <2>1. e # v /\ x[e] = w[e] /\ x[e] \in InUse(w) \ (H \cup {v})
    BY <1>1, <1>5 DEF Forest
  <2>2. x[e] \notin rest
    BY <1>5, <2>1 DEF Forest
  <2>3. QED
    BY <1>2, <2>1, <2>2
<1>6. ASSUME NEW e \in Clusters, NEW d \in Clusters, IsData(x[e]), x[e] = x[d]
      PROVE  e = d
  <2>1. IsData(x[d])
    BY <1>6
  <2>2. x[e] = w[e] /\ x[d] = w[d]
    BY <1>5, <1>6, <2>1
  <2>3. QED
    BY <1>6, <2>2 DEF Forest
\* Without v a set that is closed in the new FAT is closed in the old one.
<1>7. ASSUME NEW S \in SUBSET Clusters, H \subseteq S, ClosedUnder(x, S)
      PROVE  ClosedUnder(w, S \ {v}) /\ H \subseteq S \ {v}
  <2>1. ASSUME NEW e \in S \ {v}, IsData(w[e])
        PROVE  w[e] \in S \ {v}
    <3>1. x[e] = w[e] /\ w[e] # v
      BY <1>1, <2>1 DEF Forest
    <3>2. QED
      BY <1>7, <2>1, <3>1 DEF ClosedUnder
  <2>2. QED
    BY <1>7, <2>1 DEF ClosedUnder
<1>8. ASSUME NEW e \in InUse(x), NEW S \in SUBSET Clusters, H \cup rest \subseteq S, ClosedUnder(x, S)
      PROVE  e \in S
  <2> DEFINE T == S \cup {v}
  <2>1. ClosedUnder(w, S \ {v})
    BY <1>7, <1>8
  <2>2. ClosedUnder(w, T)
    BY <1>1, <1>8, <2>1 DEF ClosedUnder
  <2>3. T \in SUBSET Clusters /\ H \cup {v} \subseteq T
    BY <1>8
  <2>4. e \in T /\ e # v
    BY <1>2, <2>2, <2>3 DEF Forest, Reached
  <2>5. QED
    BY <2>4
<1>9. Reached(x, H, c)
  BY <1>7 DEF Reached
<1>10. c # v
  <2> DEFINE S == Clusters \ {v}
  <2>1. ClosedUnder(w, S)
    BY DEF ClosedUnder, Forest, InUse
  <2>2. QED
    BY <2>1 DEF Reached
<1>11. Forest(x, H \cup rest)
  BY <1>4, <1>5, <1>6, <1>8 DEF Forest, Reached
<1>12. QED
  BY <1>3, <1>9, <1>10, <1>11 DEF x

-----------------------------------------------------------------------------
(***************************************************************************)
(* Chains, which the properties define by a recursive function: ChainOf is *)
(* the least set that has a cluster and those its clusters lead to.        *)
(***************************************************************************)

LEMMA UpTo ==
  ASSUME NEW N \in Nat, NEW P, 0 \in P, \A k \in 0 .. N - 1 : k \in P => k + 1 \in P
  PROVE  0 .. N \subseteq P
<1> DEFINE Others == (0 .. N) \ P
<1>1. SUFFICES ASSUME Others # {} PROVE FALSE
  OBVIOUS
<1>2. Others \in SUBSET Nat
  OBVIOUS
<1>3. PICK m \in Others : \A k \in Others : m <= k
  BY <1>1, <1>2, LeastIn
<1>4. m - 1 \in 0 .. N - 1 /\ m - 1 \in P
  BY <1>3
<1>5. QED
  BY <1>4

Follow(w, c) == IF c # 0 /\ IsData(w[c]) THEN w[c] ELSE 0

LEMMA NthTable ==
  ASSUME NEW w \in [FatIndices -> Entries], NEW c \in Clusters
  PROVE  /\ Nth(w, c)[0] = c
         /\ \A k \in 0 .. NumClusters : Nth(w, c)[k] \in Clusters \cup {0}
         /\ \A k \in 0 .. NumClusters - 1 : Nth(w, c)[k + 1] = Follow(w, Nth(w, c)[k])
<1> DEFINE N == NumClusters
           Values == Clusters \cup {0}
           Body(f) == [k \in 0 .. N |-> IF k = 0 THEN c ELSE Follow(w, f[k - 1])]
           P == {m \in 0 .. N : \E f \in [0 .. N -> Values] :
                   f[0] = c /\ \A k \in 1 .. m : f[k] = Follow(w, f[k - 1])}
<1>1. N \in Nat /\ c \in Values /\ \A x \in Values : Follow(w, x) \in Values
  <2>1. \A x \in Clusters : w[x] \in Entries
    BY Constants
  <2>2. QED
    BY <2>1, Constants, DataEntry DEF Follow
<1> HIDE DEF N, Values
<1>2. 0 \in P
  <2>1. [k \in 0 .. N |-> c] \in [0 .. N -> Values] /\ [k \in 0 .. N |-> c][0] = c
    BY <1>1
  <2>2. 0 \in 0 .. N /\ \A k \in 1 .. 0 : FALSE
    BY <1>1
  <2>3. QED
    BY <2>1, <2>2
<1>3. ASSUME NEW m \in 0 .. N - 1, m \in P
      PROVE  m + 1 \in P
  <2>1. PICK f \in [0 .. N -> Values] : f[0] = c /\ \A k \in 1 .. m : f[k] = Follow(w, f[k - 1])
    BY <1>3
  <2> DEFINE g == [f EXCEPT ![m + 1] = Follow(w, f[m])]
  <2>2. /\ g \in [0 .. N -> Values] /\ g[0] = c /\ g[m + 1] = Follow(w, f[m]) /\ g[m] = f[m]
        /\ \A k \in 0 .. m : g[k] = f[k]
    BY <1>1, <2>1
  <2>3. \A k \in 1 .. m + 1 : g[k] = Follow(w, g[k - 1])
    <3> SUFFICES ASSUME NEW k \in 1 .. m + 1 PROVE g[k] = Follow(w, g[k - 1])
      OBVIOUS
    <3> HIDE DEF g
    <3>1. CASE k = m + 1
      <4>1. k - 1 = m
        BY <3>1
      <4>2. QED
        BY <2>2, <3>1, <4>1
    <3>2. CASE k # m + 1
      <4>1. k \in 1 .. m /\ k \in 0 .. m /\ k - 1 \in 0 .. m
        BY <3>2
      <4>2. QED
        BY <2>1, <2>2, <4>1
    <3>3. QED
      BY <3>1, <3>2
  <2>4. m + 1 \in 0 .. N
    BY <1>1
  <2>5. QED
    BY <2>2, <2>3, <2>4
<1>4. N \in P
  <2> HIDE DEF P
  <2>1. 0 .. N \subseteq P
    BY <1>1, <1>2, <1>3, UpTo
  <2>2. QED
    BY <1>1, <2>1
<1>5. PICK f \in [0 .. N -> Values] : f[0] = c /\ \A k \in 1 .. N : f[k] = Follow(w, f[k - 1])
  BY <1>4
<1>6. f = Body(f)
  <2>1. \A k \in 0 .. N : f[k] = IF k = 0 THEN c ELSE Follow(w, f[k - 1])
    BY <1>1, <1>5
  <2>2. QED
    BY <2>1
<1>7. Nth(w, c) = CHOOSE g : g = Body(g)
  BY DEF Nth, N, Follow
<1>8. Nth(w, c) = Body(Nth(w, c))
  BY <1>6, <1>7
<1> DEFINE n == Nth(w, c)
<1> HIDE DEF n
<1>9. n = [k \in 0 .. N |-> IF k = 0 THEN c ELSE Follow(w, n[k - 1])]
  BY <1>8 DEF n
<1>10. \A k \in 0 .. N : k # 0 => n[k] = Follow(w, n[k - 1])
  BY <1>9
<1>11. n[0] = c /\ \A k \in 0 .. N - 1 : n[k + 1] = Follow(w, n[k])
  <2>1. n[0] = c
    BY <1>1, <1>9
  <2>2. ASSUME NEW k \in 0 .. N - 1
        PROVE  n[k + 1] = Follow(w, n[k])
    <3>1. k + 1 \in 0 .. N /\ k + 1 # 0 /\ k + 1 - 1 = k
      BY <1>1
    <3>2. n[k + 1] = Follow(w, n[k + 1 - 1])
      BY <1>10, <3>1
    <3>3. QED
      BY <3>1, <3>2
  <2>3. QED
    BY <2>1, <2>2
<1>12. \A k \in 0 .. N : n[k] \in Values
  <2> DEFINE Q == {k \in 0 .. N : n[k] \in Values}
  <2>1. 0 \in Q
    BY <1>1, <1>11
  <2>2. ASSUME NEW k \in 0 .. N - 1, k \in Q PROVE k + 1 \in Q
    BY <1>1, <1>11, <2>2
  <2>3. 0 .. N \subseteq Q
    BY <1>1, <2>1, <2>2, UpTo
  <2>4. QED
    BY <2>3
<1>13. QED
  BY <1>11, <1>12 DEF n, N, Values

\* After the end come only zeroes.
LEMMA NthOver ==
  ASSUME NEW w \in [FatIndices -> Entries], NEW c \in Clusters,
         NEW j \in 0 .. NumClusters, NEW k \in 0 .. NumClusters, j <= k, Nth(w, c)[j] = 0
  PROVE  Nth(w, c)[k] = 0
<1> DEFINE n == Nth(w, c)
           Q == {x \in 0 .. NumClusters : x >= j => n[x] = 0}
<1>1. NumClusters \in Nat /\ \A x \in 0 .. NumClusters - 1 : n[x + 1] = Follow(w, n[x])
  BY NthTable, Constants
<1> HIDE DEF n
<1>2. n[j] = 0
  BY DEF n
<1>3. 0 \in Q
  BY <1>1, <1>2
<1>4. ASSUME NEW x \in 0 .. NumClusters - 1, x \in Q
      PROVE  x + 1 \in Q
  <2>1. x >= j => n[x + 1] = 0
    BY <1>1, <1>4 DEF Follow
  <2>2. QED
    BY <1>1, <1>2, <2>1
<1>5. 0 .. NumClusters \subseteq Q
  BY <1>1, <1>3, <1>4, UpTo
<1>6. QED
  BY <1>5 DEF n

LEMMA ChainClusters ==
  ASSUME NEW w \in [FatIndices -> Entries], NEW c \in Clusters
  PROVE  /\ c \in ChainOf(w, c) /\ ChainOf(w, c) \subseteq Clusters
         /\ \A e : e \in ChainOf(w, c) <=> e # 0 /\ \E k \in 0 .. NumClusters : Nth(w, c)[k] = e
<1>1. 0 \in 0 .. NumClusters /\ c # 0
  BY Constants DEF Clusters
<1>2. QED
  BY <1>1, NthTable DEF ChainOf

\* A closed set with the first cluster has the chain.
LEMMA ChainLeast ==
  ASSUME NEW w \in [FatIndices -> Entries], NEW S \in SUBSET Clusters, NEW c \in S, ClosedUnder(w, S)
  PROVE  ChainOf(w, c) \subseteq S
<1> DEFINE n == Nth(w, c)
           Q == {k \in 0 .. NumClusters : n[k] # 0 => n[k] \in S}
<1>1. /\ NumClusters \in Nat /\ n[0] = c
      /\ \A k \in 0 .. NumClusters - 1 : n[k + 1] = Follow(w, n[k])
  BY NthTable, Constants
<1> HIDE DEF n
<1>2. 0 \in Q
  BY <1>1
<1>3. ASSUME NEW k \in 0 .. NumClusters - 1, k \in Q
      PROVE  k + 1 \in Q
  BY <1>1, <1>3 DEF Follow, ClosedUnder
<1>4. 0 .. NumClusters \subseteq Q
  BY <1>1, <1>2, <1>3, UpTo
<1>5. QED
  BY <1>4, ChainClusters DEF n

\* Two FATs that agree on a closed set have the same chains in it.
LEMMA SameChain ==
  ASSUME NEW w \in [FatIndices -> Entries], NEW x \in [FatIndices -> Entries],
         NEW S \in SUBSET Clusters, NEW c \in S, ClosedUnder(w, S), \A k \in S : x[k] = w[k]
  PROVE  /\ \A k \in 0 .. NumClusters : Nth(x, c)[k] = Nth(w, c)[k]
         /\ ChainOf(x, c) = ChainOf(w, c)
<1> DEFINE n == Nth(w, c)
           m == Nth(x, c)
           Q == {k \in 0 .. NumClusters : m[k] = n[k] /\ (n[k] = 0 \/ n[k] \in S)}
<1>1. /\ NumClusters \in Nat /\ n[0] = c /\ m[0] = c
      /\ \A k \in 0 .. NumClusters - 1 : n[k + 1] = Follow(w, n[k]) /\ m[k + 1] = Follow(x, m[k])
  BY NthTable, Constants
<1> HIDE DEF n, m
<1>2. 0 \in Q
  BY <1>1
<1>3. ASSUME NEW k \in 0 .. NumClusters - 1, k \in Q
      PROVE  k + 1 \in Q
  BY <1>1, <1>3 DEF Follow, ClosedUnder
<1>4. 0 .. NumClusters \subseteq Q
  BY <1>1, <1>2, <1>3, UpTo
<1>5. \A k \in 0 .. NumClusters : m[k] = n[k]
  BY <1>4
<1>6. ChainOf(x, c) = ChainOf(w, c)
  <2>1. /\ \A e : e \in ChainOf(w, c) <=> e # 0 /\ \E k \in 0 .. NumClusters : n[k] = e
        /\ \A e : e \in ChainOf(x, c) <=> e # 0 /\ \E k \in 0 .. NumClusters : m[k] = e
    BY ChainClusters DEF m, n
  <2>2. \A e : e \in ChainOf(x, c) <=> e \in ChainOf(w, c)
    BY <1>5, <2>1
  <2>3. ChainOf(x, c) \subseteq Clusters /\ ChainOf(w, c) \subseteq Clusters
    BY ChainClusters
  <2>4. QED
    BY <2>2, <2>3
<1>7. QED
  BY <1>5, <1>6 DEF m, n

\* The chain of a head passes no cluster twice.
LEMMA NthDistinct ==
  ASSUME NEW w \in [FatIndices -> Entries], NEW H \in SUBSET Clusters, Forest(w, H), NEW c \in H,
         NEW j \in 0 .. NumClusters, NEW k \in 0 .. NumClusters, j < k, Nth(w, c)[k] # 0
  PROVE  Nth(w, c)[j] # Nth(w, c)[k]
<1> DEFINE n == Nth(w, c)
           Q == {x \in 0 .. NumClusters :
                   \A y \in 0 .. NumClusters : x < y /\ n[y] # 0 => n[x] # n[y]}
<1>1. /\ NumClusters \in Nat /\ n[0] = c
      /\ \A x \in 0 .. NumClusters : n[x] \in Clusters \cup {0}
      /\ \A x \in 0 .. NumClusters - 1 : n[x + 1] = Follow(w, n[x])
  BY NthTable, Constants
<1> HIDE DEF n
<1>2. ASSUME NEW y \in 1 .. NumClusters, n[y] # 0
      PROVE  n[y - 1] \in Clusters /\ IsData(w[n[y - 1]]) /\ n[y] = w[n[y - 1]]
  <2>1. y - 1 \in 0 .. NumClusters - 1 /\ y - 1 \in 0 .. NumClusters /\ y - 1 + 1 = y
    BY <1>1
  <2>2. n[y] = Follow(w, n[y - 1])
    BY <1>1, <2>1
  <2>3. QED
    BY <1>1, <1>2, <2>1, <2>2 DEF Follow
<1>3. 0 \in Q
  <2>1. ASSUME NEW y \in 1 .. NumClusters, n[y] # 0 PROVE n[y] # c
    BY <1>2, <2>1 DEF Forest
  <2>2. QED
    BY <1>1, <2>1
<1>4. ASSUME NEW x \in 0 .. NumClusters - 1, x \in Q
      PROVE  x + 1 \in Q
  <2>1. ASSUME NEW y \in 0 .. NumClusters, x + 1 < y, n[y] # 0, n[x + 1] = n[y]
        PROVE  FALSE
    <3>1. y \in 1 .. NumClusters /\ x + 1 \in 1 .. NumClusters /\ x + 1 - 1 = x /\ y - 1 \in 0 .. NumClusters /\ x < y - 1
      BY <1>1, <2>1
    <3>2. n[x] = n[y - 1] /\ n[y - 1] # 0
      <4>1. n[y - 1] \in Clusters /\ IsData(w[n[y - 1]]) /\ n[y] = w[n[y - 1]]
        BY <1>2, <2>1, <3>1
      <4>2. n[x] \in Clusters /\ n[x + 1] = w[n[x]]
        BY <1>2, <2>1, <3>1
      <4>3. 0 \notin Clusters
        BY DEF Clusters
      <4>4. QED
        BY <2>1, <4>1, <4>2, <4>3 DEF Forest
    <3>3. QED
      BY <1>4, <3>1, <3>2
  <2>2. x + 1 \in 0 .. NumClusters
    BY <1>1
  <2>3. QED
    BY <2>1, <2>2
<1>5. 0 .. NumClusters \subseteq Q
  BY <1>1, <1>3, <1>4, UpTo
<1>6. QED
  BY <1>5 DEF n

LEMMA ClustersFinite ==
  IsFiniteSet(Clusters) /\ Cardinality(Clusters) = NumClusters
BY Constants, FS_Interval DEF Clusters

LEMMA ChainClosed ==
  ASSUME NEW w \in [FatIndices -> Entries], NEW H \in SUBSET Clusters, Forest(w, H), NEW c \in H
  PROVE  ClosedUnder(w, ChainOf(w, c))
<1> DEFINE n == Nth(w, c)
           N == NumClusters
<1>1. /\ N \in Nat /\ n[0] = c /\ \A x \in 0 .. N : n[x] \in Clusters \cup {0}
      /\ \A x \in 0 .. N - 1 : n[x + 1] = Follow(w, n[x])
  BY NthTable, Constants
<1>2. \A j, k \in 0 .. N : j < k /\ n[k] # 0 => n[j] # n[k]
  BY NthDistinct
<1>3. \A j, k \in 0 .. N : j <= k /\ n[j] = 0 => n[k] = 0
  BY NthOver
<1>4. \A e : e \in ChainOf(w, c) <=> e # 0 /\ \E k \in 0 .. N : n[k] = e
  BY ChainClusters
<1> HIDE DEF n
<1>5. n[N] = 0
  <2> SUFFICES ASSUME n[N] # 0 PROVE FALSE
    OBVIOUS
  <2> DEFINE f == [k \in 0 .. N |-> n[k]]
  <2>1. \A k \in 0 .. N : n[k] \in Clusters
    BY <1>1, <1>3
  <2>2. \A j, k \in 0 .. N : n[j] = n[k] => j = k
    <3> SUFFICES ASSUME NEW j \in 0 .. N, NEW k \in 0 .. N, n[j] = n[k], j # k PROVE FALSE
      OBVIOUS
    <3>1. j < k \/ k < j
      BY <1>1
    <3>2. 0 \notin Clusters
      BY DEF Clusters
    <3>3. QED
      BY <1>2, <2>1, <3>1, <3>2
  <2>3. f \in Injection(0 .. N, Clusters)
    BY <2>1, <2>2 DEF Injection, IsInjective
  <2>4. Cardinality(0 .. N) <= Cardinality(Clusters)
    BY <2>3, ClustersFinite, FS_Injection
  <2>5. Cardinality(0 .. N) = N + 1
    BY <1>1, FS_Interval
  <2>6. QED
    BY <1>1, <2>4, <2>5, ClustersFinite
<1>6. ASSUME NEW e \in ChainOf(w, c), IsData(w[e])
      PROVE  w[e] \in ChainOf(w, c)
  <2>1. PICK k \in 0 .. N : e # 0 /\ n[k] = e
    BY <1>4
  <2>2. k \in 0 .. N - 1 /\ k + 1 \in 0 .. N
    BY <1>1, <1>5, <2>1
  <2>3. n[k + 1] = w[e] /\ w[e] # 0
    BY <1>1, <1>6, <2>1, <2>2 DEF Follow, IsData
  <2>4. QED
    BY <1>4, <2>2, <2>3
<1>7. QED
  BY <1>6 DEF ClosedUnder

LEMMA ChainsApart ==
  ASSUME NEW w \in [FatIndices -> Entries], NEW H \in SUBSET Clusters, Forest(w, H), NEW c \in H, NEW e \in H, c # e
  PROVE  ChainOf(w, c) \cap ChainOf(w, e) = {}
<1> DEFINE C == ChainOf(w, c)
           E == ChainOf(w, e)
           X == C \ E
<1>1. /\ C \subseteq Clusters /\ E \subseteq Clusters /\ c \in C /\ e \in E
      /\ ClosedUnder(w, C) /\ ClosedUnder(w, E)
  BY ChainClusters, ChainClosed
<1>2. \A S \in SUBSET Clusters : ClosedUnder(w, S) => (c \in S => C \subseteq S) /\ (e \in S => E \subseteq S)
  BY ChainLeast
<1> HIDE DEF C, E
\* What is in the chain of e is e or comes from there.
<1>3. ASSUME NEW d \in E, d # e
      PROVE  \E x \in E : IsData(w[x]) /\ w[x] = d
  <2> SUFFICES ASSUME \A x \in E : IsData(w[x]) => w[x] # d PROVE FALSE
    OBVIOUS
  <2>1. ClosedUnder(w, E \ {d})
    BY <1>1 DEF ClosedUnder
  <2>2. E \subseteq E \ {d}
    BY <1>1, <1>2, <1>3, <2>1
  <2>3. QED
    BY <2>2
<1>4. c \notin E
  BY <1>1, <1>3 DEF Forest
<1>5. ASSUME NEW d \in X, IsData(w[d])
      PROVE  w[d] \in X
  <2>1. w[d] \in C /\ w[d] # e
    BY <1>1, <1>5 DEF ClosedUnder, Forest
  <2>2. w[d] \notin E
    <3> SUFFICES ASSUME w[d] \in E PROVE FALSE
      OBVIOUS
    <3>1. PICK x \in E : IsData(w[x]) /\ w[x] = w[d]
      BY <1>3, <2>1
    <3>2. x = d
      BY <1>1, <3>1 DEF Forest
    <3>3. QED
      BY <3>2
  <2>3. QED
    BY <2>1, <2>2
<1>6. C \subseteq X
  BY <1>1, <1>2, <1>4, <1>5 DEF ClosedUnder
<1>7. QED
  BY <1>6 DEF C, E

LEMMA ChainEnds ==
  ASSUME NEW w \in [FatIndices -> Entries], NEW H \in SUBSET Clusters, Forest(w, H), NEW c \in H
  PROVE  \E e \in ChainOf(w, c) : w[e] = END
<1> DEFINE C == ChainOf(w, c)
           f == [e \in C |-> w[e]]
<1> SUFFICES ASSUME \A e \in C : w[e] # END PROVE FALSE
  OBVIOUS
<1>1. C \subseteq Clusters /\ c \in C /\ ClosedUnder(w, C)
  BY ChainClusters, ChainClosed
<1>2. C \subseteq InUse(w)
  <2>1. InUse(w) \in SUBSET Clusters /\ c \in InUse(w) /\ ClosedUnder(w, InUse(w))
    BY DEF InUse, Forest, ClosedUnder
  <2>2. QED
    BY <2>1, ChainLeast
<1> HIDE DEF C
<1>3. \A e \in C : IsData(w[e]) /\ w[e] \in C \ {c}
  BY <1>1, <1>2 DEF InUse, ClosedUnder, Forest
<1>4. f \in Injection(C, C \ {c})
  <2>1. \A d, e \in C : w[d] = w[e] => d = e
    BY <1>1, <1>3 DEF Forest
  <2>2. QED
    BY <1>3, <2>1 DEF Injection, IsInjective
<1>5. IsFiniteSet(C) /\ IsFiniteSet(C \ {c})
  BY <1>1, ClustersFinite, FS_Subset
<1>6. Cardinality(C \ {c}) = Cardinality(C) - 1 /\ Cardinality(C) \in Nat
  BY <1>1, <1>5, FS_RemoveElement, FS_CardinalityType
<1>7. Cardinality(C) <= Cardinality(C \ {c})
  BY <1>4, <1>5, FS_Injection
<1>8. QED
  BY <1>6, <1>7

LEMMA ChainsAreAll ==
  ASSUME NEW w \in [FatIndices -> Entries], NEW H \in SUBSET Clusters, Forest(w, H)
  PROVE  UNION {ChainOf(w, c) : c \in H} = InUse(w)
<1> DEFINE S == UNION {ChainOf(w, c) : c \in H}
<1>1. \A c \in H : c \in ChainOf(w, c) /\ ChainOf(w, c) \subseteq Clusters /\ ClosedUnder(w, ChainOf(w, c))
  BY ChainClusters, ChainClosed
<1>2. ASSUME NEW c \in H PROVE ChainOf(w, c) \subseteq InUse(w)
  <2>1. InUse(w) \in SUBSET Clusters /\ c \in InUse(w) /\ ClosedUnder(w, InUse(w))
    BY DEF InUse, Forest, ClosedUnder
  <2>2. QED
    BY <2>1, ChainLeast
<1>3. S \subseteq InUse(w)
  BY <1>2
<1>4. S \in SUBSET Clusters /\ H \subseteq S /\ ClosedUnder(w, S)
  BY <1>1 DEF ClosedUnder
<1> HIDE DEF S
<1>5. InUse(w) \subseteq S
  BY <1>4 DEF Forest, Reached
<1>6. QED
  BY <1>3, <1>5 DEF S

\* The same of a chain that is known to end.
LEMMA EndingDistinct ==
  ASSUME NEW w \in [FatIndices -> Entries], NEW c \in Clusters, NEW e \in ChainOf(w, c), w[e] = END,
         NEW j \in 0 .. NumClusters, NEW k \in 0 .. NumClusters, j < k, Nth(w, c)[k] # 0
  PROVE  Nth(w, c)[j] # Nth(w, c)[k]
<1> DEFINE n == Nth(w, c)
           N == NumClusters
<1>1. N \in Nat /\ \A x \in 0 .. N - 1 : n[x + 1] = Follow(w, n[x])
  BY NthTable, Constants
<1>2. PICK m \in 0 .. N : n[m] = e /\ e # 0
  BY ChainClusters
<1>3. \A x, y \in 0 .. N : x <= y /\ n[x] = 0 => n[y] = 0
  BY NthOver
<1> HIDE DEF n
<1>4. ASSUME NEW x \in 0 .. N - 1, n[x] = e
      PROVE  n[x + 1] = 0
  BY <1>1, <1>4 DEF Follow, IsData, END
<1>5. k <= m
  <2> SUFFICES ASSUME m < k PROVE FALSE
    BY <1>1
  <2>1. m \in 0 .. N - 1 /\ m + 1 \in 0 .. N /\ m + 1 <= k
    BY <1>1
  <2>2. n[m + 1] = 0
    BY <1>2, <1>4, <2>1
  <2>3. QED
    BY <1>3, <2>1, <2>2 DEF n
<1> SUFFICES ASSUME n[j] = n[k] PROVE FALSE
  BY DEF n
<1> DEFINE Q == {t \in 0 .. N - k : n[j + t] = n[k + t]}
<1>6. 0 \in Q
  BY <1>1
<1>7. ASSUME NEW t \in 0 .. N - k - 1, t \in Q
      PROVE  t + 1 \in Q
  <2>1. /\ j + t \in 0 .. N - 1 /\ k + t \in 0 .. N - 1 /\ t + 1 \in 0 .. N - k
        /\ j + (t + 1) = j + t + 1 /\ k + (t + 1) = k + t + 1
    BY <1>1
  <2>2. n[j + t] = n[k + t]
    BY <1>7
  <2>3. n[j + t + 1] = n[k + t + 1]
    BY <1>1, <2>1, <2>2
  <2>4. QED
    BY <2>1, <2>3
<1> HIDE DEF Q
<1>8. 0 .. N - k \subseteq Q
  <2>1. N - k \in Nat
    BY <1>1
  <2>2. QED
    BY <1>6, <1>7, <2>1, UpTo
<1>9. m - k \in 0 .. N - k /\ k + (m - k) = m /\ j + (m - k) \in 0 .. N - 1 /\ j + (m - k) + 1 <= m
      /\ j + (m - k) + 1 \in 0 .. N
  BY <1>1, <1>5
<1>10. n[j + (m - k)] = n[m]
  BY <1>8, <1>9 DEF Q
<1>11. n[j + (m - k) + 1] = 0
  BY <1>2, <1>4, <1>9, <1>10
<1>12. QED
  BY <1>2, <1>3, <1>9, <1>11

\* What an accounted volume's FAT is like.
LEMMA AccountedForest ==
  ASSUME NEW w \in [FatIndices -> Entries], NEW H \in SUBSET Clusters,
         \A c, e \in H : c # e => ChainOf(w, c) \cap ChainOf(w, e) = {},
         \A c \in H : \E e \in ChainOf(w, c) : w[e] = END,
         UNION {ChainOf(w, c) : c \in H} = InUse(w)
  PROVE  Forest(w, H)
<1> DEFINE N == NumClusters
<1>1. N \in Nat
  BY Constants
\* Every cluster in use has a place in one chain, and so has what it leads to.
<1>2. ASSUME NEW x \in InUse(w)
      PROVE  \E h \in H, k \in 0 .. N : Nth(w, h)[k] = x
  <2>1. PICK h \in H : x \in ChainOf(w, h)
    OBVIOUS
  <2>2. QED
    BY <2>1, ChainClusters
<1>3. ASSUME NEW h \in H, NEW k \in 0 .. N, Nth(w, h)[k] \in Clusters, IsData(w[Nth(w, h)[k]])
      PROVE  /\ k \in 0 .. N - 1 /\ k + 1 \in 0 .. N
             /\ Nth(w, h)[k + 1] = w[Nth(w, h)[k]] /\ w[Nth(w, h)[k]] # 0
             /\ w[Nth(w, h)[k]] \in ChainOf(w, h)
  <2> DEFINE n == Nth(w, h)
  <2>1. PICK e \in ChainOf(w, h) : w[e] = END
    OBVIOUS
  <2>2. PICK m \in 0 .. N : n[m] = e /\ e # 0
    BY ChainClusters
  <2>3. \A x \in 0 .. N - 1 : n[x + 1] = Follow(w, n[x])
    BY NthTable
  <2>4. \A x, y \in 0 .. N : x <= y /\ n[x] = 0 => n[y] = 0
    BY NthOver
  <2>5. 0 \notin Clusters /\ ~IsData(END)
    BY DEF Clusters, IsData, END
  <2> HIDE DEF n
  <2>6. k # N
    <3> SUFFICES ASSUME k = N PROVE FALSE
      OBVIOUS
    <3>1. m # N
      BY <1>3, <2>1, <2>2, <2>5 DEF n
    <3>2. m \in 0 .. N - 1 /\ m + 1 \in 0 .. N /\ m + 1 <= k
      BY <1>1, <3>1
    <3>3. n[m + 1] = 0
      BY <2>1, <2>2, <2>3, <2>5, <3>2 DEF Follow
    <3>4. n[k] = 0
      BY <2>4, <3>2, <3>3
    <3>5. QED
      BY <1>3, <2>5, <3>4 DEF n
  <2>7. k \in 0 .. N - 1 /\ k + 1 \in 0 .. N
    BY <1>1, <2>6
  <2>8. n[k + 1] = w[n[k]] /\ w[n[k]] # 0
    <3>1. n[k] # 0 /\ IsData(w[n[k]])
      BY <1>3, <2>5 DEF n
    <3>2. QED
      BY <2>3, <2>7, <3>1 DEF Follow, IsData
  <2>9. w[n[k]] \in ChainOf(w, h)
    BY <2>7, <2>8, ChainClusters DEF n
  <2>10. QED
    BY <2>7, <2>8, <2>9 DEF n
<1>4. ASSUME NEW h \in H, NEW j \in 0 .. N, NEW k \in 0 .. N, Nth(w, h)[k] # 0, Nth(w, h)[j] = Nth(w, h)[k]
      PROVE  j = k
  <2>1. PICK e \in ChainOf(w, h) : w[e] = END
    OBVIOUS
  <2>2. j < k \/ k < j \/ j = k
    BY <1>1
  <2>3. QED
    BY <1>4, <2>1, <2>2, EndingDistinct
<1>5. H \subseteq InUse(w)
  BY ChainClusters
<1>6. ASSUME NEW c \in Clusters, IsData(w[c])
      PROVE  w[c] \in InUse(w) \ H
  <2>1. PICK h \in H, k \in 0 .. N : Nth(w, h)[k] = c
    BY <1>2, <1>6 DEF InUse
  <2>2. /\ k \in 0 .. N - 1 /\ k + 1 \in 0 .. N /\ Nth(w, h)[k + 1] = w[c] /\ w[c] # 0
        /\ w[c] \in ChainOf(w, h)
    BY <1>3, <1>6, <2>1
  <2>3. w[c] \notin H
    <3> SUFFICES ASSUME w[c] \in H PROVE FALSE
      OBVIOUS
    <3>1. w[c] \in ChainOf(w, w[c])
      BY ChainClusters
    <3>2. w[c] = h
      BY <2>2, <3>1
    <3>3. Nth(w, h)[0] = h /\ 0 \in 0 .. N
      BY <1>1, NthTable
    <3>4. 0 = k + 1
      BY <1>4, <2>2, <3>2, <3>3
    <3>5. QED
      BY <3>4
  <2>4. QED
    BY <2>2, <2>3
<1>7. ASSUME NEW c \in Clusters, NEW d \in Clusters, IsData(w[c]), w[c] = w[d]
      PROVE  c = d
  <2>1. IsData(w[d])
    BY <1>7
  <2>2. PICK h \in H, k \in 0 .. N : Nth(w, h)[k] = c
    BY <1>2, <1>7 DEF InUse
  <2>3. PICK g \in H, j \in 0 .. N : Nth(w, g)[j] = d
    BY <1>2, <2>1 DEF InUse
  <2>4. /\ k + 1 \in 0 .. N /\ Nth(w, h)[k + 1] = w[c] /\ w[c] # 0 /\ w[c] \in ChainOf(w, h)
    BY <1>3, <1>7, <2>2
  <2>5. /\ j + 1 \in 0 .. N /\ Nth(w, g)[j + 1] = w[d] /\ w[d] \in ChainOf(w, g)
    BY <1>3, <2>1, <2>3
  <2>6. g = h
    BY <1>7, <2>4, <2>5
  <2>7. j + 1 = k + 1
    BY <1>4, <1>7, <2>4, <2>5, <2>6
  <2>8. QED
    BY <1>1, <2>2, <2>3, <2>6, <2>7
<1>8. ASSUME NEW c \in InUse(w), NEW S \in SUBSET Clusters, H \subseteq S, ClosedUnder(w, S)
      PROVE  c \in S
  <2>1. PICK h \in H : c \in ChainOf(w, h)
    OBVIOUS
  <2>2. h \in S
    BY <1>8
  <2>3. QED
    BY <1>8, <2>1, <2>2, ChainLeast
<1>9. QED
  BY <1>5, <1>6, <1>7, <1>8 DEF Forest, Reached

LEMMA DivMod ==
  ASSUME NEW a \in Nat, NEW b \in Nat \ {0}
  PROVE  a % b \in 0 .. b - 1 /\ a \div b \in Nat /\ a = (a \div b) * b + (a % b)
OBVIOUS

\* A directory of one cluster.
LEMMA ListedRoot ==
  ASSUME NEW w \in [FatIndices -> Entries], w[root_cluster] = END, NEW d
  PROVE  Listed(w, d) = {d[root_cluster][e] : e \in Live(d[root_cluster])}
<1> DEFINE n == Nth(w, root_cluster)
           N == NumClusters
           Unit(p) == d[n[p \div Units]][p % Units]
           positions == {p \in 0 .. Units * (N + 1) - 1 : n[p \div Units] # 0}
           ends == {p \in positions : IsEnd(Unit(p))}
           slots == d[root_cluster]
<1>1. N \in Nat /\ N > 0 /\ Units \in Nat /\ Units > 0 /\ root_cluster \in Clusters
  BY Constants
<1>2. n[0] = root_cluster /\ \A k \in 1 .. N : n[k] = 0
  <2>1. n[0] = root_cluster /\ n[0 + 1] = Follow(w, root_cluster)
    BY <1>1, NthTable
  <2>2. n[1] = 0
    BY <2>1 DEF Follow, IsData, END
  <2>3. \A k \in 1 .. N : n[k] = 0
    <3> SUFFICES ASSUME NEW k \in 1 .. N PROVE n[k] = 0
      OBVIOUS
    <3>1. 1 \in 0 .. N /\ k \in 0 .. N /\ 1 <= k
      BY <1>1
    <3>2. QED
      BY <1>1, <2>2, <3>1, NthOver
  <2>4. QED
    BY <2>1, <2>3
<1> HIDE DEF n
<1>4. Units * (N + 1) \in Nat /\ Units * (N + 1) = (N + 1) * Units /\ Units <= Units * (N + 1)
  BY <1>1
<1>3. ASSUME NEW p \in 0 .. Units * (N + 1) - 1
      PROVE  /\ p < Units => p \div Units = 0 /\ p % Units = p
             /\ p >= Units => p \div Units \in 1 .. N
  <2>0. p \in Nat /\ Units \in Nat \ {0}
    BY <1>1, <1>4
  <2>1. /\ p \div Units \in Nat /\ p % Units \in 0 .. Units - 1
        /\ p = (p \div Units) * Units + (p % Units)
    BY <2>0, DivMod
  <2> DEFINE q == p \div Units
             r == p % Units
  <2>2. q \in Nat /\ r \in 0 .. Units - 1 /\ p = q * Units + r /\ p < (N + 1) * Units
    BY <1>1, <2>1, <1>4
  <2> HIDE DEF q, r
  <2>3. ASSUME q >= 1 PROVE p >= Units
    <3>1. q * Units >= Units
      BY <1>1, <2>2, <2>3
    <3>2. QED
      BY <1>1, <2>2, <3>1
  <2>4. ASSUME q >= N + 1 PROVE FALSE
    <3>1. q * Units >= (N + 1) * Units
      BY <1>1, <2>2, <2>4
    <3>2. QED
      BY <1>1, <2>2, <3>1
  <2>5. q = 0 => p = r
    BY <1>1, <2>2
  <2>6. QED
    BY <1>1, <2>2, <2>3, <2>4, <2>5 DEF q, r
<1>5. positions = Slots
  <2>1. ASSUME NEW p \in positions PROVE p \in Slots
    <3>1. p \in 0 .. Units * (N + 1) - 1 /\ n[p \div Units] # 0
      OBVIOUS
    <3>2. ~(p \div Units \in 1 .. N)
      BY <1>2, <3>1
    <3>3. p < Units
      BY <1>1, <1>3, <3>1, <3>2
    <3>4. QED
      BY <1>1, <3>1, <3>3 DEF Slots
  <2>2. ASSUME NEW p \in Slots PROVE p \in positions
    <3>1. p \in 0 .. Units * (N + 1) - 1 /\ p < Units
      BY <1>1, <1>4 DEF Slots
    <3>2. n[p \div Units] # 0
      BY <1>2, <1>3, <3>1 DEF root_cluster
    <3>3. QED
      BY <3>1, <3>2
  <2>3. QED
    BY <2>1, <2>2
<1>6. ASSUME NEW p \in Slots PROVE Unit(p) = slots[p]
  <2>1. p \in 0 .. Units * (N + 1) - 1 /\ p < Units
    BY <1>1, <1>4 DEF Slots
  <2>2. QED
    BY <1>2, <1>3, <2>1
<1>7. Listed(w, d) = {Unit(p) : p \in {q \in positions : IsEntry(Unit(q)) /\ \A r \in ends : q < r}}
  BY DEF Listed, n
<1> HIDE DEF positions, Unit
<1>8. {q \in positions : IsEntry(Unit(q)) /\ \A r \in ends : q < r} = Live(slots)
  <2> SUFFICES ASSUME NEW q \in Slots, IsEntry(slots[q])
               PROVE  (\A r \in ends : q < r) <=> q \in Before(slots)
    BY <1>5, <1>6 DEF Live, Before
  <2>1. ends = {p \in Slots : IsEnd(slots[p])}
    BY <1>5, <1>6
  <2>2. \A r \in 0 .. q : r \in Slots
    BY <1>1 DEF Slots
  <2>3. \A r \in Slots : r \in Int /\ (q < r <=> r \notin 0 .. q)
    BY <1>1 DEF Slots
  <2>4. QED
    BY <2>1, <2>2, <2>3 DEF Before
<1>9. \A q \in Live(slots) : q \in Slots
  BY DEF Live, Before
<1>10. QED
  BY <1>6, <1>7, <1>8, <1>9

\* The disk of a forest is accounted for.
LEMMA ForestAccounted ==
  ASSUME NEW w \in [FatIndices -> Entries], NEW d \in [Clusters -> [Slots -> UnitValues]],
         w[root_cluster] = END, DirectoryInv(d[root_cluster]),
         Forest(w, {root_cluster} \cup Firsts(d[root_cluster]))
  PROVE  Accounted(w, d)
<1> DEFINE slots == d[root_cluster]
           H == {root_cluster} \cup Firsts(slots)
           L == Listed(w, d)
<1>1. L = {slots[e] : e \in Live(slots)}
  BY ListedRoot
<1>2. H = {root_cluster} \cup {u.first : u \in L}
  BY <1>1 DEF Firsts
<1>3. H \in SUBSET Clusters
  BY DEF Forest, InUse
<1>4. \A u, x \in L : u.first # root_cluster /\ (u # x => u.first # x.first)
  BY <1>1 DEF DirectoryInv
<1> HIDE DEF H, L
<1>5. \A c, e \in H : c # e => ChainOf(w, c) \cap ChainOf(w, e) = {}
  BY <1>3, ChainsApart DEF H
<1>6. \A c \in H : \E e \in ChainOf(w, c) : w[e] = END
  BY <1>3, ChainEnds DEF H
<1>7. UNION {ChainOf(w, c) : c \in H} = InUse(w)
  BY <1>3, ChainsAreAll DEF H
<1>8. QED
  BY <1>2, <1>4, <1>5, <1>6, <1>7 DEF Accounted, InUse, L

-----------------------------------------------------------------------------
LEMMA SlotsFinite ==
  IsFiniteSet(Slots) /\ Cardinality(Slots) = Units
BY Constants, FS_Interval DEF Slots

\* A file's name and what it begins with are in one slot.
LEMMA InitDirectory ==
  ASSUME XInit, Calm
  PROVE  /\ DirectoryInv(Directory) /\ Forest(fat, Heads)
         /\ fat \in [FatIndices -> Entries] /\ data \in [Clusters -> [Slots -> UnitValues]]
         /\ fat[root_cluster] = END
<1> DEFINE V == Volumes[scenario.volume]
           slots == V.data[root_cluster]
           L == Listed(V.fat, V.data)
<1>1. /\ fat = V.fat /\ data = V.data /\ V.fat[root_cluster] = END
      /\ scenario.volume \in DOMAIN Volumes
  BY FatxAssumption DEF XInit, Calm
<1>2. /\ V.fat \in [FatIndices -> Entries] /\ V.data \in [Clusters -> [Slots -> UnitValues]]
      /\ Accounted(V.fat, V.data)
      /\ \A f \in Names : Holds(V.fat, V.data, f, V.files[f])
      /\ \A e \in Before(slots) :
           /\ slots[e] \notin Names
           /\ IsEntry(slots[e]) => \A r \in Before(slots) : slots[r] = slots[e] => r = e
  BY <1>1, VolumesAssumption
<1>3. slots \in [Slots -> UnitValues] /\ Directory = slots
  BY <1>1, <1>2, Constants DEF Directory
<1>4. L = {slots[e] : e \in Live(slots)}
  BY <1>1, <1>2, ListedRoot
<1>5. Live(slots) \subseteq Before(slots) /\ Before(slots) \subseteq Slots
  BY DEF Live, Before
<1> HIDE DEF V, slots, L
<1>6. ASSUME NEW e \in Before(slots)
      PROVE  slots[e] \in Dirents \cup {Deleted} /\ (IsEntry(slots[e]) <=> e \in Live(slots))
  <2>1. slots[e] \in UnitValues /\ slots[e] \notin Names /\ ~IsEnd(slots[e])
    <3>1. e \in Slots /\ ~IsEnd(slots[e])
      BY Constants DEF Before, Slots
    <3>2. QED
      BY <1>2, <1>3, <3>1
  <2>2. QED
    BY <2>1 DEF UnitValues, IsEnd, Live
<1>7. \A e \in Live(slots) : slots[e] \in Dirents
  <2>1. Deleted \notin Dirents /\ ~IsEntry(Deleted)
    BY ValuesAssumption DEF IsEntry
  <2>2. QED
    BY <1>5, <1>6, <2>1
<1>8. IsFiniteSet(L)
  <2> DEFINE f == [e \in Live(slots) |-> slots[e]]
  <2>1. IsFiniteSet(Live(slots))
    BY <1>5, SlotsFinite, FS_Subset
  <2>2. f \in Surjection(Live(slots), L)
    BY <1>4 DEF Surjection
  <2>3. QED
    BY <2>1, <2>2, FS_Surjection
<1>9. ASSUME NEW e \in Live(slots)
      PROVE  /\ slots[e].name \in InScenario
             /\ \A r \in Live(slots) : slots[r].name = slots[e].name => r = e
  <2> DEFINE f == slots[e].name
             entries == {u \in L : u.name = f}
  <2>1. slots[e] \in L /\ slots[e] \in entries /\ f \in Names
    BY <1>4, <1>7 DEF Dirents
  <2>2. Holds(V.fat, V.data, f, V.files[f])
    BY <1>2, <2>1
  <2>3. V.files[f] # None /\ Cardinality(entries) = 1
    BY <2>1, <2>2 DEF Holds, L
  <2>4. f \in InScenario
    BY <2>1, <2>3 DEF InScenario, Known, V
  <2>5. IsFiniteSet(entries)
    BY <1>8, FS_Subset
  <2>6. PICK x : entries = {x}
    BY <2>3, <2>5, FS_Singleton
  <2>7. ASSUME NEW r \in Live(slots), slots[r].name = f PROVE r = e
    <3>1. slots[r] \in entries
      BY <1>4, <2>7
    <3>2. slots[r] = slots[e]
      BY <2>1, <2>6, <3>1
    <3>3. QED
      BY <1>2, <1>5, <1>6, <3>2
  <2>8. QED
    BY <2>4, <2>7
<1>10. Accounted(V.fat, V.data)
  BY <1>2
<1>11. \A u, x \in L : u.first # root_cluster /\ (u # x => u.first # x.first)
  BY <1>10 DEF Accounted, L
<1>12. \A e, r \in Live(slots) : slots[e].first # root_cluster /\ (slots[e] # slots[r] => slots[e].first # slots[r].first)
  BY <1>4, <1>11
<1>13. \A e, r \in Live(slots) : slots[r] = slots[e] => r = e
  BY <1>9
<1>14. DirectoryInv(slots)
  BY <1>6, <1>9, <1>12, <1>13 DEF DirectoryInv
<1> DEFINE H == {root_cluster} \cup {u.first : u \in L}
<1>15. H \in SUBSET Clusters
  BY <1>4, <1>7, Constants DEF Dirents
<1>16. H = Heads
  BY <1>3, <1>4 DEF Heads, Firsts
<1>17. /\ \A c, e \in H : c # e => ChainOf(V.fat, c) \cap ChainOf(V.fat, e) = {}
       /\ \A c \in H : \E e \in ChainOf(V.fat, c) : V.fat[e] = END
       /\ UNION {ChainOf(V.fat, c) : c \in H} = InUse(V.fat)
  BY <1>10 DEF Accounted, InUse, L
<1> HIDE DEF H
<1>18. Forest(V.fat, H)
  BY <1>2, <1>15, <1>17, AccountedForest
<1>19. QED
  BY <1>1, <1>2, <1>3, <1>14, <1>16, <1>18

LEMMA InitStruct ==
  ASSUME XInit
  PROVE  StructInv
<1> SUFFICES ASSUME Calm PROVE Tidy
  BY DEF StructInv
<1>1. /\ DirectoryInv(Directory) /\ Forest(fat, Heads)
      /\ fat \in [FatIndices -> Entries] /\ fat[root_cluster] = END
  BY InitDirectory
<1>2. View = fat
  BY <1>1 DEF XInit, View, Hit, NoPage
<1>3. pc = "idle" /\ call = NoCall
  BY DEF XInit
<1>4. Loose = {} /\ Remaining = View
  BY <1>3 DEF Loose, HasNew, Remaining, Cutting
<1>5. WhereInv
  BY <1>3 DEF WhereInv, Common, ChainAt, FileAt, SlotAt, InFile, GrowingFile, CreatingFile, HasAttributes,
     Cutting, HasNew, NoCall, Allocating, PCs, Labels
<1>6. QED
  BY <1>1, <1>2, <1>4, <1>5 DEF Tidy

-----------------------------------------------------------------------------
(***************************************************************************)
(* The moves of a call, and what they keep                                 *)
(***************************************************************************)

Fields == {"op", "name", "ret", "ok", "dir", "found", "attr", "cluster", "new", "victim"}

\* A step sets the fields of u and keeps the others but those of S.
Sets(u, S) == \A x \in Fields \ S : call'[x] = IF x \in DOMAIN u THEN u[x] ELSE call[x]

LEMMA HavingFields ==
  ASSUME call \in Calls, NEW u, NEW w, call' = Having(call, u, w)
  PROVE  \A x \in Fields : call'[x] = IF x \in DOMAIN u THEN u[x] ELSE IF x \in DOMAIN w THEN w[x] ELSE call[x]
<1>1. Fields \subseteq DOMAIN call
  BY DEF Calls, Fields
<1>2. QED
  BY <1>1 DEF Having

\* What is set is none of the fields that are the same all through a call.
Locals(u) ==
  /\ "op" \notin DOMAIN u /\ "name" \notin DOMAIN u /\ "ret" \notin DOMAIN u /\ "ok" \notin DOMAIN u
  /\ "dir" \in DOMAIN u => u.dir.cluster = root_cluster

LEMMA GoMove ==
  ASSUME TypeInv, Common, scenario' = scenario, NEW p \in Labels, NEW u, Locals(u), Go(p, u)
  PROVE  pc' = p /\ Sets(u, {}) /\ Common' /\ Caller' = Caller
<1>1. call \in Calls
  BY Here
<1>2. pc' = p /\ call' = Having(call, u, NoLocals) /\ DOMAIN NoLocals = {}
  BY DEF Go, NoLocals
<1>3. Sets(u, {})
  BY <1>1, <1>2, HavingFields DEF Sets
<1>4. /\ call'.op = call.op /\ call'.name = call.name /\ call'.ret = call.ret
      /\ call'.dir.cluster = root_cluster
  BY <1>3 DEF Sets, Fields, Locals, Common
<1>5. QED
  BY <1>2, <1>3, <1>4 DEF Common, Caller

LEMMA Pushing ==
  ASSUME NEW S, NEW l \in S, NEW m \in S, NEW ret \in Seq(S), NEW labels, labels = <<l>> \/ labels = <<l, m>>
  PROVE  labels \o ret \in Seq(S) /\ labels \o ret # <<>> /\ Head(labels \o ret) = l
<1>1. CASE labels = <<l>>
  <2>1. <<l>> \o ret \in Seq(S) /\ Len(<<l>> \o ret) = Len(ret) + 1 /\ (<<l>> \o ret)[1] = l
    BY PushOne
  <2>2. QED
    BY <1>1, <2>1
<1>2. CASE labels = <<l, m>>
  <2>1. <<l, m>> \o ret \in Seq(S) /\ Len(<<l, m>> \o ret) = Len(ret) + 2 /\ (<<l, m>> \o ret)[1] = l
    BY PushTwo
  <2>2. QED
    BY <1>2, <2>1
<1>3. QED
  BY <1>1, <1>2

LEMMA SubMove ==
  ASSUME TypeInv, Common, scenario' = scenario, NEW p \in Labels, NEW labels, NEW l \in Labels,
         NEW m \in Labels, labels = <<l>> \/ labels = <<l, m>>, NEW u, Locals(u), Sub(p, labels, u)
  PROVE  pc' = p /\ Sets(u, {"ret"}) /\ Common' /\ Caller' = l
<1> DEFINE w == [ret |-> labels \o call.ret]
<1>1. call \in Calls
  BY Here
<1>2. pc' = p /\ call' = Having(call, u, w) /\ DOMAIN w = {"ret"} /\ w.ret = labels \o call.ret
  BY DEF Sub
<1> HIDE DEF w
<1>3. \A x \in Fields : call'[x] = IF x \in DOMAIN u THEN u[x] ELSE IF x \in DOMAIN w THEN w[x] ELSE call[x]
  BY <1>1, <1>2, HavingFields
<1>4. Sets(u, {"ret"})
  BY <1>2, <1>3 DEF Sets
<1>5. /\ call'.op = call.op /\ call'.name = call.name /\ call'.ret = labels \o call.ret
      /\ call'.dir.cluster = root_cluster
  BY <1>2, <1>3 DEF Fields, Locals, Common
<1>6. call'.ret \in Seq(Labels) /\ call'.ret # <<>> /\ Head(call'.ret) = l
  BY <1>5, Pushing DEF Common
<1>7. QED
  BY <1>2, <1>4, <1>5, <1>6 DEF Common, Caller

LEMMA LookUpMove ==
  ASSUME TypeInv, Common, scenario' = scenario, NEW labels, NEW l \in Labels, NEW m \in Labels,
         labels = <<l>> \/ labels = <<l, m>>, NEW u, Locals(u), "dir" \notin DOMAIN u, LookUp(labels, u)
  PROVE  pc' = "lookup" /\ Sets(u, {"ret", "dir"}) /\ Common' /\ Caller' = l
<1> DEFINE w == [dir |-> NoCall.dir, ret |-> labels \o call.ret]
<1>1. call \in Calls
  BY Here
<1>2. /\ pc' = "lookup" /\ call' = Having(call, u, w) /\ DOMAIN w = {"dir", "ret"}
      /\ w.ret = labels \o call.ret /\ w.dir.cluster = root_cluster
  BY DEF LookUp, NoCall
<1> HIDE DEF w
<1>3. \A x \in Fields : call'[x] = IF x \in DOMAIN u THEN u[x] ELSE IF x \in DOMAIN w THEN w[x] ELSE call[x]
  BY <1>1, <1>2, HavingFields
<1>4. Sets(u, {"ret", "dir"})
  BY <1>2, <1>3 DEF Sets
<1>5. /\ call'.op = call.op /\ call'.name = call.name /\ call'.ret = labels \o call.ret
      /\ call'.dir.cluster = root_cluster
  BY <1>2, <1>3 DEF Fields, Locals
<1>6. call'.ret \in Seq(Labels) /\ call'.ret # <<>> /\ Head(call'.ret) = l
  BY <1>5, Pushing DEF Common
<1>7. "lookup" \in Labels
  BY LabelSets DEF Labels
<1>8. QED
  BY <1>2, <1>4, <1>5, <1>6, <1>7 DEF Common, Caller

LEMMA BackMove ==
  ASSUME TypeInv, Common, scenario' = scenario, Returns(pc) # {}, NEW ok, NEW u, Locals(u), Back(ok, u)
  PROVE  /\ pc' = Caller /\ pc' \in Returns(pc) /\ pc' \notin {"dir_grown", "open_failed"}
         /\ Sets(u, {"ret", "ok"}) /\ call'.ok = ok /\ Common'
<1> DEFINE w == [ok |-> ok, ret |-> Tail(call.ret)]
<1>1. call \in Calls
  BY Here
<1>2. /\ pc' = Head(call.ret) /\ call' = Having(call, u, w) /\ DOMAIN w = {"ok", "ret"}
      /\ w.ret = Tail(call.ret) /\ w.ok = ok
  BY DEF Back
<1> HIDE DEF w
<1>3. \A x \in Fields : call'[x] = IF x \in DOMAIN u THEN u[x] ELSE IF x \in DOMAIN w THEN w[x] ELSE call[x]
  BY <1>1, <1>2, HavingFields
<1>4. Sets(u, {"ret", "ok"})
  BY <1>2, <1>3 DEF Sets
<1>5. /\ call'.op = call.op /\ call'.name = call.name /\ call'.ret = Tail(call.ret) /\ call'.ok = ok
      /\ call'.dir.cluster = root_cluster
  BY <1>2, <1>3 DEF Fields, Locals, Common
<1>6. pc' \in Returns(pc) /\ call.ret # <<>>
  BY <1>2, <1>5, BackStack DEF TypeInv
<1>7. pc' \in Labels /\ call'.ret \in Seq(Labels)
  BY <1>2, <1>5, <1>6 DEF Common
<1>8. QED
  BY <1>2, <1>4, <1>5, <1>6, <1>7 DEF Common, Caller, Labels

-----------------------------------------------------------------------------
(***************************************************************************)
(* Steps that leave the FAT and the directory alone, by where they go      *)
(***************************************************************************)

Quiet == View' = View /\ Directory' = Directory /\ scenario' = scenario

Plain ==
  {"idle", "read", "read_advance", "read_end", "opened", "fs_write_end", "pad", "padded", "pad_end",
   "lseek_end", "flush", "closed", "return", "open_truncated", "write_extended", "write_end"}

\* Nothing is on the way to or from a file's chain.
Settled == Tidy /\ ~Cutting /\ Loose = {}

LEMMA Settling ==
  ASSUME Tidy, ~Cutting, pc \notin {"slot", "mark", "dirent"}, ~HasNew
  PROVE  Settled
BY DEF Settled, Loose, Cutting

LEMMA SettledForest ==
  ASSUME Settled
  PROVE  Forest(View, Heads) /\ View[root_cluster] = END /\ DirectoryInv(Directory)
BY DEF Settled, Tidy, Remaining

LEMMA QuietTo ==
  ASSUME Settled, Quiet, ~Cutting', Loose' = {}, WhereInv'
  PROVE  Tidy'
<1>1. Forest(View, Heads) /\ View[root_cluster] = END /\ DirectoryInv(Directory)
  BY SettledForest
<1>2. Heads' = Heads /\ Remaining' = View' /\ Directory' = Directory /\ View' = View
  BY DEF Quiet, Heads, Remaining
<1>3. Forest(Remaining', Heads' \cup Loose')
  BY <1>1, <1>2
<1>4. DirectoryInv(Directory)'
  BY <1>1 DEF Quiet, DirectoryInv, InScenario
<1>5. QED
  BY <1>1, <1>2, <1>3, <1>4 DEF Tidy

LEMMA PlainTo ==
  ASSUME Settled, Quiet, Common',
         \/ pc' \in Plain
         \/ pc' = "lookup" /\ Caller' # "set_attr"
         \/ pc' \in {"truncate_start", "write_start", "read_start"} /\ ~call'.ok
         \/ pc' = "open_w" /\ call'.ok
  PROVE  Tidy'
<1>1. ~Cutting' /\ Loose' = {} /\ ~HasNew' /\ ~InFile' /\ ~GrowingFile' /\ ~HasAttributes' /\ ~CreatingFile'
  BY DEF Plain, Cutting, Loose, HasNew, InFile, GrowingFile, HasAttributes, CreatingFile, Allocating
<1>2. ChainAt' /\ SlotAt' /\ FileAt'
  BY <1>1 DEF ChainAt, SlotAt, FileAt, Plain, Cutting
<1>3. QED
  BY <1>1, <1>2, QuietTo DEF WhereInv

LEMMA FileTo ==
  ASSUME Settled, Quiet, Common',
         pc' \in {"truncate", "truncate_grown", "find", "find_grown", "write", "advance", "write_grown"},
         call'.cluster \in InUse(View) \ {root_cluster}, Begins(Directory, call'.name, call'.attr.first)
  PROVE  Tidy'
<1>1. ~Cutting' /\ Loose' = {} /\ ~HasNew' /\ ~GrowingFile' /\ ~CreatingFile'
  BY DEF Cutting, Loose, HasNew, GrowingFile, CreatingFile, Allocating
<1>2. View' = View /\ Directory' = Directory
  BY DEF Quiet
<1>3. ChainAt' /\ SlotAt' /\ FileAt'
  BY <1>1, <1>2 DEF ChainAt, SlotAt, FileAt, Cutting
<1>4. QED
  BY <1>1, <1>3, QuietTo DEF WhereInv

LEMMA GrowTo ==
  ASSUME Settled, Quiet, Common',
         (pc' \in {"alloc", "scan"} /\ Caller' = "attach") \/ (pc' = "attach" /\ ~call'.ok),
         call'.cluster \in InUse(View) \ {root_cluster}, Begins(Directory, call'.name, call'.attr.first),
         View[call'.cluster] = END
  PROVE  Tidy'
<1>1. ~Cutting' /\ Loose' = {} /\ ~HasNew' /\ ~CreatingFile'
  BY DEF Cutting, Loose, HasNew, CreatingFile, Allocating
<1>2. View' = View /\ Directory' = Directory
  BY DEF Quiet
<1>3. ChainAt' /\ SlotAt' /\ FileAt'
  BY <1>1, <1>2 DEF ChainAt, SlotAt, FileAt, Cutting
<1>4. QED
  BY <1>1, <1>3, QuietTo DEF WhereInv

LEMMA CreateTo ==
  ASSUME Settled, Quiet, Common', Absent(Directory, call'.name),
         \/ pc' \in {"alloc", "scan"} /\ Caller' = "create"
         \/ pc' \in {"create", "open_w"} /\ ~call'.ok
  PROVE  Tidy'
<1>1. ~Cutting' /\ Loose' = {} /\ ~HasNew' /\ ~GrowingFile' /\ ~InFile' /\ ~HasAttributes'
  BY DEF Cutting, Loose, HasNew, GrowingFile, InFile, HasAttributes, Allocating
<1>2. View' = View /\ Directory' = Directory
  BY DEF Quiet
<1>3. ChainAt' /\ SlotAt' /\ FileAt'
  BY <1>1, <1>2 DEF ChainAt, SlotAt, FileAt, Cutting
<1>4. QED
  BY <1>1, <1>3, QuietTo DEF WhereInv

\* Where a file begins is in use, and is not the directory.
LEMMA FirstInUse ==
  ASSUME Settled, NEW f, NEW c, Begins(Directory, f, c)
  PROVE  c \in InUse(View) \ {root_cluster}
<1>1. PICK e \in Live(Directory) : Directory[e].first = c
  BY DEF Begins
<1>2. c \in Heads /\ c # root_cluster
  BY <1>1, SettledForest DEF Heads, Firsts, DirectoryInv
<1>3. QED
  BY <1>2, SettledForest DEF Forest

\* So is the next cluster of a chain.
LEMMA NextInUse ==
  ASSUME Settled, NEW c \in Clusters, IsData(View[c])
  PROVE  View[c] \in InUse(View) \ {root_cluster}
BY SettledForest DEF Forest, Heads

LEMMA Unwritten ==
  ASSUME TypeInv, UNCHANGED <<fat, data, page>>, scenario' = scenario
  PROVE  Quiet
BY DEF Quiet, View, Hit, Directory

-----------------------------------------------------------------------------
(***************************************************************************)
(* The steps of calls that neither change the FAT nor the directory        *)
(***************************************************************************)

LEMMA PlainLabels ==
  /\ Plain \subseteq Labels
  /\ \A p \in Truncating \cup Writing \cup Reading \cup {"set_attr", "find"} :
       Returns(p) # {} /\ Returns(p) \subseteq Plain
BY ReturnsTable, LabelSets DEF Plain, Labels, Truncating, Writing, Reading

LEMMA SettledAt ==
  ASSUME Tidy, pc \notin {"free", "truncate_end", "slot", "mark", "dirent", "zero"},
         pc \in {"attach", "create"} => ~call.ok
  PROVE  Settled /\ Common
BY Settling DEF Cutting, HasNew, Tidy, WhereInv

LEMMA PlainGo ==
  ASSUME TypeInv, Settled, Quiet, NEW p \in Plain, NEW u, Locals(u), Go(p, u)
  PROVE  Tidy'
<1>1. Common /\ p \in Labels /\ scenario' = scenario
  BY PlainLabels DEF Settled, Tidy, WhereInv, Quiet
<1>2. pc' = p /\ Common'
  BY <1>1, GoMove
<1>3. QED
  BY <1>2, PlainTo

LEMMA PlainReturn ==
  ASSUME TypeInv, Settled, Quiet, NEW r, Return(r)
  PROVE  Tidy'
<1> DEFINE u == [result |-> r]
<1>1. Locals(u) /\ "return" \in Plain /\ Go("return", u)
  BY DEF Return, Locals, Plain
<1> HIDE DEF u
<1>2. QED
  BY <1>1, PlainGo

LEMMA PlainBack ==
  ASSUME TypeInv, Settled, Quiet, NEW ok, NEW u, Locals(u), Back(ok, u),
         pc \in Truncating \cup Writing \cup Reading \cup {"set_attr", "find"}
  PROVE  Tidy'
<1>1. Common /\ scenario' = scenario /\ Returns(pc) # {} /\ Returns(pc) \subseteq Plain
  BY PlainLabels DEF Settled, Tidy, WhereInv, Quiet
<1>2. pc' \in Plain /\ Common'
  BY <1>1, BackMove
<1>3. QED
  BY <1>2, PlainTo

LEMMA ResultLocals ==
  /\ \A r : Locals([result |-> r])
  /\ Locals(NoLocals) /\ "dir" \notin DOMAIN NoLocals
BY DEF Locals, NoLocals

LEMMA PlainLookUp ==
  ASSUME TypeInv, Settled, Quiet, NEW labels, NEW l \in Labels \ {"set_attr"}, NEW m \in Labels,
         labels = <<l>> \/ labels = <<l, m>>, NEW u, Locals(u), "dir" \notin DOMAIN u, LookUp(labels, u)
  PROVE  Tidy'
<1>1. Common /\ scenario' = scenario
  BY DEF Settled, Tidy, WhereInv, Quiet
<1>2. pc' = "lookup" /\ Common' /\ Caller' = l
  BY <1>1, LookUpMove
<1>3. QED
  BY <1>2, PlainTo

\* The lookups that calls begin with.
LEMMA Looking ==
  {"opened", "open_w", "truncate_start", "write_start", "read_start", "pad_end", "write_extended",
   "open_truncated", "fs_write_end", "padded", "read_end"} \subseteq Labels \ {"set_attr"}
BY LabelSets DEF Labels, Truncating, Writing, Reading, Creating

LEMMA TruncateStruct ==
  ASSUME TypeInv, Settled, Quiet, NEW back \in {"open_truncated", "write_extended"}, NEW size, Truncate(back, size)
  PROVE  Tidy'
<1> DEFINE u == [goal |-> size]
<1>1. Locals(u) /\ "dir" \notin DOMAIN u /\ LookUp(<<"truncate_start", back>>, u)
  BY DEF Truncate, Locals
<1> HIDE DEF u
<1>2. back \in Labels /\ "truncate_start" \in Labels \ {"set_attr"}
  BY Looking
<1>3. QED
  BY <1>1, <1>2, PlainLookUp

LEMMA OpenTruncatedStruct ==
  ASSUME TypeInv, Tidy, OpenTruncated
  PROVE  Tidy'
<1>1. pc \in Labels /\ pc = "open_truncated" /\ Settled /\ Quiet
  BY SettledAt, Unwritten DEF OpenTruncated, disk, Tidy, WhereInv, Common, Labels
<1>2. CASE Return(-1)
  BY <1>1, <1>2, PlainReturn
<1>3. CASE LookUp(<<"opened">>, NoLocals)
  BY <1>1, <1>3, PlainLookUp, ResultLocals, Looking
<1>4. QED
  BY <1>2, <1>3 DEF OpenTruncated

LEMMA OpenedStruct ==
  ASSUME TypeInv, Tidy, Opened
  PROVE  Tidy'
<1>1. Settled /\ Quiet
  BY SettledAt, Unwritten DEF Opened, disk
<1>2. Return(0) \/ Return(-1)
  BY DEF Opened
<1>3. QED
  BY <1>1, <1>2, PlainReturn

LEMMA ReadEndStruct ==
  ASSUME TypeInv, Tidy, ReadEnd
  PROVE  Tidy'
<1>1. Settled /\ Quiet /\ Return(call.result)
  BY SettledAt, Unwritten DEF ReadEnd, disk
<1>2. QED
  BY <1>1, PlainReturn

LEMMA FsWriteEndStruct ==
  ASSUME TypeInv, Tidy, FsWriteEnd
  PROVE  Tidy'
<1>1. Settled /\ Quiet /\ Return(call.result)
  BY SettledAt, Unwritten DEF FsWriteEnd, disk
<1>2. QED
  BY <1>1, PlainReturn

LEMMA LseekEndStruct ==
  ASSUME TypeInv, Tidy, LseekEnd
  PROVE  Tidy'
<1>1. Settled /\ Quiet /\ Return(call.to)
  BY SettledAt, Unwritten DEF LseekEnd, disk
<1>2. QED
  BY <1>1, PlainReturn

LEMMA ClosedStruct ==
  ASSUME TypeInv, Tidy, Closed
  PROVE  Tidy'
<1>1. Settled /\ Quiet /\ Return(0)
  BY SettledAt, Unwritten DEF Closed, disk
<1>2. QED
  BY <1>1, PlainReturn

LEMMA FlushedStruct ==
  ASSUME TypeInv, Tidy, Flushed
  PROVE  Tidy'
<1>1. Settled /\ Quiet /\ Go("closed", NoLocals) /\ "closed" \in Plain
  BY SettledAt, Unwritten DEF Flushed, disk, Plain
<1>2. QED
  BY <1>1, PlainGo, ResultLocals

LEMMA PadEndStruct ==
  ASSUME TypeInv, Tidy, PadEnd
  PROVE  Tidy'
<1>1. Settled /\ Quiet /\ Go("lseek_end", NoLocals) /\ "lseek_end" \in Plain
  BY SettledAt, Unwritten DEF PadEnd, disk, Plain
<1>2. QED
  BY <1>1, PlainGo, ResultLocals

LEMMA PaddedStruct ==
  ASSUME TypeInv, Tidy, Padded
  PROVE  Tidy'
<1> DEFINE u == [end |-> call.end + call.result, left |-> call.left - call.result]
<1>1. Settled /\ Quiet /\ "pad" \in Plain /\ Locals(u) /\ (Return(-1) \/ Go("pad", u))
  BY SettledAt, Unwritten DEF Padded, disk, Plain, Locals
<1> HIDE DEF u
<1>2. QED
  BY <1>1, PlainReturn, PlainGo

LEMMA PadStruct ==
  ASSUME TypeInv, Tidy, Pad
  PROVE  Tidy'
<1> DEFINE u == [offset |-> call.end, n |-> call.chunk, done |-> 0]
<1>1. /\ Settled /\ Quiet /\ Locals(u) /\ "dir" \notin DOMAIN u
      /\ LookUp(<<"write_start", "padded">>, u) \/ LookUp(<<"pad_end">>, NoLocals)
  BY SettledAt, Unwritten DEF Pad, fatx_write, disk, Locals
<1> HIDE DEF u
<1>2. CASE LookUp(<<"write_start", "padded">>, u)
  BY <1>1, <1>2, PlainLookUp, Looking
<1>3. CASE LookUp(<<"pad_end">>, NoLocals)
  BY <1>1, <1>3, PlainLookUp, ResultLocals, Looking
<1>4. QED
  BY <1>1, <1>2, <1>3

LEMMA WriteExtendedStruct ==
  ASSUME TypeInv, Tidy, WriteExtended
  PROVE  Tidy'
<1>1. Settled /\ Quiet /\ pc \in Writing
  BY SettledAt, Unwritten DEF WriteExtended, disk, Writing
<1>2. CASE Back(FALSE, [result |-> -1])
  BY <1>1, <1>2, PlainBack, ResultLocals
<1>3. CASE LookUp(<<"write_start">>, NoLocals)
  BY <1>1, <1>3, PlainLookUp, ResultLocals, Looking
<1>4. QED
  BY <1>2, <1>3 DEF WriteExtended

LEMMA WriteEndStruct ==
  ASSUME TypeInv, Tidy, WriteEnd
  PROVE  Tidy'
<1>1. Settled /\ Quiet /\ pc \in Writing /\ Back(call.ok, [result |-> IF call.ok THEN call.n ELSE -1])
  BY SettledAt, Unwritten DEF WriteEnd, disk, Writing
<1>2. QED
  BY <1>1, PlainBack, ResultLocals

LEMMA ReadActionStruct ==
  ASSUME TypeInv, Tidy, Read
  PROVE  Tidy'
<1> DEFINE n == Smaller(room, call.attr.size - call.offset - call.done)
           got == [buf |-> call.buf \o [k \in 1 .. n |-> data[call.cluster][call.off + k - 1]],
                   done |-> call.done + n, result |-> call.done + n]
<1>1. /\ Settled /\ Quiet /\ pc \in Reading /\ Locals(got) /\ "read_advance" \in Plain
      /\ Go("read_advance", got) \/ Back(TRUE, got)
  BY SettledAt, Unwritten DEF Read, disk, Reading, Locals, Plain
<1> HIDE DEF got
<1>2. QED
  BY <1>1, PlainGo, PlainBack

LEMMA ReadAdvanceStruct ==
  ASSUME TypeInv, Tidy, ReadAdvance
  PROVE  Tidy'
<1> DEFINE u == [cluster |-> page.ent[call.cluster], off |-> 0]
<1>1. /\ Settled /\ Quiet /\ pc \in Reading /\ Locals(u) /\ "read" \in Plain
      /\ Go("read", u) \/ Back(FALSE, [result |-> -1])
  BY SettledAt, Unwritten DEF ReadAdvance, disk, Reading, Locals, Plain
<1> HIDE DEF u
<1>2. QED
  BY <1>1, PlainGo, PlainBack, ResultLocals

LEMMA FinishStruct ==
  ASSUME TypeInv, Tidy, Finish
  PROVE  Tidy'
<1>1. Settled /\ Quiet /\ pc' = "idle" /\ call' = NoCall
  BY SettledAt, Unwritten DEF Finish, disk
<1>2. <<>> \in Seq(Labels) /\ "idle" \in Labels
  BY LabelSets DEF Labels
<1>3. Common' /\ pc' \in Plain
  BY <1>1, <1>2 DEF Common, NoCall, Plain
<1>4. QED
  BY <1>1, <1>3, PlainTo

LEMMA OtherVolumeStruct ==
  ASSUME TypeInv, Tidy, OtherVolume
  PROVE  Tidy'
<1>1. Settled /\ Common /\ Quiet /\ pc' = "idle" /\ call' = call /\ pc = "idle"
  BY SettledAt, Unwritten DEF OtherVolume, disk
<1>2. Common' /\ pc' \in Plain
  BY <1>1 DEF Common, Plain, Quiet
<1>3. QED
  BY <1>1, <1>2, PlainTo

LEMMA BeginMove ==
  ASSUME TypeInv, Tidy, Quiet, NEW p, NEW labels, NEW u, Begin(p, labels, u), p \in Plain \/ p = "lookup",
         labels \in {<<>>, <<"opened">>, <<"open_w">>, <<"read_start", "read_end">>, <<"write_start", "fs_write_end">>},
         {"op", "name"} \subseteq DOMAIN u, "dir" \notin DOMAIN u, "ret" \notin DOMAIN u, "ok" \notin DOMAIN u,
         u.op = "w" => u.name \in scenario.names
  PROVE  Tidy'
<1> DEFINE w == [ret |-> labels]
<1>1. pc' = p /\ call' = Having(NoCall, u, w) /\ DOMAIN w = {"ret"} /\ w.ret = labels /\ pc = "idle"
  BY DEF Begin
<1> HIDE DEF w
<1>2. {"op", "name", "ret", "dir"} \subseteq DOMAIN NoCall /\ NoCall.dir.cluster = root_cluster
  BY DEF NoCall
<1>3. call'.op = u.op /\ call'.name = u.name /\ call'.ret = labels /\ call'.dir.cluster = root_cluster
  BY <1>1, <1>2 DEF Having
<1>4. p \in Labels
  BY PlainLabels, LabelSets DEF Labels
<1>5. labels \in Seq(Labels) /\ (labels # <<>> => Head(labels) # "set_attr")
  <2>1. {"opened", "open_w", "read_start", "read_end", "write_start", "fs_write_end"} \subseteq Labels
    BY Looking
  <2>2. CASE labels = <<>>
    BY <2>2
  <2>3. CASE labels = <<"opened">>
    BY <2>1, <2>3
  <2>4. CASE labels = <<"open_w">>
    BY <2>1, <2>4
  <2>5. CASE labels = <<"read_start", "read_end">>
    BY <2>1, <2>5
  <2>6. CASE labels = <<"write_start", "fs_write_end">>
    BY <2>1, <2>6
  <2>7. QED
    BY <2>2, <2>3, <2>4, <2>5, <2>6
<1>6. Common' /\ Caller' # "set_attr"
  BY <1>1, <1>3, <1>4, <1>5 DEF Common, Caller, Quiet
<1>7. Settled
  BY <1>1, SettledAt
<1>8. QED
  BY <1>1, <1>6, <1>7, PlainTo

LEMMA OpenStruct ==
  ASSUME TypeInv, Tidy, NEW d \in Fds, NEW f \in Names, NEW op \in {"r", "r+", "w"}, Open(d, f, op)
  PROVE  Tidy'
<1> DEFINE u == [op |-> op, fd |-> d, name |-> f]
           labels == <<IF op = "w" THEN "open_w" ELSE "opened">>
<1>1. /\ Begin("lookup", labels, u) /\ Quiet /\ f \in scenario.names
      /\ u.op = op /\ u.name = f /\ DOMAIN u = {"op", "fd", "name"}
      /\ labels \in {<<"opened">>, <<"open_w">>}
  BY Unwritten DEF Open, disk
<1> HIDE DEF u, labels
<1>2. QED
  BY <1>1, BeginMove

LEMMA FsReadStruct ==
  ASSUME TypeInv, Tidy, NEW d \in Fds, NEW n \in Lengths, FsRead(d, n)
  PROVE  Tidy'
<1> DEFINE u == [op |-> "read", fd |-> d, name |-> fds[d].name, offset |-> fds[d].cursor, n |-> n]
<1>1. /\ Begin("lookup", <<"read_start", "read_end">>, u) /\ Quiet
      /\ u.op = "read" /\ DOMAIN u = {"op", "fd", "name", "offset", "n"}
  BY Unwritten DEF FsRead, disk
<1> HIDE DEF u
<1>2. QED
  BY <1>1, BeginMove

LEMMA FsWriteStruct ==
  ASSUME TypeInv, Tidy, NEW d \in Fds, NEW n \in Lengths, FsWrite(d, n)
  PROVE  Tidy'
<1> DEFINE u == [op |-> "write", fd |-> d, name |-> fds[d].name, offset |-> fds[d].cursor, n |-> n]
<1>1. /\ Begin("lookup", <<"write_start", "fs_write_end">>, u) /\ Quiet
      /\ u.op = "write" /\ DOMAIN u = {"op", "fd", "name", "offset", "n"}
  BY Unwritten DEF FsWrite, disk
<1> HIDE DEF u
<1>2. QED
  BY <1>1, BeginMove

LEMMA FsLseekStruct ==
  ASSUME TypeInv, Tidy, NEW d \in Fds, NEW to \in scenario.seeks, FsLseek(d, to)
  PROVE  Tidy'
<1> DEFINE end == fds[d].file_size
           pads == fds[d].writable /\ to > end
           p == IF pads THEN "pad" ELSE "lseek_end"
           u == [op |-> "lseek", fd |-> d, name |-> fds[d].name, to |-> to,
                 end |-> end, left |-> IF pads THEN to - end ELSE 0,
                 chunk |-> IF pads THEN Smaller(to - end, Chunk) ELSE 0]
<1>1. /\ Begin(p, <<>>, u) /\ Quiet /\ p \in Plain
      /\ u.op = "lseek" /\ DOMAIN u = {"op", "fd", "name", "to", "end", "left", "chunk"}
  BY Unwritten DEF FsLseek, disk, Plain
<1> HIDE DEF u, p
<1>2. QED
  BY <1>1, BeginMove

LEMMA CloseStruct ==
  ASSUME TypeInv, Tidy, NEW d \in Fds, Close(d)
  PROVE  Tidy'
<1> DEFINE p == IF fds[d].writable THEN "flush" ELSE "closed"
           u == [op |-> "close", fd |-> d, name |-> fds[d].name]
<1>1. /\ Begin(p, <<>>, u) /\ Quiet /\ p \in Plain
      /\ u.op = "close" /\ DOMAIN u = {"op", "fd", "name"}
  BY Unwritten DEF Close, disk, Plain
<1> HIDE DEF u, p
<1>2. QED
  BY <1>1, BeginMove

\* The page is not a place of its own: what a mount finds with it stays the same.
LEMMA PageStruct ==
  ASSUME TypeInv, Tidy, FlushPage \/ LoadPage
  PROVE  Tidy'
<1>1. View' = View /\ data' = data /\ pc' = pc /\ call' = call /\ scenario' = scenario
  BY PageSteps DEF FlushPage, LoadPage, disk
<1>2. /\ Directory' = Directory /\ Caller' = Caller /\ Heads' = Heads /\ Remaining' = Remaining /\ Loose' = Loose
      /\ InScenario' = InScenario
  BY <1>1 DEF Directory, Caller, Heads, Remaining, Loose, Cutting, HasNew, InScenario
<1>3. DirectoryInv(Directory)'
  BY <1>2 DEF Tidy, DirectoryInv
<1>4. ChainAt'
  BY <1>1, <1>2 DEF Tidy, WhereInv, ChainAt, InFile, Cutting, GrowingFile, HasNew
<1>5. FileAt'
  BY <1>1, <1>2 DEF Tidy, WhereInv, FileAt, HasAttributes, InFile, Cutting, GrowingFile, CreatingFile
<1>6. SlotAt' /\ Common'
  BY <1>1, <1>2 DEF Tidy, WhereInv, SlotAt, Common
<1>7. QED
  BY <1>1, <1>2, <1>3, <1>4, <1>5, <1>6 DEF Tidy, WhereInv

-----------------------------------------------------------------------------
(***************************************************************************)
(* The steps of the directory                                              *)
(***************************************************************************)

LEMMA DirectoryType ==
  ASSUME TypeInv
  PROVE  /\ Directory \in [Slots -> UnitValues]
         /\ View \in [FatIndices -> Entries] /\ data \in [Clusters -> [Slots -> UnitValues]]
BY ViewType, Constants DEF TypeInv, DiskType, Directory

LEMMA LiveSlots ==
  ASSUME NEW slots, DirectoryInv(slots)
  PROVE  /\ Live(slots) \subseteq Before(slots) /\ Before(slots) \subseteq Slots
         /\ \A e \in Live(slots) : slots[e] \in Dirents
<1>1. Deleted \notin Dirents /\ ~IsEntry(Deleted)
  BY ValuesAssumption DEF IsEntry
<1>2. QED
  BY <1>1 DEF Live, Before, DirectoryInv

\* Where a scan of the directory stops.
LEMMA ScanStops ==
  ASSUME TypeInv, Settled \/ Tidy, pc \in {"lookup", "slot"}
  PROVE  /\ Stops = {e \in Slots : LET u == Directory[e]
                                   IN IF pc = "lookup" THEN IsEnd(u) \/ Named(u, call.name) ELSE ~IsEntry(u)}
         /\ call.dir.cluster = root_cluster
         /\ Stops # {} => /\ Least(Stops) \in Slots /\ Least(Stops) \in Nat /\ Least(Stops) \in Stops
                          /\ \A r \in Slots : r < Least(Stops) => r \notin Stops
<1>1. call.dir.cluster = root_cluster
  BY DEF Settled, Tidy, WhereInv, Common
<1>2. Stops = {e \in Slots : LET u == Directory[e]
                             IN IF pc = "lookup" THEN IsEnd(u) \/ Named(u, call.name) ELSE ~IsEntry(u)}
  BY <1>1 DEF Stops, Directory
<1>3. ASSUME Stops # {}
      PROVE  /\ Least(Stops) \in Slots /\ Least(Stops) \in Nat /\ Least(Stops) \in Stops
             /\ \A r \in Slots : r < Least(Stops) => r \notin Stops
  <2>1. Stops \in SUBSET Nat /\ Slots \subseteq Nat
    BY <1>2, Constants DEF Slots
  <2>2. \A k \in Stops : Least(Stops) <= k
    BY <1>3, <2>1, LeastIn
  <2>3. Least(Stops) \in Slots /\ Least(Stops) \in Nat /\ Least(Stops) \in Stops
    BY <1>3, LeastStop
  <2>4. QED
    BY <2>1, <2>2, <2>3
<1>4. QED
  BY <1>1, <1>2, <1>3

LEMMA FoundAt ==
  ASSUME TypeInv, Settled, pc = "lookup"
  PROVE  LET e == Least(Stops)
             u == Directory[e]
         IN IF Stops = {} \/ IsEnd(u) THEN Absent(Directory, call.name)
            ELSE e \in Live(Directory) /\ u.name = call.name
<1> DEFINE e == Least(Stops)
           u == Directory[e]
<1>1. \A r \in Stops : IsEnd(Directory[r]) \/ Named(Directory[r], call.name)
  BY ScanStops
<1>2. \A r \in Slots \ Stops : ~IsEnd(Directory[r]) /\ ~Named(Directory[r], call.name)
  BY ScanStops
<1>3. Live(Directory) \subseteq Slots /\ \A r \in Live(Directory) : IsEntry(Directory[r]) /\ ~IsEnd(Directory[r])
  <2>1. \A r \in Before(Directory) : r \in Slots /\ ~IsEnd(Directory[r])
    BY Constants DEF Before, Slots
  <2>2. QED
    BY <2>1 DEF Live
<1>4. CASE Stops = {}
  <2>1. \A r \in Live(Directory) : Directory[r].name # call.name
    BY <1>2, <1>3, <1>4 DEF Named
  <2>2. QED
    BY <1>4, <2>1 DEF Absent
<1>5. CASE Stops # {} /\ IsEnd(u)
  <2>1. e \in Nat /\ e \in Slots /\ \A r \in Slots : r < e => r \notin Stops
    BY <1>5, ScanStops
  <2> HIDE DEF e
  <2>2. \A r \in Live(Directory) : r < e
    BY <1>5, <2>1, Constants DEF Live, Before, Slots
  <2>3. \A r \in Live(Directory) : Directory[r].name # call.name
    BY <1>2, <1>3, <2>1, <2>2 DEF Named
  <2>4. QED
    BY <1>5, <2>3 DEF Absent, e
<1>6. CASE Stops # {} /\ ~IsEnd(u)
  <2>1. e \in Nat /\ e \in Stops /\ e \in Slots /\ \A r \in Slots : r < e => r \notin Stops
    BY <1>6, ScanStops
  <2>2. Named(u, call.name)
    BY <1>1, <1>6, <2>1
  <2> HIDE DEF e
  <2>3. \A r \in 0 .. e - 1 : r \in Slots /\ ~IsEnd(Directory[r])
    BY <1>2, <2>1, Constants DEF Slots
  <2>4. e \in Before(Directory)
    <3>1. \A r \in 0 .. e : ~IsEnd(Directory[r])
      BY <1>6, <2>1, <2>3
    <3>2. QED
      BY <2>1, <3>1 DEF Before
  <2>5. QED
    BY <1>6, <2>2, <2>4 DEF Live, Named, e
<1>7. QED
  BY <1>4, <1>5, <1>6

LEMMA LookUpTo ==
  ASSUME Settled, Quiet, Common', pc' \in Returns("lookup"), call'.name = call.name,
         IF call'.ok THEN /\ Begins(Directory, call.name, call'.found.first)
                          /\ call'.dir.entry \in Live(Directory) /\ Directory[call'.dir.entry].name = call.name
         ELSE Absent(Directory, call.name),
         pc' = "set_attr" => Begins(Directory, call.name, call'.attr.first)
  PROVE  Tidy'
<1>1. pc' \in {"opened", "open_w", "truncate_start", "set_attr", "write_start", "read_start", "pad_end"}
  BY ReturnsTable
<1>2. ~Cutting' /\ Loose' = {} /\ ~HasNew' /\ ~GrowingFile' /\ ~CreatingFile' /\ ~InFile'
  BY <1>1 DEF Cutting, Loose, HasNew, GrowingFile, CreatingFile, Allocating, InFile
<1>3. Directory' = Directory
  BY DEF Quiet
<1>4. HasAttributes' => pc' = "set_attr"
  BY <1>1, <1>2 DEF HasAttributes
<1>5. ChainAt' /\ SlotAt'
  BY <1>1, <1>2 DEF ChainAt, SlotAt, Cutting
<1>6. FileAt'
  BY <1>1, <1>2, <1>3, <1>4 DEF FileAt
<1>7. QED
  BY <1>2, <1>5, <1>6, QuietTo DEF WhereInv

LEMMA LookupStruct ==
  ASSUME TypeInv, Tidy, Lookup
  PROVE  Tidy'
<1> DEFINE e == Least(Stops)
           u == Directory[e]
           at == [cluster |-> root_cluster, entry |-> e]
           off == [cluster |-> root_cluster, entry |-> Units]
           found == [first |-> u.first, size |-> u.size]
<1>1. /\ pc = "lookup" /\ Settled /\ Common /\ Quiet /\ call.dir.cluster = root_cluster
      /\ scenario' = scenario /\ Returns(pc) # {} /\ Returns(pc) = Returns("lookup")
  BY SettledAt, Unwritten, ReturnsTable DEF Lookup, disk, Common
<1>2. Caller = "set_attr" => Begins(Directory, call.name, call.attr.first)
  BY <1>1 DEF Tidy, WhereInv, FileAt, HasAttributes
<1>3. ASSUME NEW ok, NEW w, Locals(w), Back(ok, w), "attr" \notin DOMAIN w,
             IF ok THEN /\ "found" \in DOMAIN w /\ Begins(Directory, call.name, w.found.first)
                        /\ "dir" \in DOMAIN w /\ w.dir.entry \in Live(Directory)
                        /\ Directory[w.dir.entry].name = call.name
             ELSE Absent(Directory, call.name)
      PROVE  Tidy'
  <2>1. pc' = Caller /\ pc' \in Returns("lookup") /\ Sets(w, {"ret", "ok"}) /\ call'.ok = ok /\ Common'
    BY <1>1, <1>3, BackMove
  <2>2. call'.name = call.name /\ call'.attr = call.attr
    BY <1>3, <2>1 DEF Sets, Fields, Locals
  <2>3. ok => call'.found = w.found /\ call'.dir = w.dir
    BY <1>3, <2>1 DEF Sets, Fields
  <2>4. QED
    BY <1>1, <1>2, <1>3, <2>1, <2>2, <2>3, LookUpTo
<1>4. IF Stops = {} \/ IsEnd(u) THEN Absent(Directory, call.name)
      ELSE e \in Live(Directory) /\ u.name = call.name
  BY <1>1, FoundAt
<1>5. data[call.dir.cluster][e] = u
  BY <1>1 DEF Directory
<1>6. CASE Stops # {} /\ IsEnd(u)
  <2>1. Back(FALSE, [dir |-> at])
    BY <1>1, <1>5, <1>6 DEF Lookup
  <2>2. Locals([dir |-> at]) /\ "attr" \notin DOMAIN [dir |-> at]
    BY DEF Locals
  <2>3. QED
    BY <1>3, <1>4, <1>6, <2>1, <2>2
<1>7. CASE Stops # {} /\ ~IsEnd(u)
  <2> DEFINE w == [dir |-> at, found |-> found]
  <2>1. Back(TRUE, w)
    BY <1>1, <1>5, <1>7 DEF Lookup
  <2>2. Locals(w) /\ "attr" \notin DOMAIN w /\ "found" \in DOMAIN w /\ "dir" \in DOMAIN w
    BY DEF Locals
  <2>3. Begins(Directory, call.name, w.found.first)
    BY <1>4, <1>7 DEF Begins
  <2>4. w.dir.entry \in Live(Directory) /\ Directory[w.dir.entry].name = call.name
    BY <1>4, <1>7
  <2> HIDE DEF w
  <2>5. QED
    BY <1>3, <2>1, <2>2, <2>3, <2>4
<1>8. CASE Stops = {}
  <2>1. Hit(root_cluster) /\ page.ent[root_cluster] = View[root_cluster] /\ View[root_cluster] = END
    BY <1>1, <1>8, SettledForest, ViewType DEF Lookup, TypeInv
  <2>2. ~IsData(page.ent[root_cluster])
    BY <2>1 DEF IsData, END
  <2>3. Back(FALSE, [dir |-> off])
    BY <1>1, <1>8, <2>2 DEF Lookup
  <2>4. Locals([dir |-> off]) /\ "attr" \notin DOMAIN [dir |-> off]
    BY DEF Locals
  <2>5. QED
    BY <1>3, <1>4, <1>8, <2>3, <2>4
<1>9. QED
  BY <1>6, <1>7, <1>8

\* A file that is not there yet has room in front of the directory's last slot.
LEMMA Room ==
  ASSUME TypeInv, Calm, NEW slots, DirectoryInv(slots), NEW f \in InScenario, Absent(slots, f),
         NEW e \in Nat, e <= Units, \A r \in 0 .. e - 1 : IsEntry(slots[r])
  PROVE  e + 1 < Units
<1> DEFINE R == 0 .. e - 1
           T == InScenario \ {f}
           name == [r \in R |-> slots[r].name]
<1>1. IsFiniteSet(InScenario) /\ Cardinality(InScenario) < Units
  <2>1. InScenario \subseteq Names
    BY FatxAssumption DEF InScenario, Known, TypeInv
  <2>2. QED
    BY <2>1, FatxAssumption, FS_Subset DEF Calm, InScenario
<1>2. IsFiniteSet(T) /\ Cardinality(T) = Cardinality(InScenario) - 1 /\ Cardinality(InScenario) \in Nat
  BY <1>1, FS_RemoveElement, FS_CardinalityType
<1>3. R \subseteq Live(slots)
  <2>1. R \subseteq Slots
    BY Constants DEF Slots
  <2>2. \A r \in R : ~IsEnd(slots[r])
    BY DEF IsEntry, IsEnd
  <2>3. \A r \in R : r \in Before(slots)
    BY <2>1, <2>2 DEF Before
  <2>4. QED
    BY <2>3 DEF Live
<1>4. name \in Injection(R, T)
  <2>1. name \in [R -> T]
    BY <1>3 DEF DirectoryInv, Absent
  <2>2. \A r, s \in R : name[r] = name[s] => r = s
    BY <1>3 DEF DirectoryInv
  <2>3. QED
    BY <2>1, <2>2 DEF Injection, IsInjective
<1>5. Cardinality(R) <= Cardinality(T)
  BY <1>2, <1>4, FS_Injection
<1>6. Cardinality(R) = e
  BY FS_Interval
<1>7. QED
  BY <1>1, <1>2, <1>5, <1>6, Constants

\* On the way to the slot that is taken for a new file.
LEMMA SlotTo ==
  ASSUME Tidy, pc \in {"slot", "mark"}, View' = View, scenario' = scenario, Common',
         DirectoryInv(Directory'), Live(Directory') = Live(Directory),
         \A e \in Live(Directory) : Directory'[e] = Directory[e],
         pc' \in {"mark", "dirent"}, SlotAt', call'.name = call.name, call'.attr = call.attr
  PROVE  Tidy'
<1>1. ~Cutting /\ ~HasNew /\ Loose = {call.attr.first} /\ CreatingFile
  BY DEF Cutting, Loose, HasNew, CreatingFile
<1>2. /\ ~Cutting' /\ Loose' = {call.attr.first} /\ ~HasNew' /\ ~GrowingFile' /\ ~InFile' /\ ~HasAttributes'
  BY DEF Cutting, Loose, HasNew, GrowingFile, InFile, HasAttributes, Allocating
<1>3. Firsts(Directory') = Firsts(Directory)
  BY DEF Firsts
<1>4. Heads' = Heads /\ Remaining' = View /\ Remaining = View
  BY <1>1, <1>2, <1>3 DEF Heads, Remaining
<1>5. Absent(Directory', call'.name)
  BY <1>1 DEF Tidy, WhereInv, FileAt, Absent
<1>6. FileAt' /\ ChainAt'
  BY <1>2, <1>5 DEF FileAt, ChainAt, Cutting
<1>7. DirectoryInv(Directory)'
  BY DEF DirectoryInv, InScenario
<1>8. QED
  BY <1>1, <1>2, <1>4, <1>6, <1>7 DEF Tidy, WhereInv

LEMMA FindSlotStruct ==
  ASSUME TypeInv, Tidy, Calm, FindSlot
  PROVE  Tidy'
<1> DEFINE e == Least(Stops)
           p == IF Directory[e] = Deleted THEN "dirent" ELSE "mark"
           u == [dir |-> [cluster |-> root_cluster, entry |-> e]]
<1>1. /\ pc = "slot" /\ Common /\ Quiet /\ call.dir.cluster = root_cluster /\ call.op = "w"
      /\ scenario' = scenario /\ DirectoryInv(Directory)
  BY Unwritten, OpsTable, LabelSets DEF FindSlot, disk, Common, Tidy, WhereInv, TypeInv, StackInv
<1>2. Stops = {r \in Slots : ~IsEntry(Directory[r])}
  BY <1>1, ScanStops
<1>3. Absent(Directory, call.name) /\ call.name \in InScenario
  BY <1>1 DEF Tidy, WhereInv, FileAt, CreatingFile, Common, InScenario
<1>4. Stops # {}
  <2>1. SUFFICES ASSUME Stops = {}
                 PROVE  FALSE
    OBVIOUS
  <2>2. \A r \in 0 .. Units - 1 : IsEntry(Directory[r])
    BY <1>2, <2>1 DEF Slots
  <2>3. Units + 1 < Units
    BY <1>1, <1>3, <2>2, Room, Constants
  <2>4. QED
    BY <2>3, Constants
<1>5. /\ e \in Nat /\ e \in Slots /\ ~IsEntry(Directory[e])
      /\ \A r \in 0 .. e - 1 : r \in Slots /\ IsEntry(Directory[r])
  <2>1. e \in Nat /\ e \in Stops /\ \A r \in Slots : r < e => r \notin Stops
    BY <1>1, <1>4, ScanStops
  <2> HIDE DEF e
  <2>2. QED
    BY <1>2, <2>1, Constants DEF Slots
<1>6. Go(p, u)
  BY <1>1, <1>4 DEF FindSlot, Directory
<1>7. /\ u.dir.cluster = root_cluster /\ u.dir.entry = e /\ Locals(u) /\ p \in Labels /\ DOMAIN u = {"dir"}
  BY LabelSets DEF Locals, Labels
<1>8. Directory[e] # Deleted => IsEnd(Directory[e])
  <2> HIDE DEF e
  <2>1. SUFFICES ASSUME ~IsEnd(Directory[e])
                 PROVE  Directory[e] = Deleted
    OBVIOUS
  <2>2. \A r \in 0 .. e - 1 : ~IsEnd(Directory[r])
    BY <1>5 DEF IsEnd, IsEntry
  <2>3. e \in Before(Directory)
    BY <1>5, <2>1, <2>2 DEF Before
  <2>4. Directory[e] \in Dirents \cup {Deleted}
    BY <1>1, <2>3 DEF DirectoryInv
  <2>5. \A x \in Dirents : IsEntry(x)
    BY ValuesAssumption DEF IsEntry
  <2>6. QED
    BY <1>5, <2>4, <2>5
<1> HIDE DEF u, e
<1>9. pc' = p /\ Sets(u, {}) /\ Common'
  BY <1>1, <1>6, <1>7, GoMove
<1>10. call'.dir.entry = e /\ call'.name = call.name /\ call'.attr = call.attr
  BY <1>7, <1>9 DEF Sets, Fields
<1>11. Directory' = Directory /\ View' = View
  BY <1>1 DEF Quiet
<1>12. SlotAt'
  BY <1>5, <1>8, <1>9, <1>10, <1>11 DEF SlotAt
<1>13. pc' \in {"mark", "dirent"} /\ DirectoryInv(Directory')
  BY <1>1, <1>9, <1>11
<1>14. QED
  BY <1>1, <1>9, <1>10, <1>11, <1>12, <1>13, SlotTo

LEMMA PlaceInCluster ==
  ASSUME NEW e \in Slots, NEW c \in Clusters
  PROVE  Place(c, e) = <<c, e>>
<1>1. e \div Units = 0 /\ e % Units = e
  BY Constants DEF Slots
<1>2. QED
  BY <1>1 DEF Place, Clusters

\* The entries of the directory.
Entered(slots) == {slots[e] : e \in Live(slots)}

\* A step changes only the directory, and there no entry of another file.
DirectoryWritten ==
  /\ \A k \in Clusters \ {root_cluster} : data'[k] = data[k]
  /\ {u \in Entered(Directory) : u.name # call.name} = {u \in Entered(Directory') : u.name # call.name}

\* Writing a slot of the directory.
LEMMA StoreSlot ==
  ASSUME TypeInv, NEW e \in Slots, NEW x, StoreUnit(Place(root_cluster, e), x)
  PROVE  Directory' = [Directory EXCEPT ![e] = x] /\ \A k \in Clusters \ {root_cluster} : data'[k] = data[k]
<1>1. Place(root_cluster, e) = <<root_cluster, e>>
  BY PlaceInCluster, Constants
<1>2. data' = [data EXCEPT ![root_cluster] = [data[root_cluster] EXCEPT ![e] = x]]
  BY <1>1 DEF StoreUnit
<1>3. QED
  BY <1>2, DirectoryType, Constants DEF Directory

LEMMA MarkEndStruct ==
  ASSUME TypeInv, Tidy, Calm, MarkEnd
  PROVE  Tidy' /\ DirectoryWritten
<1> DEFINE e == call.dir.entry
<1>1. /\ pc = "mark" /\ Common /\ call.dir.cluster = root_cluster /\ call.op = "w"
      /\ scenario' = scenario /\ DirectoryInv(Directory) /\ e \in Slots
      /\ IsEnd(Directory[e]) /\ \A r \in 0 .. e - 1 : IsEntry(Directory[r])
  BY OpsTable, LabelSets DEF MarkEnd, disk, Common, Tidy, WhereInv, SlotAt, TypeInv, StackInv
<1>2. View' = View
  BY DEF MarkEnd, View, Hit
<1>3. Absent(Directory, call.name) /\ call.name \in InScenario
  BY <1>1 DEF Tidy, WhereInv, FileAt, CreatingFile, Common, InScenario
<1>4. e + 1 \in Slots /\ e \in Nat
  <2>1. e \in Nat /\ e <= Units
    BY <1>1, Constants DEF Slots
  <2> HIDE DEF e
  <2>2. e + 1 < Units
    BY <1>1, <1>3, <2>1, Room
  <2>3. QED
    BY <2>1, <2>2, Constants DEF Slots
<1>5. /\ Directory' = [Directory EXCEPT ![e + 1] = EndMark] /\ Go("dirent", NoLocals)
      /\ \A k \in Clusters \ {root_cluster} : data'[k] = data[k]
  BY <1>1, <1>4, StoreSlot DEF MarkEnd
<1>6. pc' = "dirent" /\ Sets(NoLocals, {}) /\ Common'
  BY <1>1, <1>5, GoMove, ResultLocals, LabelSets DEF Labels
<1>7. call'.dir = call.dir /\ call'.name = call.name /\ call'.attr = call.attr
  BY <1>6 DEF Sets, Fields, NoLocals
<1>8. DOMAIN Directory = Slots /\ \A r \in Slots : r <= e => Directory'[r] = Directory[r]
  BY <1>4, <1>5, DirectoryType
<1> HIDE DEF e
<1>9. Before(Directory') = Before(Directory) /\ \A r \in Before(Directory) : r < e
  <2>1. \A r \in Slots : r \in Nat
    BY Constants DEF Slots
  <2>2. IsEnd(Directory'[e])
    BY <1>1, <1>4, <1>8
  <2>3. ASSUME NEW r \in Slots
        PROVE  /\ r \in Before(Directory) <=> r < e
               /\ r \in Before(Directory') <=> r < e
    <3>1. CASE r < e
      <4>1. \A s \in 0 .. r : s \in Slots /\ s <= e /\ IsEntry(Directory[s]) /\ Directory'[s] = Directory[s]
        BY <1>1, <1>4, <1>8, <2>1, <3>1, Constants DEF Slots
      <4>2. \A s \in 0 .. r : ~IsEnd(Directory[s]) /\ ~IsEnd(Directory'[s])
        BY <4>1 DEF IsEnd, IsEntry
      <4>3. QED
        BY <3>1, <4>2 DEF Before
    <3>2. CASE ~(r < e)
      <4>1. e \in 0 .. r
        BY <1>4, <2>1, <3>2
      <4>2. QED
        BY <1>1, <2>2, <3>2, <4>1 DEF Before
    <3>3. QED
      BY <3>1, <3>2
  <2>4. QED
    BY <2>3 DEF Before
<1>10. \A r \in Before(Directory) : Directory'[r] = Directory[r]
  BY <1>4, <1>8, <1>9, Constants DEF Before, Slots
<1>11. Live(Directory') = Live(Directory) /\ Live(Directory) \subseteq Before(Directory)
  BY <1>9, <1>10 DEF Live
<1>12. DirectoryInv(Directory')
  BY <1>1, <1>9, <1>10, <1>11 DEF DirectoryInv
<1>13. SlotAt'
  <2>1. call'.dir.entry = e /\ e \in Slots /\ e + 1 \in Slots
    BY <1>1, <1>4, <1>7 DEF e
  <2>2. Directory'[e] = Directory[e] /\ Directory'[e + 1] = EndMark
    BY <1>1, <1>4, <1>5, DirectoryType
  <2>3. \A r \in 0 .. e - 1 : IsEntry(Directory'[r])
    BY <1>1, <1>4, <1>8, Constants DEF Slots
  <2>4. QED
    BY <1>1, <1>6, <2>1, <2>2, <2>3 DEF SlotAt
<1>14. Entered(Directory') = Entered(Directory)
  BY <1>10, <1>11 DEF Entered
<1>15. QED
  BY <1>1, <1>2, <1>5, <1>6, <1>7, <1>10, <1>11, <1>12, <1>13, <1>14, SlotTo DEF DirectoryWritten

-----------------------------------------------------------------------------
(***************************************************************************)
(* The steps of clusters                                                   *)
(***************************************************************************)

LEMMA CallerReturns ==
  ASSUME TypeInv, Common, Returns(pc) # {}
  PROVE  Caller \in Returns(pc) /\ Caller \in Labels
<1>1. call.ret # <<>> /\ call.ret[1] \in Returns(pc)
  BY DEF TypeInv, StackInv
<1>2. Head(call.ret) = call.ret[1] /\ call.ret[1] \in Labels
  BY <1>1 DEF Common
<1>3. QED
  BY <1>1, <1>2 DEF Caller

\* What an allocation is for.
LEMMA Allocation ==
  ASSUME TypeInv, Tidy, pc \in Allocating
  PROVE  /\ Caller \in {"create", "attach"}
         /\ Caller = "attach" => /\ call.cluster \in InUse(View) \ {root_cluster} /\ View[call.cluster] = END
                                 /\ Begins(Directory, call.name, call.attr.first)
         /\ Caller = "create" => Absent(Directory, call.name)
<1>1. Caller \in {"create", "attach"}
  BY CallerReturns, ReturnsTable DEF Tidy, WhereInv
<1>2. QED
  BY <1>1 DEF Tidy, WhereInv, ChainAt, FileAt, InFile, GrowingFile, HasAttributes, CreatingFile

LEMMA AllocTo ==
  ASSUME TypeInv, Tidy, Quiet, pc \in {"alloc", "scan"}, Common',
         call'.name = call.name, call'.attr = call.attr, call'.cluster = call.cluster,
         (pc' = "scan" /\ Caller' = Caller) \/ (pc' = Caller /\ ~call'.ok)
  PROVE  Tidy'
<1>1. Settled
  BY SettledAt
<1>2. /\ Caller \in {"create", "attach"}
      /\ Caller = "attach" => /\ call.cluster \in InUse(View) \ {root_cluster} /\ View[call.cluster] = END
                              /\ Begins(Directory, call.name, call.attr.first)
      /\ Caller = "create" => Absent(Directory, call.name)
  BY Allocation DEF Allocating
<1>3. CASE Caller = "attach"
  BY <1>1, <1>2, <1>3, GrowTo
<1>4. CASE Caller = "create"
  BY <1>1, <1>2, <1>4, CreateTo
<1>5. QED
  BY <1>2, <1>3, <1>4

LEMMA AllocStruct ==
  ASSUME TypeInv, Tidy, Alloc
  PROVE  Tidy'
<1> DEFINE u == [start |-> i, wrapped |-> FALSE]
<1>1. /\ Settled /\ Common /\ Quiet /\ Go("scan", u) /\ Locals(u) /\ pc = "alloc" /\ scenario' = scenario
      /\ DOMAIN u = {"start", "wrapped"} /\ "scan" \in Labels
  BY SettledAt, Unwritten, LabelSets DEF Alloc, disk, Locals, Labels
<1> HIDE DEF u
<1>2. pc' = "scan" /\ Sets(u, {}) /\ Common' /\ Caller' = Caller
  BY <1>1, GoMove
<1>3. call'.name = call.name /\ call'.attr = call.attr /\ call'.cluster = call.cluster
  BY <1>1, <1>2 DEF Sets, Fields
<1>4. QED
  BY <1>1, <1>2, <1>3, AllocTo

\* A cluster is taken and nothing leads to it yet.
LEMMA NewTo ==
  ASSUME NEW who \in {"create", "attach"},
         (pc' = "zero" /\ Caller' = who) \/ (pc' = who /\ call'.ok),
         Forest(View', Heads \cup {call'.new}), call'.new \notin Heads, View'[call'.new] = END,
         View'[root_cluster] = END, Directory' = Directory, DirectoryInv(Directory), scenario' = scenario, Common',
         IF who = "create" THEN Absent(Directory, call'.name)
         ELSE /\ call'.cluster \in InUse(View') \ {root_cluster} /\ View'[call'.cluster] = END
              /\ call'.cluster # call'.new /\ Begins(Directory, call'.name, call'.attr.first)
  PROVE  Tidy'
<1>1. /\ ~Cutting' /\ HasNew' /\ Loose' = {call'.new} /\ Heads' = Heads
      /\ GrowingFile' <=> who = "attach"
      /\ CreatingFile' <=> who = "create"
  BY DEF Cutting, Loose, HasNew, GrowingFile, CreatingFile, Allocating, Heads
<1>2. InFile' <=> who = "attach"
  BY <1>1 DEF InFile
<1>3. HasAttributes' <=> who = "attach"
  BY <1>1, <1>2 DEF HasAttributes
<1>4. Remaining' = View' /\ DirectoryInv(Directory)'
  BY <1>1 DEF Remaining, DirectoryInv, InScenario
<1>5. ChainAt'
  BY <1>1, <1>2 DEF ChainAt, Cutting, Heads
<1>6. FileAt' /\ SlotAt'
  BY <1>1, <1>3 DEF FileAt, SlotAt
<1>7. QED
  BY <1>1, <1>4, <1>5, <1>6 DEF Tidy, WhereInv

LEMMA HeadsType ==
  ASSUME TypeInv, DirectoryInv(Directory)
  PROVE  Heads \in SUBSET Clusters
<1>1. \A e \in Live(Directory) : Directory[e].first \in Clusters
  BY LiveSlots DEF Dirents
<1>2. QED
  BY <1>1, Constants DEF Heads, Firsts

LEMMA ScanStruct ==
  ASSUME TypeInv, Tidy, Scan
  PROVE  Tidy'
<1>1. /\ Settled /\ Common /\ pc = "scan" /\ scenario' = scenario /\ fat' = fat /\ data' = data
      /\ Returns(pc) # {} /\ call \in Calls /\ DiskType
  BY SettledAt, Returning, Here DEF Scan, disk
<1>2. CASE Exhausted
  <2>1. Quiet /\ Back(FALSE, NoLocals)
    BY <1>1, <1>2, Unwritten DEF Scan
  <2>2. pc' = Caller /\ Sets(NoLocals, {"ret", "ok"}) /\ call'.ok = FALSE /\ Common'
    BY <1>1, <2>1, BackMove, ResultLocals
  <2>3. call'.name = call.name /\ call'.attr = call.attr /\ call'.cluster = call.cluster
    BY <2>2 DEF Sets, Fields, NoLocals
  <2>4. QED
    BY <1>1, <2>1, <2>2, <2>3, AllocTo
<1>3. CASE ~Exhausted /\ page.ent[index] # AVAILABLE
  <2> DEFINE u == [wrapped |-> wrapped]
  <2>1. Quiet /\ Go("scan", u) /\ Locals(u) /\ DOMAIN u = {"wrapped"} /\ "scan" \in Labels
    BY <1>1, <1>3, Unwritten, LabelSets DEF Scan, Locals, Labels
  <2> HIDE DEF u
  <2>2. pc' = "scan" /\ Sets(u, {}) /\ Common' /\ Caller' = Caller
    BY <1>1, <2>1, GoMove
  <2>3. call'.name = call.name /\ call'.attr = call.attr /\ call'.cluster = call.cluster
    BY <2>1, <2>2 DEF Sets, Fields
  <2>4. QED
    BY <1>1, <2>1, <2>2, <2>3, AllocTo
<1>4. CASE ~Exhausted /\ page.ent[index] = AVAILABLE
  <2>1. PICK k \in Clusters : k = index /\ k >= 2 /\ k < NumClusters
    BY IndexType
  <2>2. Hit(k) /\ View[k] = AVAILABLE /\ WriteFat(k, END) /\ i' = k
    BY <1>1, <1>4, <2>1, ViewType DEF Scan
  <2>3. i' \in (2 .. NumClusters) \cup Indices
    BY <2>1, <2>2, Constants DEF Clusters
  <2>4. View' = [View EXCEPT ![k] = END] /\ View \in [FatIndices -> Entries] /\ k \in FatIndices
    BY <1>1, <2>1, <2>2, <2>3, WriteFatType, ViewType, Constants DEF END, Entries
  <2>5. Forest(View', Heads \cup {k}) /\ k \notin Heads
    BY <1>1, <2>1, <2>2, <2>4, TakenForest, SettledForest, HeadsType
  <2>6. PICK who \in {"create", "attach"} :
               /\ who = Caller
               /\ who = "attach" => /\ call.cluster \in InUse(View) \ {root_cluster} /\ View[call.cluster] = END
                                    /\ Begins(Directory, call.name, call.attr.first)
               /\ who = "create" => Absent(Directory, call.name)
    BY <1>1, Allocation DEF Allocating
  <2> DEFINE u == [new |-> k]
  <2>7. Go("zero", u) \/ Back(TRUE, u)
    BY <1>4, <2>1 DEF Scan
  <2>8. Locals(u) /\ DOMAIN u = {"new"} /\ u.new = k /\ "zero" \in Labels
    BY LabelSets DEF Locals, Labels
  <2> HIDE DEF u
  <2>9. /\ (pc' = "zero" /\ Caller' = who) \/ (pc' = who /\ call'.ok)
        /\ Common' /\ Sets(u, {"ret", "ok"})
    <3>1. CASE Go("zero", u)
      <4>1. pc' = "zero" /\ Sets(u, {}) /\ Common' /\ Caller' = Caller
        BY <1>1, <2>8, <3>1, GoMove
      <4>2. QED
        BY <2>6, <4>1 DEF Sets
    <3>2. CASE Back(TRUE, u)
      BY <1>1, <2>6, <2>8, <3>2, BackMove
    <3>3. QED
      BY <2>7, <3>1, <3>2
  <2>10. call'.name = call.name /\ call'.attr = call.attr /\ call'.cluster = call.cluster /\ call'.new = k
    BY <2>8, <2>9 DEF Sets, Fields
  <2>11. View'[k] = END /\ View'[root_cluster] = END
    BY <2>1, <2>4, <1>1, SettledForest, Constants
  <2>12. who = "attach" => /\ call.cluster \in InUse(View') \ {root_cluster} /\ View'[call.cluster] = END
                           /\ call.cluster # k
    <3>1. AVAILABLE # END
      BY DEF AVAILABLE, END
    <3>2. QED
      BY <2>2, <2>4, <2>6, <3>1, Constants DEF InUse
  <2>13. Directory' = Directory /\ DirectoryInv(Directory)
    BY <1>1, SettledForest DEF Directory
  <2>14. IF who = "create" THEN Absent(Directory, call'.name)
         ELSE /\ call'.cluster \in InUse(View') \ {root_cluster} /\ View'[call'.cluster] = END
              /\ call'.cluster # call'.new /\ Begins(Directory, call'.name, call'.attr.first)
    BY <2>6, <2>10, <2>12
  <2>15. QED
    BY <1>1, <2>5, <2>9, <2>10, <2>11, <2>13, <2>14, NewTo
<1>5. QED
  BY <1>2, <1>3, <1>4

LEMMA ZeroClusterStruct ==
  ASSUME TypeInv, Tidy, ZeroCluster
  PROVE  Tidy'
<1>1. /\ Common /\ pc = "zero" /\ scenario' = scenario /\ Back(TRUE, NoLocals)
      /\ Returns(pc) # {} /\ HasNew /\ ~Cutting
  BY Returning DEF ZeroCluster, Tidy, WhereInv, HasNew, Cutting
<1>2. View' = View
  BY DEF ZeroCluster, View, Hit
<1>3. /\ Forest(View, Heads \cup {call.new}) /\ call.new \notin Heads /\ View[root_cluster] = END
      /\ DirectoryInv(Directory) /\ View[call.new] = END
  BY <1>1 DEF Tidy, Loose, Remaining, WhereInv, ChainAt
<1>4. Directory' = Directory
  BY <1>3, DirectoryType, Constants DEF ZeroCluster, Directory, Heads
<1>5. pc' = Caller /\ Sets(NoLocals, {"ret", "ok"}) /\ call'.ok = TRUE /\ Common'
  BY <1>1, BackMove, ResultLocals
<1>6. call'.name = call.name /\ call'.attr = call.attr /\ call'.cluster = call.cluster /\ call'.new = call.new
  BY <1>5 DEF Sets, Fields, NoLocals
<1>7. PICK who \in {"create", "attach"} :
               /\ who = Caller
               /\ who = "attach" => /\ call.cluster \in InUse(View) \ {root_cluster} /\ View[call.cluster] = END
                                    /\ Begins(Directory, call.name, call.attr.first)
               /\ who = "create" => Absent(Directory, call.name)
  BY <1>1, Allocation DEF Allocating
<1>8. who = "attach" => call.cluster # call.new
  BY <1>1, <1>7 DEF Tidy, WhereInv, ChainAt, GrowingFile, Allocating
<1>9. QED
  BY <1>1, <1>2, <1>3, <1>4, <1>5, <1>6, <1>7, <1>8, NewTo

\* A chain has grown, or could not grow.
Grown == {"truncate_grown", "find_grown", "write_grown"}

LEMMA AttachingReturns ==
  ASSUME TypeInv, Common, pc \in Attaching, pc' = Caller
  PROVE  pc' \in Grown
<1>1. Returns(pc) # {} /\ Returns(pc) = {"truncate_grown", "find_grown", "write_grown", "dir_grown"}
  BY ReturnsTable
<1>2. QED
  BY <1>1, CallerReturns DEF Labels, Grown

LEMMA AttachStruct ==
  ASSUME TypeInv, Tidy, Attach
  PROVE  Tidy'
<1>1. /\ Common /\ pc = "attach" /\ scenario' = scenario /\ fat' = fat /\ data' = data /\ i' = i
      /\ Returns(pc) # {} /\ call \in Calls /\ DiskType /\ pc \in Attaching
      /\ InFile /\ GrowingFile /\ HasAttributes /\ ~Cutting
  BY Returning, Here DEF Attach, disk, Tidy, WhereInv, Attaching, InFile, GrowingFile, HasAttributes, Cutting
<1>2. /\ call.cluster \in InUse(View) \ {root_cluster} /\ View[call.cluster] = END
      /\ Begins(Directory, call.name, call.attr.first)
      /\ Forest(View, Heads \cup Loose) /\ Loose \cap Heads = {} /\ View[root_cluster] = END
      /\ DirectoryInv(Directory)
  BY <1>1 DEF Tidy, WhereInv, ChainAt, FileAt, Remaining
<1>3. call.cluster \in Clusters
  BY <1>2 DEF InUse
<1>4. CASE ~call.ok
  <2>1. Settled /\ Quiet /\ Back(FALSE, NoLocals)
    BY <1>1, <1>4, SettledAt, Unwritten DEF Attach
  <2>2. pc' = Caller /\ Sets(NoLocals, {"ret", "ok"}) /\ Common'
    BY <1>1, <2>1, BackMove, ResultLocals
  <2>3. call'.name = call.name /\ call'.attr = call.attr /\ call'.cluster = call.cluster
    BY <2>2 DEF Sets, Fields, NoLocals
  <2>4. pc' \in Grown
    BY <1>1, <2>2, AttachingReturns
  <2>5. QED
    BY <1>2, <2>1, <2>2, <2>3, <2>4, FileTo DEF Grown
<1>5. CASE call.ok
  <2> DEFINE c == call.cluster
             n == call.new
  <2>1. HasNew /\ Loose = {n} /\ n \in Clusters
    BY <1>1, <1>5 DEF HasNew, Loose, Calls
  <2>2. View[n] = END /\ n # c /\ n \notin Heads
    BY <1>1, <1>2, <2>1 DEF Tidy, WhereInv, ChainAt
  <2>3. Hit(c) /\ page.ent[c] = END
    BY <1>1, <1>2, <1>5, ViewType DEF Attach
  <2>4. WriteFat(c, n) /\ Go("attach_end", NoLocals)
    BY <1>5, <2>3 DEF Attach
  <2>5. View \in [FatIndices -> Entries] /\ c \in FatIndices /\ n \in Entries
    BY <1>1, <1>3, <2>1, ViewType, Constants DEF Entries, Clusters
  <2>6. View' = [View EXCEPT ![c] = n]
    BY <1>1, <2>3, <2>4, <2>5, WriteFatType DEF DiskType
  <2>7. Heads \in SUBSET Clusters
    BY <1>2, HeadsType
  <2> HIDE DEF c, n
  <2>8. Forest(View', Heads)
    BY <1>2, <1>3, <2>1, <2>2, <2>5, <2>6, <2>7, AttachedForest DEF c
  <2>9. /\ View'[root_cluster] = END /\ View'[n] = END /\ View'[c] = n
        /\ c \in InUse(View') \ {root_cluster} /\ n # root_cluster
    <3>1. c # root_cluster /\ c \in Clusters /\ View[root_cluster] = END
      BY <1>2, <1>3 DEF c
    <3>2. IsData(n) /\ n # root_cluster
      BY <2>1, <2>2 DEF IsData, Clusters, Heads
    <3>3. View'[root_cluster] = END /\ View'[n] = END /\ View'[c] = n
      BY <2>2, <2>5, <2>6, <3>1
    <3>4. QED
      BY <3>1, <3>2, <3>3 DEF InUse
  <2>10. pc' = "attach_end" /\ Sets(NoLocals, {}) /\ Common'
    BY <1>1, <2>4, GoMove, ResultLocals, LabelSets DEF Labels
  <2>11. call'.name = call.name /\ call'.attr = call.attr /\ call'.cluster = c /\ call'.new = n
    BY <2>10 DEF Sets, Fields, NoLocals, c, n
  <2>12. ~Cutting' /\ ~HasNew' /\ Loose' = {} /\ ~GrowingFile' /\ ~CreatingFile' /\ InFile' /\ HasAttributes'
    BY <2>10 DEF Cutting, HasNew, Loose, GrowingFile, CreatingFile, Allocating, InFile, HasAttributes
  <2>13. Directory' = Directory /\ Heads' = Heads /\ Remaining' = View' /\ DirectoryInv(Directory)'
    BY <1>1, <1>2, <2>12 DEF Directory, Heads, Remaining, DirectoryInv, InScenario
  <2>14. ChainAt'
    BY <2>9, <2>10, <2>11, <2>12 DEF ChainAt, Cutting
  <2>15. FileAt' /\ SlotAt'
    BY <1>2, <2>10, <2>11, <2>12, <2>13 DEF FileAt, SlotAt
  <2>16. QED
    BY <2>8, <2>9, <2>10, <2>12, <2>13, <2>14, <2>15 DEF Tidy, WhereInv
<1>6. QED
  BY <1>4, <1>5

LEMMA AttachEndStruct ==
  ASSUME TypeInv, Tidy, AttachEnd
  PROVE  Tidy'
<1> DEFINE u == [cluster |-> call.new]
<1>1. /\ Settled /\ Common /\ pc = "attach_end" /\ scenario' = scenario /\ fat' = fat /\ data' = data /\ i' = i
      /\ Returns(pc) # {} /\ call \in Calls /\ DiskType /\ pc \in Attaching
      /\ InFile /\ HasAttributes
  BY SettledAt, Returning, Here DEF AttachEnd, disk, Attaching, InFile, HasAttributes
<1>2. View[call.new] = END /\ call.new # root_cluster /\ Begins(Directory, call.name, call.attr.first)
  BY <1>1 DEF Tidy, WhereInv, ChainAt, FileAt
<1>3. View' = [View EXCEPT ![call.new] = END] /\ View \in [FatIndices -> Entries]
  BY <1>1, WriteFatType, ViewType, Constants DEF AttachEnd, DiskType, END, Entries
<1>4. View' = View
  BY <1>2, <1>3
<1>5. Quiet
  BY <1>1, <1>4 DEF Quiet, Directory
<1>6. Back(TRUE, u) /\ Locals(u) /\ DOMAIN u = {"cluster"} /\ u.cluster = call.new
  BY DEF AttachEnd, Locals
<1> HIDE DEF u
<1>7. pc' = Caller /\ Sets(u, {"ret", "ok"}) /\ Common'
  BY <1>1, <1>6, BackMove
<1>8. call'.name = call.name /\ call'.attr = call.attr /\ call'.cluster = call.new
  BY <1>6, <1>7 DEF Sets, Fields
<1>9. call.new \in InUse(View) \ {root_cluster}
  BY <1>1, <1>2 DEF InUse, Calls
<1>10. pc' \in Grown
  BY <1>1, <1>7, AttachingReturns
<1>11. QED
  BY <1>1, <1>2, <1>5, <1>7, <1>8, <1>9, <1>10, FileTo DEF Grown

LEMMA FreeChainStruct ==
  ASSUME TypeInv, Tidy, FreeChain
  PROVE  Tidy'
<1> DEFINE c == call.cluster
           v == call.victim
           next == View[v]
           u == [victim |-> next]
           rest == IF IsData(next) THEN {next} ELSE {}
<1>1. /\ Common /\ pc = "free" /\ scenario' = scenario /\ fat' = fat /\ data' = data /\ i' = i
      /\ Returns(pc) # {} /\ call \in Calls /\ DiskType /\ Cutting /\ HasAttributes /\ ~HasNew
      /\ v \in Clusters /\ c \in Clusters
  BY Returning, Here DEF FreeChain, disk, Tidy, WhereInv, Cutting, HasAttributes, HasNew, Calls
<1>2. /\ Loose = {v} /\ v \notin Heads /\ View[root_cluster] = END /\ DirectoryInv(Directory)
      /\ Forest(Remaining, Heads \cup {v}) /\ Reached(Remaining, Heads, c) /\ c # root_cluster
      /\ Begins(Directory, call.name, call.attr.first)
  BY <1>1 DEF Tidy, WhereInv, ChainAt, FileAt, Loose
<1>3. Hit(v) /\ page.ent[v] = next /\ WriteFat(v, AVAILABLE)
  BY <1>1, ViewType DEF FreeChain
<1>4. View' = [View EXCEPT ![v] = AVAILABLE] /\ View \in [FatIndices -> Entries] /\ v \in FatIndices /\ c \in FatIndices
  <2>1. AVAILABLE \in Entries
    BY Constants DEF AVAILABLE, Entries
  <2>2. i' \in (2 .. NumClusters) \cup Indices
    BY <1>1 DEF DiskType
  <2>3. View' = [View EXCEPT ![v] = AVAILABLE]
    BY <1>1, <1>3, <2>1, <2>2, WriteFatType
  <2>4. View \in [FatIndices -> Entries] /\ v \in FatIndices /\ c \in FatIndices
    BY <1>1, ViewType, Constants
  <2>5. QED
    BY <2>3, <2>4
<1>5. Remaining = [View EXCEPT ![c] = END] /\ Remaining \in [FatIndices -> Entries]
  BY <1>1, <1>4, Constants DEF Remaining, END, Entries
<1>6. Heads \in SUBSET Clusters
  BY <1>2, HeadsType
<1> HIDE DEF c, v, next, u
<1>7. c # v
  BY <1>1, <1>2, <1>5, <1>6, FreedForest
<1>8. Remaining[v] = next
  BY <1>4, <1>5, <1>7 DEF next
<1>9. /\ Forest([Remaining EXCEPT ![v] = AVAILABLE], Heads \cup rest) /\ Reached([Remaining EXCEPT ![v] = AVAILABLE], Heads, c)
      /\ rest \cap Heads = {}
  BY <1>1, <1>2, <1>5, <1>6, <1>8, FreedForest
<1>10. (Go("free", u) /\ IsData(next)) \/ (Back(TRUE, NoLocals) /\ ~IsData(next))
  BY <1>3 DEF FreeChain, u, v
<1>11. DOMAIN u = {"victim"} /\ u.victim = next /\ Locals(u)
  BY DEF u, Locals
<1>12. /\ (pc' = "free" /\ call'.victim = next /\ IsData(next)) \/ (pc' = "truncate_end" /\ ~IsData(next))
       /\ Common' /\ call'.name = call.name /\ call'.attr = call.attr /\ call'.cluster = c
  <2>1. CASE Go("free", u) /\ IsData(next)
    <3>1. pc' = "free" /\ Sets(u, {}) /\ Common'
      BY <1>1, <1>11, <2>1, GoMove, LabelSets DEF Labels
    <3>2. call'.name = call.name /\ call'.attr = call.attr /\ call'.cluster = call.cluster /\ call'.victim = u.victim
      BY <1>11, <3>1 DEF Sets, Fields
    <3>3. QED
      BY <1>11, <2>1, <3>1, <3>2 DEF c
  <2>2. CASE Back(TRUE, NoLocals) /\ ~IsData(next)
    <3>1. pc' = Caller /\ Sets(NoLocals, {"ret", "ok"}) /\ Common'
      BY <1>1, <2>2, BackMove, ResultLocals
    <3>2. call'.name = call.name /\ call'.attr = call.attr /\ call'.cluster = call.cluster
      BY <3>1 DEF Sets, Fields, NoLocals
    <3>3. Caller = "truncate_end"
      BY <1>1, CallerReturns, ReturnsTable DEF Labels
    <3>4. QED
      BY <2>2, <3>1, <3>2, <3>3 DEF c
  <2>3. QED
    BY <1>10, <2>1, <2>2
<1>13. /\ Cutting' /\ ~HasNew' /\ ~GrowingFile' /\ ~CreatingFile' /\ ~InFile' /\ HasAttributes' /\ Loose' = rest
  BY <1>12 DEF Cutting, HasNew, Loose, GrowingFile, CreatingFile, Allocating, InFile, HasAttributes
<1>14. Directory' = Directory /\ Heads' = Heads /\ DirectoryInv(Directory)'
  BY <1>1, <1>2 DEF Directory, Heads, DirectoryInv, InScenario
<1>15. Remaining' = [Remaining EXCEPT ![v] = AVAILABLE]
  BY <1>4, <1>5, <1>7, <1>12, <1>13 DEF Remaining
<1>16. View'[root_cluster] = END
  BY <1>2, <1>4, Constants DEF Heads
<1>17. ChainAt'
  BY <1>2, <1>9, <1>12, <1>13, <1>14, <1>15 DEF ChainAt
<1>18. FileAt' /\ SlotAt'
  BY <1>2, <1>12, <1>13, <1>14 DEF FileAt, SlotAt
<1>19. QED
  BY <1>9, <1>12, <1>13, <1>14, <1>15, <1>16, <1>17, <1>18 DEF Tidy, WhereInv

-----------------------------------------------------------------------------
(***************************************************************************)
(* The steps of a file's chain                                             *)
(***************************************************************************)

LEMMA AtFile ==
  ASSUME TypeInv, Tidy, InFile
  PROVE  /\ call.cluster \in InUse(View) \ {root_cluster} /\ call.cluster \in Clusters
         /\ Begins(Directory, call.name, call.attr.first)
         /\ ~IsData(View[call.cluster]) => View[call.cluster] = END
         /\ Hit(call.cluster) => page.ent[call.cluster] = View[call.cluster]
<1>1. call.cluster \in InUse(View) \ {root_cluster} /\ Begins(Directory, call.name, call.attr.first)
  BY DEF Tidy, WhereInv, ChainAt, FileAt, HasAttributes
<1>2. Hit(call.cluster) => page.ent[call.cluster] = View[call.cluster]
  BY ViewType DEF TypeInv
<1>3. QED
  BY <1>1, <1>2 DEF InUse

\* Go on in the same file, at the cluster c.
LEMMA FileGo ==
  ASSUME TypeInv, Settled, Quiet, NEW u, Locals(u), NEW p, Go(p, u),
         p \in {"truncate", "truncate_grown", "find", "find_grown", "write", "advance", "write_grown"},
         NEW c \in InUse(View) \ {root_cluster},
         IF "cluster" \in DOMAIN u THEN u.cluster = c ELSE call.cluster = c,
         NEW a, Begins(Directory, call.name, a.first),
         IF "attr" \in DOMAIN u THEN u.attr = a ELSE call.attr = a
  PROVE  Tidy'
<1>1. Common /\ scenario' = scenario /\ p \in Labels
  BY LabelSets DEF Settled, Tidy, WhereInv, Quiet, Labels, Truncating, Writing
<1>2. pc' = p /\ Sets(u, {}) /\ Common'
  BY <1>1, GoMove
<1>3. call'.name = call.name /\ call'.attr = a /\ call'.cluster = c
  BY <1>2 DEF Sets, Fields, Locals
<1>4. QED
  BY <1>2, <1>3, FileTo

\* Make the chain longer.
LEMMA GrowGo ==
  ASSUME TypeInv, Settled, Quiet, NEW back \in Grown, NEW z, Grow(back, [zero |-> z]),
         call.cluster \in InUse(View) \ {root_cluster}, Begins(Directory, call.name, call.attr.first),
         View[call.cluster] = END
  PROVE  Tidy'
<1> DEFINE u == [zero |-> z]
<1>1. Common /\ scenario' = scenario /\ "alloc" \in Labels /\ "attach" \in Labels /\ back \in Labels
  BY LabelSets DEF Settled, Tidy, WhereInv, Quiet, Labels, Truncating, Writing, Grown
<1>2. Sub("alloc", <<"attach", back>>, u) /\ DOMAIN u = {"zero"} /\ Locals(u)
  BY DEF Grow, Locals
<1> HIDE DEF u
<1>3. pc' = "alloc" /\ Sets(u, {"ret"}) /\ Common' /\ Caller' = "attach"
  BY <1>1, <1>2, SubMove
<1>4. call'.name = call.name /\ call'.attr = call.attr /\ call'.cluster = call.cluster
  BY <1>2, <1>3 DEF Sets, Fields
<1>5. QED
  BY <1>3, <1>4, GrowTo

LEMMA TruncateStartStruct ==
  ASSUME TypeInv, Tidy, TruncateStart
  PROVE  Tidy'
<1> DEFINE u == [cluster |-> call.found.first, enc |-> 1, attr |-> call.found]
<1>1. Settled /\ Quiet /\ pc \in Truncating /\ pc = "truncate_start"
  BY SettledAt, Unwritten DEF TruncateStart, disk, Truncating
<1>2. CASE ~call.ok
  <2>1. Back(FALSE, NoLocals)
    BY <1>2 DEF TruncateStart
  <2>2. QED
    BY <1>1, <2>1, PlainBack, ResultLocals
<1>3. CASE call.ok
  <2>1. Go("truncate", u) /\ Locals(u) /\ DOMAIN u = {"cluster", "enc", "attr"}
        /\ u.cluster = call.found.first /\ u.attr = call.found
    BY <1>3 DEF TruncateStart, Locals
  <2>2. Begins(Directory, call.name, call.found.first)
    BY <1>1, <1>3 DEF Tidy, WhereInv, FileAt
  <2>3. call.found.first \in InUse(View) \ {root_cluster}
    BY <1>1, <2>2, FirstInUse
  <2> HIDE DEF u
  <2>4. QED
    BY <1>1, <2>1, <2>2, <2>3, FileGo
<1>4. QED
  BY <1>2, <1>3

\* A truncation has left the end of the file at call.cluster.
LEMMA CutTo ==
  ASSUME TypeInv, Settled, Quiet, Common', call'.name = call.name, call'.attr = call.attr,
         Begins(Directory, call.name, call.attr.first), call'.cluster # root_cluster,
         pc' = "truncate_end" \/ (pc' = "free" /\ Reached(Remaining', Heads, call'.cluster)),
         Forest(Remaining', Heads \cup Loose'), Loose' \cap Heads = {}
  PROVE  Tidy'
<1>1. /\ Cutting' /\ ~HasNew' /\ ~GrowingFile' /\ ~CreatingFile' /\ ~InFile' /\ HasAttributes'
  BY DEF Cutting, HasNew, GrowingFile, CreatingFile, Allocating, InFile, HasAttributes
<1>2. /\ Directory' = Directory /\ Heads' = Heads /\ DirectoryInv(Directory)' /\ View'[root_cluster] = END
  BY SettledForest DEF Quiet, Heads, DirectoryInv, InScenario
<1>3. ChainAt' /\ FileAt' /\ SlotAt'
  BY <1>1, <1>2 DEF ChainAt, FileAt, SlotAt
<1>4. QED
  BY <1>1, <1>2, <1>3 DEF Tidy, WhereInv

LEMMA TruncateWalkStruct ==
  ASSUME TypeInv, Tidy, TruncateWalk
  PROVE  Tidy'
<1> DEFINE c == call.cluster
           next == View[c]
           further == call.enc * Units < call.goal
<1>1. /\ Settled /\ Common /\ Quiet /\ pc \in Truncating /\ pc = "truncate" /\ InFile /\ Hit(c)
      /\ scenario' = scenario /\ call \in Calls
  BY SettledAt, Unwritten, Here DEF TruncateWalk, disk, Truncating, InFile
<1>2. /\ c \in InUse(View) \ {root_cluster} /\ c \in Clusters /\ Begins(Directory, call.name, call.attr.first)
      /\ ~IsData(next) => next = END
      /\ page.ent[c] = next
  BY <1>1, AtFile
<1>3. View \in [FatIndices -> Entries] /\ c \in FatIndices /\ Heads \in SUBSET Clusters /\ Forest(View, Heads)
  BY <1>1, <1>2, DirectoryType, Constants, HeadsType, SettledForest
<1>4. CASE further /\ IsData(next)
  <2> DEFINE u == [cluster |-> next, enc |-> call.enc + 1]
  <2>1. Go("truncate", u) /\ Locals(u) /\ DOMAIN u = {"cluster", "enc"} /\ u.cluster = next
    BY <1>2, <1>4 DEF TruncateWalk, Locals
  <2> HIDE DEF u
  <2>2. next \in InUse(View) \ {root_cluster}
    BY <1>1, <1>2, <1>4, NextInUse
  <2> HIDE DEF next
  <2>3. QED
    BY <1>1, <1>2, <2>1, <2>2, FileGo
<1>5. CASE further /\ ~IsData(next)
  <2>1. Grow("truncate_grown", [zero |-> TRUE]) /\ "truncate_grown" \in Grown
    BY <1>2, <1>5 DEF TruncateWalk, Grown
  <2>2. QED
    BY <1>1, <1>2, <1>5, <2>1, GrowGo
<1>6. CASE ~further /\ IsData(next)
  <2> DEFINE u == [victim |-> next]
             x == [View EXCEPT ![c] = END]
  <2>1. Sub("free", <<"truncate_end">>, u) /\ Locals(u) /\ DOMAIN u = {"victim"} /\ u.victim = next
    BY <1>2, <1>6 DEF TruncateWalk, Locals
  <2>2. "free" \in Labels /\ "truncate_end" \in Labels
    BY LabelSets DEF Labels, Truncating
  <2> HIDE DEF u
  <2>3. pc' = "free" /\ Sets(u, {"ret"}) /\ Common' /\ Caller' = "truncate_end"
    BY <1>1, <2>1, <2>2, SubMove
  <2>4. call'.name = call.name /\ call'.attr = call.attr /\ call'.cluster = c /\ call'.victim = next
    BY <2>1, <2>3 DEF Sets, Fields
  <2>5. Forest(x, Heads \cup {next}) /\ next \notin Heads /\ Reached(x, Heads, c)
    BY <1>2, <1>3, <1>6, CutForest
  <2>6. Remaining' = x /\ Loose' = {next}
    BY <1>1, <2>3, <2>4 DEF Remaining, Cutting, Quiet, Loose, HasNew
  <2> HIDE DEF c, next, x
  <2>7. QED
    BY <1>1, <1>2, <2>3, <2>4, <2>5, <2>6, CutTo
<1>7. CASE ~further /\ ~IsData(next)
  <2>1. Go("truncate_end", NoLocals)
    BY <1>2, <1>7 DEF TruncateWalk
  <2>2. pc' = "truncate_end" /\ Sets(NoLocals, {}) /\ Common'
    BY <1>1, <2>1, GoMove, ResultLocals, LabelSets DEF Labels, Truncating
  <2>3. call'.name = call.name /\ call'.attr = call.attr /\ call'.cluster = c
    BY <2>2 DEF Sets, Fields, NoLocals
  <2>4. Remaining' = [View EXCEPT ![c] = END] /\ Loose' = {}
    BY <1>1, <2>2, <2>3 DEF Remaining, Cutting, Quiet, Loose, HasNew
  <2>5. Remaining' = View
    BY <1>2, <1>3, <1>7, <2>4
  <2> HIDE DEF c, next
  <2>6. QED
    BY <1>1, <1>2, <1>3, <2>2, <2>3, <2>4, <2>5, CutTo
<1>8. QED
  BY <1>4, <1>5, <1>6, <1>7

LEMMA TruncateGrownStruct ==
  ASSUME TypeInv, Tidy, TruncateGrown
  PROVE  Tidy'
<1> DEFINE u == [enc |-> call.enc + 1]
<1>1. /\ Settled /\ Quiet /\ pc \in Truncating /\ pc = "truncate_grown" /\ InFile
      /\ Locals(u) /\ DOMAIN u = {"enc"}
      /\ Go("truncate", u) \/ Back(FALSE, NoLocals)
  BY SettledAt, Unwritten DEF TruncateGrown, disk, Truncating, InFile, Locals
<1> HIDE DEF u
<1>2. CASE Go("truncate", u)
  BY <1>1, <1>2, AtFile, FileGo
<1>3. CASE Back(FALSE, NoLocals)
  BY <1>1, <1>3, PlainBack, ResultLocals
<1>4. QED
  BY <1>1, <1>2, <1>3

\* Back to the directory with the attributes to write.
LEMMA AttrTo ==
  ASSUME View'[root_cluster] = END, Forest(View', Heads), Directory' = Directory, DirectoryInv(Directory),
         scenario' = scenario, Common', pc' = "lookup", Caller' = "set_attr",
         Begins(Directory, call'.name, call'.attr.first)
  PROVE  Tidy'
<1>1. ~Cutting' /\ Loose' = {} /\ ~HasNew' /\ ~GrowingFile' /\ ~CreatingFile' /\ ~InFile'
  BY DEF Cutting, Loose, HasNew, GrowingFile, CreatingFile, Allocating, InFile
<1>2. Heads' = Heads /\ Remaining' = View' /\ DirectoryInv(Directory)'
  BY <1>1 DEF Heads, Remaining, DirectoryInv, InScenario
<1>3. ChainAt' /\ FileAt' /\ SlotAt'
  BY <1>1 DEF ChainAt, FileAt, SlotAt, Cutting
<1>4. QED
  BY <1>1, <1>2, <1>3 DEF Tidy, WhereInv

LEMMA TruncateEndStruct ==
  ASSUME TypeInv, Tidy, TruncateEnd
  PROVE  Tidy'
<1> DEFINE c == call.cluster
           u == [attr |-> [call.attr EXCEPT !.size = call.goal]]
<1>1. /\ Common /\ pc = "truncate_end" /\ scenario' = scenario /\ fat' = fat /\ data' = data /\ i' = i
      /\ call \in Calls /\ DiskType /\ Cutting /\ HasAttributes /\ Loose = {} /\ c \in Clusters
  BY Here DEF TruncateEnd, disk, Tidy, WhereInv, Cutting, HasAttributes, Loose, HasNew, Calls
<1>2. /\ c # root_cluster /\ View[root_cluster] = END /\ Forest(Remaining, Heads) /\ DirectoryInv(Directory)
      /\ Begins(Directory, call.name, call.attr.first)
  BY <1>1 DEF Tidy, WhereInv, ChainAt, FileAt
<1>3. View' = [View EXCEPT ![c] = END]
  BY <1>1, WriteFatType, Constants DEF TruncateEnd, DiskType, END, Entries
<1>4. View' = Remaining /\ View'[root_cluster] = END
  BY <1>1, <1>2, <1>3 DEF Remaining
<1>5. /\ LookUp(<<"set_attr">>, u) /\ DOMAIN u = {"attr"} /\ Locals(u) /\ u.attr.first = call.attr.first
      /\ "set_attr" \in Labels
  BY <1>1, LabelSets DEF TruncateEnd, Locals, Labels, Calls, Attributes
<1> HIDE DEF u
<1>6. pc' = "lookup" /\ Sets(u, {"ret", "dir"}) /\ Common' /\ Caller' = "set_attr"
  BY <1>1, <1>5, LookUpMove
<1>7. call'.name = call.name /\ call'.attr.first = call.attr.first
  BY <1>5, <1>6 DEF Sets, Fields
<1>8. Directory' = Directory
  BY <1>1 DEF Directory
<1>9. QED
  BY <1>1, <1>2, <1>4, <1>6, <1>7, <1>8, AttrTo

\* The entry that a call writes.
Entry == [name |-> call.name, first |-> call.attr.first, size |-> call.attr.size]

LEMMA EntryType ==
  ASSUME TypeInv, call.op # "none"
  PROVE  Entry \in Dirents /\ IsEntry(Entry) /\ ~IsEnd(Entry)
<1>1. Entry \in Dirents
  BY DEF Entry, Dirents, TypeInv, CallType, Calls, Attributes
<1>2. QED
  BY <1>1, ValuesAssumption DEF IsEntry, IsEnd

LEMMA SetAttrStruct ==
  ASSUME TypeInv, Tidy, SetAttr
  PROVE  Tidy' /\ DirectoryWritten
<1>1. /\ Settled /\ Common /\ pc = "set_attr" /\ scenario' = scenario /\ Returns(pc) # {} /\ Returns(pc) \subseteq Plain
      /\ call.op # "none" /\ HasAttributes /\ Back(call.ok, NoLocals)
  BY SettledAt, PlainLabels DEF SetAttr, TypeInv, CallType, HasAttributes
<1>2. View' = View
  BY DEF SetAttr, View, Hit
<1>3. /\ DirectoryInv(Directory) /\ Forest(View, Heads) /\ View[root_cluster] = END
      /\ Begins(Directory, call.name, call.attr.first)
      /\ call.ok => call.dir.entry \in Live(Directory) /\ Directory[call.dir.entry].name = call.name
      /\ call.dir.cluster = root_cluster
  BY <1>1, SettledForest DEF Tidy, WhereInv, FileAt, Common
<1>4. CASE ~call.ok
  <2>1. data' = data
    BY <1>4 DEF SetAttr
  <2>2. Quiet
    BY <1>1, <1>2, <2>1 DEF Quiet, Directory
  <2>3. QED
    BY <1>1, <2>1, <2>2, PlainBack, ResultLocals DEF DirectoryWritten, Quiet
<1>5. CASE call.ok
  <2> DEFINE e == call.dir.entry
  <2>1. e \in Live(Directory) /\ Directory[e].name = call.name /\ e \in Slots /\ e \in Before(Directory)
    BY <1>3, <1>5, LiveSlots
  <2>2. Directory[e].first = call.attr.first
    BY <1>3, <2>1 DEF Begins, DirectoryInv
  <2>3. /\ Directory' = [Directory EXCEPT ![e] = Entry] /\ DOMAIN Directory = Slots
        /\ \A k \in Clusters \ {root_cluster} : data'[k] = data[k]
    BY <1>3, <1>5, <2>1, StoreSlot, DirectoryType DEF SetAttr, StoreDirent, Entry
  <2>4. Entry \in Dirents /\ IsEntry(Entry) /\ ~IsEnd(Entry)
    BY <1>1, EntryType
  <2>5. Entry.name = call.name /\ Entry.first = call.attr.first
    BY DEF Entry
  <2> HIDE DEF e
  <2>6. \A r \in Slots : /\ IsEnd(Directory'[r]) <=> IsEnd(Directory[r])
                         /\ IsEntry(Directory'[r]) <=> IsEntry(Directory[r])
    <3>1. IsEntry(Directory[e]) /\ ~IsEnd(Directory[e])
      BY <2>1 DEF Live, IsEntry, IsEnd
    <3>2. QED
      BY <2>1, <2>3, <2>4, <3>1
  <2>7. Before(Directory') = Before(Directory)
    <3>1. \A r \in Slots : \A s \in 0 .. r : s \in Slots
      BY Constants DEF Slots
    <3>2. QED
      BY <2>6, <3>1 DEF Before
  <2>8. Live(Directory') = Live(Directory)
    BY <2>6, <2>7 DEF Live, Before
  <2>9. \A r \in Live(Directory) : Directory'[r].name = Directory[r].name /\ Directory'[r].first = Directory[r].first
    BY <2>1, <2>2, <2>3, <2>5, LiveSlots, <1>3
  <2>10. DirectoryInv(Directory')
    <3>1. \A r \in Before(Directory) : Directory'[r] \in Dirents \cup {Deleted}
      BY <1>3, <2>1, <2>3, <2>4 DEF DirectoryInv, Before
    <3>2. QED
      BY <1>3, <2>7, <2>8, <2>9, <3>1 DEF DirectoryInv
  <2>11. Firsts(Directory') = Firsts(Directory)
    BY <2>8, <2>9 DEF Firsts
  <2>12. pc' \in Plain /\ Common'
    BY <1>1, BackMove, ResultLocals
  <2>13. ~Cutting' /\ Loose' = {} /\ ~HasNew' /\ ~InFile' /\ ~GrowingFile' /\ ~HasAttributes' /\ ~CreatingFile'
    BY <2>12 DEF Plain, Cutting, Loose, HasNew, InFile, GrowingFile, HasAttributes, CreatingFile, Allocating
  <2>14. Heads' = Heads /\ Remaining' = View'
    BY <2>11, <2>13 DEF Heads, Remaining
  <2>15. DirectoryInv(Directory)'
    BY <1>1, <2>10 DEF DirectoryInv, InScenario
  <2>16. ChainAt' /\ SlotAt' /\ FileAt'
    BY <2>12, <2>13 DEF ChainAt, SlotAt, FileAt, Plain, Cutting
  <2>17. {x \in Entered(Directory) : x.name # call.name} = {x \in Entered(Directory') : x.name # call.name}
    <3>1. Live(Directory) \subseteq Slots /\ \A r \in Live(Directory) \ {e} : Directory'[r] = Directory[r]
      BY <2>3 DEF Live, Before
    <3>2. Directory[e].name = call.name /\ Directory'[e].name = call.name
      BY <2>1, <2>3, <2>5
    <3>3. QED
      BY <2>8, <3>1, <3>2 DEF Entered
  <2>18. QED
    BY <1>2, <1>3, <2>3, <2>12, <2>13, <2>14, <2>15, <2>16, <2>17 DEF Tidy, WhereInv, DirectoryWritten
<1>6. QED
  BY <1>4, <1>5

LEMMA FindStruct ==
  ASSUME TypeInv, Tidy, Find
  PROVE  Tidy'
<1> DEFINE c == call.cluster
           next == View[c]
<1>1. Settled /\ Quiet /\ pc = "find" /\ InFile
  BY SettledAt, Unwritten DEF Find, disk, InFile
<1>2. /\ c \in InUse(View) \ {root_cluster} /\ c \in Clusters /\ Begins(Directory, call.name, call.attr.first)
      /\ ~IsData(next) => next = END
      /\ Hit(c) => page.ent[c] = next
  BY <1>1, AtFile
<1>3. CASE Go("read", NoLocals)
  BY <1>1, <1>3, PlainGo, ResultLocals DEF Plain
<1>4. CASE Go("write", NoLocals)
  <2>1. "cluster" \notin DOMAIN NoLocals /\ "attr" \notin DOMAIN NoLocals
    BY DEF NoLocals
  <2> HIDE DEF c, next
  <2>2. QED
    BY <1>1, <1>2, <1>4, <2>1, FileGo, ResultLocals DEF c
<1>5. CASE IsData(next) /\ Go("find", [cluster |-> next, off |-> call.off - Units])
  <2> DEFINE u == [cluster |-> next, off |-> call.off - Units]
  <2>1. Locals(u) /\ DOMAIN u = {"cluster", "off"} /\ u.cluster = next /\ Go("find", u)
    BY <1>5 DEF Locals
  <2> HIDE DEF u
  <2>2. next \in InUse(View) \ {root_cluster}
    BY <1>1, <1>2, <1>5, NextInUse
  <2> HIDE DEF next
  <2>3. QED
    BY <1>1, <1>2, <2>1, <2>2, FileGo
<1>6. CASE next = END /\ Grow("find_grown", [zero |-> TRUE])
  BY <1>1, <1>2, <1>6, GrowGo DEF Grown
<1>7. CASE Back(FALSE, [result |-> 0])
  BY <1>1, <1>7, PlainBack, ResultLocals
<1>8. QED
  BY <1>2, <1>3, <1>4, <1>5, <1>6, <1>7 DEF Find

LEMMA FindGrownStruct ==
  ASSUME TypeInv, Tidy, FindGrown
  PROVE  Tidy'
<1> DEFINE u == [off |-> call.off - Units]
<1>1. /\ Settled /\ Quiet /\ pc \in Writing /\ pc = "find_grown" /\ InFile
      /\ Locals(u) /\ DOMAIN u = {"off"}
      /\ Go("find", u) \/ Back(FALSE, [result |-> 0])
  BY SettledAt, Unwritten DEF FindGrown, disk, Writing, InFile, Locals
<1> HIDE DEF u
<1>2. CASE Go("find", u)
  BY <1>1, <1>2, AtFile, FileGo
<1>3. CASE Back(FALSE, [result |-> 0])
  BY <1>1, <1>3, PlainBack, ResultLocals
<1>4. QED
  BY <1>1, <1>2, <1>3

\* A file that was found, from its first cluster on.
LEMMA FindFile ==
  ASSUME TypeInv, Tidy, Settled, Quiet, pc \in {"write_start", "read_start"}, call.ok,
         Go("find", [attr |-> call.found, cluster |-> call.found.first, off |-> call.offset])
  PROVE  Tidy'
<1> DEFINE u == [attr |-> call.found, cluster |-> call.found.first, off |-> call.offset]
<1>1. Go("find", u) /\ Locals(u) /\ DOMAIN u = {"attr", "cluster", "off"}
      /\ u.cluster = call.found.first /\ u.attr = call.found
  BY DEF Locals
<1>2. Begins(Directory, call.name, call.found.first)
  BY DEF Tidy, WhereInv, FileAt
<1>3. call.found.first \in InUse(View) \ {root_cluster}
  BY <1>2, FirstInUse
<1> HIDE DEF u
<1>4. QED
  BY <1>1, <1>2, <1>3, FileGo

LEMMA WriteStartStruct ==
  ASSUME TypeInv, Tidy, WriteStart
  PROVE  Tidy'
<1>1. Settled /\ Quiet /\ pc \in Writing /\ pc = "write_start"
  BY SettledAt, Unwritten DEF WriteStart, disk, Writing
<1>2. CASE Back(FALSE, [result |-> -1])
  BY <1>1, <1>2, PlainBack, ResultLocals
<1>3. CASE Truncate("write_extended", call.offset + 1)
  BY <1>1, <1>3, TruncateStruct
<1>4. CASE call.ok /\ Go("find", [attr |-> call.found, cluster |-> call.found.first, off |-> call.offset])
  BY <1>1, <1>4, FindFile
<1>5. QED
  BY <1>2, <1>3, <1>4 DEF WriteStart

LEMMA ReadStartStruct ==
  ASSUME TypeInv, Tidy, ReadStart
  PROVE  Tidy'
<1>1. Settled /\ Quiet /\ pc \in Reading /\ pc = "read_start"
  BY SettledAt, Unwritten DEF ReadStart, disk, Reading
<1>2. CASE Back(FALSE, [result |-> -1])
  BY <1>1, <1>2, PlainBack, ResultLocals
<1>3. CASE Back(FALSE, [result |-> 0])
  BY <1>1, <1>3, PlainBack, ResultLocals
<1>4. CASE call.ok /\ Go("find", [attr |-> call.found, cluster |-> call.found.first, off |-> call.offset])
  BY <1>1, <1>4, FindFile
<1>5. QED
  BY <1>2, <1>3, <1>4 DEF ReadStart

LEMMA WriteStruct ==
  ASSUME TypeInv, Tidy, Write
  PROVE  Tidy'
<1> DEFINE done == call.done + room
           u == [done |-> done]
           a == [call.attr EXCEPT !.size = call.offset + call.n]
           w == [done |-> done, attr |-> a]
           z == [done |-> done, ok |-> TRUE]
<1>1. /\ Settled /\ Common /\ pc = "write" /\ InFile /\ scenario' = scenario /\ call \in Calls
  BY SettledAt, Here DEF Write, InFile
<1>2. /\ call.cluster \in InUse(View) \ {root_cluster} /\ call.cluster \in Clusters
      /\ Begins(Directory, call.name, call.attr.first)
  BY <1>1, AtFile
<1>3. View' = View
  BY DEF Write, View, Hit
<1>4. Directory' = Directory
  BY <1>2, DirectoryType, Constants DEF Write, Directory
<1>5. Quiet
  BY <1>1, <1>3, <1>4 DEF Quiet
<1>6. Go("advance", u) \/ LookUp(<<"set_attr", "write_end">>, w) \/ Go("write_end", z)
  BY DEF Write
<1>7. /\ Locals(u) /\ DOMAIN u = {"done"}
      /\ Locals(w) /\ DOMAIN w = {"done", "attr"} /\ w.attr.first = call.attr.first
      /\ DOMAIN z = {"done", "ok"}
  BY <1>1 DEF Locals, Calls, Attributes
<1> HIDE DEF u, w, z
<1>8. CASE Go("advance", u)
  BY <1>1, <1>2, <1>5, <1>7, <1>8, FileGo
<1>9. CASE LookUp(<<"set_attr", "write_end">>, w)
  <2>1. "set_attr" \in Labels /\ "write_end" \in Labels
    BY LabelSets DEF Labels, Writing
  <2>2. pc' = "lookup" /\ Sets(w, {"ret", "dir"}) /\ Common' /\ Caller' = "set_attr"
    BY <1>1, <1>7, <1>9, <2>1, LookUpMove
  <2>3. call'.name = call.name /\ call'.attr.first = call.attr.first
    BY <1>7, <2>2 DEF Sets, Fields
  <2>4. View'[root_cluster] = END /\ Forest(View', Heads) /\ DirectoryInv(Directory)
    BY <1>1, <1>3, SettledForest
  <2>5. QED
    BY <1>1, <1>2, <1>4, <2>2, <2>3, <2>4, AttrTo
<1>10. CASE Go("write_end", z)
  <2>1. pc' = "write_end" /\ call' = Having(call, z, NoLocals) /\ DOMAIN NoLocals = {}
    BY <1>10 DEF Go, NoLocals
  <2>2. \A x \in Fields : call'[x] = IF x \in DOMAIN z THEN z[x] ELSE call[x]
    BY <1>1, <2>1, HavingFields
  <2>3. call'.op = call.op /\ call'.name = call.name /\ call'.ret = call.ret /\ call'.dir = call.dir
    BY <1>7, <2>2 DEF Fields
  <2>4. Common' /\ pc' \in Plain
    BY <1>1, <2>1, <2>3, LabelSets DEF Common, Labels, Writing, Plain
  <2>5. QED
    BY <1>1, <1>5, <2>4, PlainTo
<1>11. QED
  BY <1>6, <1>8, <1>9, <1>10

LEMMA WriteAdvanceStruct ==
  ASSUME TypeInv, Tidy, WriteAdvance
  PROVE  Tidy'
<1> DEFINE c == call.cluster
           next == View[c]
           u == [cluster |-> next, off |-> 0]
<1>1. Settled /\ Quiet /\ pc = "advance" /\ InFile /\ Hit(c)
  BY SettledAt, Unwritten DEF WriteAdvance, disk, InFile
<1>2. /\ c \in InUse(View) \ {root_cluster} /\ c \in Clusters /\ Begins(Directory, call.name, call.attr.first)
      /\ ~IsData(next) => next = END
      /\ page.ent[c] = next
  BY <1>1, AtFile
<1>3. CASE IsData(next)
  <2>1. Go("write", u) /\ Locals(u) /\ DOMAIN u = {"cluster", "off"} /\ u.cluster = next
    BY <1>2, <1>3 DEF WriteAdvance, Locals
  <2> HIDE DEF u
  <2>2. next \in InUse(View) \ {root_cluster}
    BY <1>1, <1>2, <1>3, NextInUse
  <2> HIDE DEF next
  <2>3. QED
    BY <1>1, <1>2, <2>1, <2>2, FileGo
<1>4. CASE ~IsData(next)
  <2>1. Grow("write_grown", [zero |-> call.n - call.done < Units]) /\ "write_grown" \in Grown
    BY <1>2, <1>4 DEF WriteAdvance, Grown
  <2>2. QED
    BY <1>1, <1>2, <1>4, <2>1, GrowGo
<1>5. QED
  BY <1>3, <1>4

LEMMA WriteGrownStruct ==
  ASSUME TypeInv, Tidy, WriteGrown
  PROVE  Tidy'
<1> DEFINE u == [off |-> 0]
<1>1. /\ Settled /\ Quiet /\ pc \in Writing /\ pc = "write_grown" /\ InFile
      /\ Locals(u) /\ DOMAIN u = {"off"}
      /\ Go("write", u) \/ Back(FALSE, [result |-> -1])
  BY SettledAt, Unwritten DEF WriteGrown, disk, Writing, InFile, Locals
<1> HIDE DEF u
<1>2. CASE Go("write", u)
  BY <1>1, <1>2, AtFile, FileGo
<1>3. CASE Back(FALSE, [result |-> -1])
  BY <1>1, <1>3, PlainBack, ResultLocals
<1>4. QED
  BY <1>1, <1>2, <1>3

-----------------------------------------------------------------------------
(***************************************************************************)
(* The steps that make a file                                              *)
(***************************************************************************)

LEMMA OpenCreateStruct ==
  ASSUME TypeInv, Tidy, OpenCreate
  PROVE  Tidy'
<1>1. Settled /\ Common /\ Quiet /\ pc = "open_w" /\ scenario' = scenario
  BY SettledAt, Unwritten DEF OpenCreate, disk
<1>2. CASE call.ok
  <2>1. Truncate("open_truncated", 0)
    BY <1>2 DEF OpenCreate
  <2>2. QED
    BY <1>1, <2>1, TruncateStruct
<1>3. CASE ~call.ok
  <2> DEFINE u == [zero |-> TRUE]
  <2>1. Sub("alloc", <<"create">>, u) /\ Locals(u) /\ DOMAIN u = {"zero"}
    BY <1>3 DEF OpenCreate, Locals
  <2>2. "alloc" \in Labels /\ "create" \in Labels
    BY LabelSets DEF Labels
  <2> HIDE DEF u
  <2>3. pc' = "alloc" /\ Sets(u, {"ret"}) /\ Common' /\ Caller' = "create"
    BY <1>1, <2>1, <2>2, SubMove
  <2>4. call'.name = call.name
    BY <2>1, <2>3 DEF Sets, Fields
  <2>5. Absent(Directory, call.name)
    BY <1>1, <1>3 DEF Tidy, WhereInv, FileAt
  <2>6. QED
    BY <1>1, <2>3, <2>4, <2>5, CreateTo
<1>4. QED
  BY <1>2, <1>3

LEMMA CreateStruct ==
  ASSUME TypeInv, Tidy, Create
  PROVE  Tidy'
<1>1. Common /\ Quiet /\ pc = "create" /\ scenario' = scenario /\ CreatingFile
  BY Unwritten DEF Create, disk, Tidy, WhereInv, CreatingFile
<1>2. CASE ~call.ok
  <2>1. Settled /\ Return(-1)
    BY <1>1, <1>2, SettledAt DEF Create
  <2>2. QED
    BY <1>1, <2>1, PlainReturn
<1>3. CASE call.ok
  <2> DEFINE u == [attr |-> [first |-> call.new, size |-> 0], dir |-> NoCall.dir]
  <2>1. /\ Go("slot", u) /\ Locals(u) /\ DOMAIN u = {"attr", "dir"} /\ u.attr.first = call.new
        /\ "slot" \in Labels
    BY <1>3, LabelSets DEF Create, Locals, NoCall, Labels
  <2> HIDE DEF u
  <2>2. pc' = "slot" /\ Sets(u, {}) /\ Common'
    BY <1>1, <2>1, GoMove
  <2>3. call'.name = call.name /\ call'.attr.first = call.new
    BY <2>1, <2>2 DEF Sets, Fields
  <2>4. HasNew /\ Loose = {call.new} /\ ~Cutting
    BY <1>1, <1>3 DEF HasNew, Loose, Cutting
  <2>5. /\ ~Cutting' /\ Loose' = {call.new} /\ ~HasNew' /\ ~GrowingFile' /\ ~InFile' /\ ~HasAttributes'
    BY <2>2, <2>3 DEF Cutting, Loose, HasNew, GrowingFile, InFile, HasAttributes, Allocating
  <2>6. /\ View' = View /\ Directory' = Directory /\ Heads' = Heads /\ Remaining' = Remaining
        /\ DirectoryInv(Directory)'
    BY <1>1, <2>4, <2>5 DEF Quiet, Heads, Remaining, DirectoryInv, InScenario, Tidy
  <2>7. Absent(Directory', call'.name)
    BY <1>1, <2>3, <2>6 DEF Tidy, WhereInv, FileAt
  <2>8. ChainAt' /\ FileAt' /\ SlotAt'
    BY <2>2, <2>5, <2>7 DEF ChainAt, FileAt, SlotAt, Cutting
  <2>9. QED
    BY <2>2, <2>4, <2>5, <2>6, <2>8 DEF Tidy, WhereInv
<1>4. QED
  BY <1>2, <1>3

LEMMA DeletedIsNoEnd ==
  ~IsEnd(Deleted)
<1> DEFINE marks == {None, Zero, EndMark, Deleted, Unknown}
           others == {None, Zero, EndMark, Unknown}
           f == [k \in 1 .. 4 |-> IF k = 1 THEN None ELSE IF k = 2 THEN Zero ELSE IF k = 3 THEN EndMark ELSE Unknown]
<1>1. f \in Surjection(1 .. 4, others)
  <2>1. f[1] = None /\ f[2] = Zero /\ f[3] = EndMark /\ f[4] = Unknown
    OBVIOUS
  <2>2. f \in [1 .. 4 -> others]
    OBVIOUS
  <2> HIDE DEF f
  <2>3. \A x \in others : \E k \in 1 .. 4 : f[k] = x
    BY <2>1
  <2>4. QED
    BY <2>2, <2>3 DEF Surjection
<1> HIDE DEF f
<1>2. \A n \in Nat \ {0} : IsFiniteSet(1 .. n) /\ Cardinality(1 .. n) = n
  BY FS_Interval
<1>3. Cardinality(others) <= 4
  <2>0. 4 \in Nat \ {0}
    OBVIOUS
  <2>1. IsFiniteSet(1 .. 4) /\ Cardinality(1 .. 4) = 4
    BY <1>2, <2>0, Zenon
  <2> HIDE DEF others
  <2>2. Cardinality(others) <= Cardinality(1 .. 4)
    BY <1>1, <2>1, FS_Surjection
  <2>3. QED
    BY <2>1, <2>2
<1>4. Cardinality(marks) = 5
  BY ValuesAssumption
<1>5. marks # others
  BY <1>3, <1>4
<1>6. QED
  BY <1>5 DEF IsEnd

LEMMA CreateDirentStruct ==
  ASSUME TypeInv, Tidy, CreateDirent
  PROVE  Tidy' /\ DirectoryWritten
<1> DEFINE e == call.dir.entry
           new == call.attr.first
<1>1. /\ Common /\ pc = "dirent" /\ scenario' = scenario /\ ~Cutting /\ Loose = {new} /\ CreatingFile
      /\ call.op = "w" /\ call \in Calls
  BY OpsTable, LabelSets, Here
     DEF CreateDirent, Tidy, WhereInv, Cutting, Loose, HasNew, CreatingFile, TypeInv, StackInv
<1>2. View' = View /\ Remaining = View
  BY <1>1 DEF CreateDirent, View, Hit, Remaining
<1>3. /\ DirectoryInv(Directory) /\ Forest(View, Heads \cup {new}) /\ new \notin Heads /\ View[root_cluster] = END
      /\ Absent(Directory, call.name) /\ call.name \in InScenario /\ call.dir.cluster = root_cluster
      /\ e \in Slots /\ \A r \in 0 .. e - 1 : IsEntry(Directory[r])
      /\ \/ Directory[e] = Deleted
         \/ IsEnd(Directory[e]) /\ e + 1 \in Slots /\ Directory[e + 1] = EndMark
  BY <1>1, <1>2 DEF Tidy, WhereInv, FileAt, SlotAt, Common, InScenario
<1>4. Entry \in Dirents /\ IsEntry(Entry) /\ ~IsEnd(Entry) /\ Entry.name = call.name /\ Entry.first = new
  BY <1>1, EntryType DEF Entry
<1>5. /\ Directory' = [Directory EXCEPT ![e] = Entry] /\ DOMAIN Directory = Slots
      /\ \A k \in Clusters \ {root_cluster} : data'[k] = data[k]
  BY <1>3, StoreSlot, DirectoryType DEF CreateDirent, StoreDirent, Entry
<1>6. Truncate("open_truncated", 0)
  BY DEF CreateDirent
<1> HIDE DEF e, new
<1>7. e \in Nat /\ \A r \in Slots : r \in Nat /\ \A s \in 0 .. r : s \in Slots
  BY <1>3, Constants DEF Slots
<1>8. /\ Directory'[e] = Entry
      /\ \A r \in Slots : r # e => Directory'[r] = Directory[r]
      /\ \A r \in Slots : r < e => ~IsEnd(Directory[r]) /\ ~IsEnd(Directory'[r])
  <2>1. \A r \in Slots : r < e => IsEntry(Directory[r])
    BY <1>3, <1>7
  <2>2. Directory'[e] = Entry /\ \A r \in Slots : r # e => Directory'[r] = Directory[r]
    BY <1>3, <1>5
  <2>3. \A r \in Slots : r < e => r # e
    BY <1>7
  <2>4. QED
    BY <2>1, <2>2, <2>3 DEF IsEntry, IsEnd
<1>9. Before(Directory') = Before(Directory) \cup {e}
  <2>1. CASE Directory[e] = Deleted
    <3>1. ~IsEnd(Directory[e]) /\ ~IsEnd(Directory'[e])
      BY <1>4, <1>8, <2>1, DeletedIsNoEnd
    <3>2. \A r \in Slots : IsEnd(Directory'[r]) <=> IsEnd(Directory[r])
      BY <1>8, <3>1
    <3>3. Before(Directory') = Before(Directory)
      BY <1>7, <3>2 DEF Before
    <3>4. e \in Before(Directory)
      <4>1. \A r \in 0 .. e : ~IsEnd(Directory[r])
        BY <1>3, <1>7, <1>8, <3>1
      <4>2. QED
        BY <1>3, <4>1 DEF Before
    <3>5. QED
      BY <3>3, <3>4
  <2>2. CASE IsEnd(Directory[e]) /\ e + 1 \in Slots /\ Directory[e + 1] = EndMark
    <3>1. ~IsEnd(Directory'[e]) /\ IsEnd(Directory'[e + 1])
      BY <1>4, <1>7, <1>8, <2>2 DEF IsEnd
    <3>2. ASSUME NEW r \in Slots
          PROVE  /\ r \in Before(Directory) <=> r < e
                 /\ r \in Before(Directory') <=> r <= e
      <4>1. CASE r < e
        <5>1. \A s \in 0 .. r : ~IsEnd(Directory[s]) /\ ~IsEnd(Directory'[s])
          BY <1>7, <1>8, <4>1
        <5>2. QED
          BY <1>7, <4>1, <5>1 DEF Before
      <4>2. CASE r = e
        <5>1. \A s \in 0 .. e : ~IsEnd(Directory'[s])
          BY <1>3, <1>7, <1>8, <3>1
        <5>2. e \in 0 .. e
          BY <1>7
        <5>3. QED
          BY <1>7, <2>2, <4>2, <5>1, <5>2 DEF Before
      <4>3. CASE r > e
        <5>1. e \in 0 .. r /\ e + 1 \in 0 .. r
          BY <1>7, <4>3
        <5>2. QED
          BY <1>7, <2>2, <3>1, <4>3, <5>1 DEF Before
      <4>4. QED
        BY <1>7, <4>1, <4>2, <4>3
    <3>3. QED
      <4>1. \A r \in Slots : r \in Before(Directory') <=> r \in Before(Directory) \cup {e}
        BY <1>7, <3>2
      <4>2. Before(Directory') \subseteq Slots /\ Before(Directory) \subseteq Slots
        BY DEF Before
      <4>3. QED
        BY <1>3, <4>1, <4>2
  <2>3. QED
    BY <1>3, <2>1, <2>2
<1>10. e \notin Live(Directory) /\ Live(Directory) \subseteq Slots
  <2>1. ~IsEntry(Directory[e])
    BY <1>3 DEF IsEntry, IsEnd
  <2>2. QED
    BY <2>1 DEF Live, Before
<1>11. Live(Directory') = Live(Directory) \cup {e}
  <2>1. Before(Directory) \subseteq Slots
    BY DEF Before
  <2>2. \A r \in Before(Directory') : IsEntry(Directory'[r]) <=> r = e \/ IsEntry(Directory[r])
    BY <1>3, <1>4, <1>8, <1>9, <2>1
  <2>3. \A r \in Before(Directory') : r = e \/ r \in Before(Directory)
    BY <1>9
  <2>4. e \in Before(Directory') /\ Before(Directory) \subseteq Before(Directory')
    BY <1>9
  <2>5. QED
    BY <2>2, <2>3, <2>4 DEF Live
<1>12. \A r \in Live(Directory) : Directory'[r] = Directory[r]
  BY <1>8, <1>10
<1>13. Firsts(Directory') = Firsts(Directory) \cup {new}
  <2>1. \A x : x \in Firsts(Directory') <=> \E r \in Live(Directory') : x = Directory'[r].first
    BY DEF Firsts
  <2>2. \A x : x \in Firsts(Directory) <=> \E r \in Live(Directory) : x = Directory[r].first
    BY DEF Firsts
  <2>3. QED
    BY <1>4, <1>8, <1>11, <1>12, <2>1, <2>2
<1>14. DirectoryInv(Directory')
  <2>1. \A r \in Before(Directory') : Directory'[r] \in Dirents \cup {Deleted}
    BY <1>3, <1>4, <1>8, <1>9 DEF DirectoryInv, Before
  <2>2. \A r \in Live(Directory) : Directory[r].first \in Heads /\ Directory[r].name # call.name
    BY <1>3 DEF Heads, Firsts, Absent
  <2>3. new # root_cluster
    BY <1>3 DEF Heads
  <2>4. \A r \in Live(Directory') : Directory'[r].name \in InScenario /\ Directory'[r].first # root_cluster
    BY <1>3, <1>4, <1>8, <1>11, <1>12, <2>3 DEF DirectoryInv
  <2>5. \A r, s \in Live(Directory') :
          r # s => Directory'[r].name # Directory'[s].name /\ Directory'[r].first # Directory'[s].first
    BY <1>3, <1>4, <1>8, <1>11, <1>12, <2>2 DEF DirectoryInv
  <2>6. QED
    BY <2>1, <2>4, <2>5 DEF DirectoryInv
<1>15. pc' = "lookup" /\ Common' /\ Caller' = "truncate_start"
  <2> DEFINE u == [goal |-> 0]
  <2>1. LookUp(<<"truncate_start", "open_truncated">>, u) /\ Locals(u) /\ "dir" \notin DOMAIN u
    BY <1>6 DEF Truncate, Locals
  <2>2. "truncate_start" \in Labels /\ "open_truncated" \in Labels
    BY Looking
  <2> HIDE DEF u
  <2>3. QED
    BY <1>1, <2>1, <2>2, LookUpMove
<1>16. ~Cutting' /\ Loose' = {} /\ ~HasNew' /\ ~GrowingFile' /\ ~CreatingFile' /\ ~InFile' /\ ~HasAttributes'
  BY <1>15 DEF Cutting, Loose, HasNew, GrowingFile, CreatingFile, Allocating, InFile, HasAttributes
<1>17. Heads' = Heads \cup {new} /\ Remaining' = View'
  BY <1>13, <1>16 DEF Heads, Remaining
<1>18. DirectoryInv(Directory)'
  BY <1>1, <1>14 DEF DirectoryInv, InScenario
<1>19. ChainAt' /\ FileAt' /\ SlotAt'
  BY <1>15, <1>16 DEF ChainAt, FileAt, SlotAt, Cutting
<1>20. {x \in Entered(Directory) : x.name # call.name} = {x \in Entered(Directory') : x.name # call.name}
  BY <1>4, <1>8, <1>11, <1>12 DEF Entered
<1>21. QED
  BY <1>2, <1>3, <1>5, <1>15, <1>16, <1>17, <1>18, <1>19, <1>20 DEF Tidy, WhereInv, DirectoryWritten

-----------------------------------------------------------------------------
LEMMA CalmStays ==
  ASSUME [XNext]_xvars
  PROVE  scenario' = scenario /\ Calm' = Calm
<1>1. scenario' = scenario
  BY DEF XNext, xvars, FsCall, Open, FsRead, FsWrite, FsLseek, Close, OtherVolume, Step,
         Lookup, FindSlot, MarkEnd, DirGrown, Alloc, Scan, ZeroCluster, Attach, AttachEnd, FreeChain,
         TruncateStart, TruncateWalk, TruncateGrown, TruncateEnd, SetAttr, Find, FindGrown, WriteStart,
         WriteExtended, Write, WriteAdvance, WriteGrown, WriteEnd, ReadStart, Read, ReadAdvance, FlushPage,
         LoadPage, OpenCreate, Create, CreateDirent, OpenTruncated, Opened, ReadEnd, FsWriteEnd, Pad, Padded,
         PadEnd, LseekEnd, Flushed, Closed, Finish
<1>2. QED
  BY <1>1 DEF Calm, Known

LEMMA StepStruct ==
  ASSUME TypeInv, StructInv, [XNext]_xvars
  PROVE  StructInv'
<1>1. Calm' = Calm
  BY CalmStays
<1>2. SUFFICES ASSUME Calm
               PROVE  Tidy'
  BY <1>1 DEF StructInv
<1>3. Tidy
  BY <1>2 DEF StructInv
<1>4. CASE UNCHANGED xvars
  <2>1. Tidy' <=> Tidy
    BY <1>4 DEF xvars, Tidy, DirectoryInv, InScenario, Directory, Remaining, View, Hit, Heads, Loose, HasNew, Cutting,
                WhereInv, Common, ChainAt, FileAt, SlotAt, InFile, GrowingFile, HasAttributes, CreatingFile, Caller
  <2>2. QED
    BY <1>3, <2>1
<1>5. CASE FsCall
  <2>1. PICK d \in Fds : \/ \E f \in Names, op \in {"r", "r+", "w"} : Open(d, f, op)
                         \/ \E n \in Lengths : FsRead(d, n) \/ FsWrite(d, n)
                         \/ \E to \in scenario.seeks : FsLseek(d, to)
                         \/ Close(d)
    BY <1>5 DEF FsCall
  <2>2. QED
    BY <1>3, <2>1, OpenStruct, FsReadStruct, FsWriteStruct, FsLseekStruct, CloseStruct
<1>6. CASE Step
  <2>1. ~DirGrown
    BY <1>3 DEF DirGrown, Tidy, WhereInv, Common, Labels
  <2>2. CASE Lookup \/ FindSlot \/ MarkEnd \/ OpenCreate \/ Create \/ CreateDirent \/ SetAttr
    BY <1>2, <1>3, <2>2, LookupStruct, FindSlotStruct, MarkEndStruct, OpenCreateStruct, CreateStruct,
       CreateDirentStruct, SetAttrStruct
  <2>3. CASE Alloc \/ Scan \/ ZeroCluster \/ Attach \/ AttachEnd \/ FreeChain
    BY <1>3, <2>3, AllocStruct, ScanStruct, ZeroClusterStruct, AttachStruct, AttachEndStruct, FreeChainStruct
  <2>4. CASE TruncateStart \/ TruncateWalk \/ TruncateGrown \/ TruncateEnd
    BY <1>3, <2>4, TruncateStartStruct, TruncateWalkStruct, TruncateGrownStruct, TruncateEndStruct
  <2>5. CASE \/ Find \/ FindGrown \/ WriteStart \/ WriteExtended \/ Write \/ WriteAdvance \/ WriteGrown
             \/ WriteEnd \/ ReadStart \/ Read \/ ReadAdvance
    BY <1>3, <2>5, FindStruct, FindGrownStruct, WriteStartStruct, WriteExtendedStruct, WriteStruct,
       WriteAdvanceStruct, WriteGrownStruct, WriteEndStruct, ReadStartStruct, ReadActionStruct, ReadAdvanceStruct
  <2>6. CASE FlushPage \/ LoadPage
    BY <1>3, <2>6, PageStruct
  <2>7. CASE \/ OpenTruncated \/ Opened \/ ReadEnd \/ FsWriteEnd \/ Pad \/ Padded \/ PadEnd \/ LseekEnd
             \/ Flushed \/ Closed \/ Finish
    BY <1>3, <2>7, OpenTruncatedStruct, OpenedStruct, ReadEndStruct, FsWriteEndStruct, PadStruct, PaddedStruct,
       PadEndStruct, LseekEndStruct, FlushedStruct, ClosedStruct, FinishStruct
  <2>8. QED
    BY <1>6, <2>1, <2>2, <2>3, <2>4, <2>5, <2>6, <2>7 DEF Step
<1>7. CASE OtherVolume
  BY <1>3, <1>7, OtherVolumeStruct
<1>8. QED
  BY <1>4, <1>5, <1>6, <1>7 DEF XNext

LEMMA AlwaysStructured == XSpec => []StructInv
<1>1. XInit => StructInv
  BY InitStruct
<1>2. TypeInv /\ StructInv /\ [XNext]_xvars => StructInv'
  BY StepStruct
<1>3. QED
  BY <1>1, <1>2, AlwaysTyped, PTL DEF XSpec

\* Between calls every cluster in use belongs to the directory or to one file, on a volume of any
\* size, whatever was opened, written, truncated or failed for want of space: nothing is leaked,
\* nothing is in two chains (fatx_fat.c, fatx_file.c, fatx_dir.c).
THEOREM NothingLeaked == XSpec => []ClustersAccounted
<1>1. TypeInv /\ StructInv => ClustersAccounted
  <2>1. SUFFICES ASSUME TypeInv, StructInv, Calm, pc = "idle"
                 PROVE  Accounted(View, data)
    BY DEF ClustersAccounted
  <2>2. Settled
    BY <2>1, SettledAt DEF StructInv
  <2>3. /\ Forest(View, {root_cluster} \cup Firsts(data[root_cluster])) /\ View[root_cluster] = END
        /\ DirectoryInv(data[root_cluster])
    BY <2>2, SettledForest DEF Heads, Directory
  <2>4. View \in [FatIndices -> Entries] /\ data \in [Clusters -> [Slots -> UnitValues]]
    BY <2>1, DirectoryType
  <2>5. QED
    BY <2>3, <2>4, ForestAccounted
<1>2. QED
  BY <1>1, AlwaysTyped, AlwaysStructured, PTL

-----------------------------------------------------------------------------
(***************************************************************************)
(* Where a call is in its file's chain                                     *)
(***************************************************************************)

\* The cluster that a call is at is one of the chain that its file's entry begins.
Own ==
  /\ InFile \/ Cutting => Reached(Remaining, {call.attr.first}, call.cluster)
  /\ pc = "attach_end" => View[call.cluster] = call.new

OwnInv == Calm => Own

LEMMA ReachedFirst ==
  ASSUME NEW w, NEW a
  PROVE  Reached(w, {a}, a)
BY DEF Reached

LEMMA ReachedNext ==
  ASSUME NEW w, NEW a, NEW c, Reached(w, {a}, c), IsData(w[c])
  PROVE  Reached(w, {a}, w[c])
BY DEF Reached, ClosedUnder

\* A FAT in which no chain is cut.
LEMMA ReachedMore ==
  ASSUME NEW w, NEW x, \A k \in Clusters : IsData(w[k]) => x[k] = w[k], NEW a, NEW c, Reached(w, {a}, c)
  PROVE  Reached(x, {a}, c)
<1>1. SUFFICES ASSUME NEW S \in SUBSET Clusters, {a} \subseteq S, ClosedUnder(x, S)
               PROVE  c \in S
  BY DEF Reached
<1>2. ClosedUnder(w, S)
  BY <1>1 DEF ClosedUnder
<1>3. QED
  BY <1>1, <1>2 DEF Reached

LEMMA ReachedCut ==
  ASSUME NEW w \in [FatIndices -> Entries], NEW a, NEW c \in Clusters, Reached(w, {a}, c)
  PROVE  Reached([w EXCEPT ![c] = END], {a}, c)
<1> DEFINE x == [w EXCEPT ![c] = END]
<1>1. \A k \in Clusters : k # c => x[k] = w[k]
  BY Constants
<1> HIDE DEF x
<1>2. ASSUME NEW S \in SUBSET Clusters, {a} \subseteq S, ClosedUnder(x, S), c \notin S
      PROVE  FALSE
  <2>1. ClosedUnder(w, S)
    BY <1>1, <1>2 DEF ClosedUnder
  <2>2. QED
    BY <1>2, <2>1 DEF Reached
<1>3. QED
  BY <1>2 DEF Reached, x

LEMMA ReachedFreed ==
  ASSUME NEW w \in [FatIndices -> Entries], NEW H \in SUBSET Clusters, Forest(w, H), NEW v \in H,
         NEW a, a # v, NEW c, Reached(w, {a}, c)
  PROVE  Reached([w EXCEPT ![v] = AVAILABLE], {a}, c)
<1> DEFINE x == [w EXCEPT ![v] = AVAILABLE]
<1>1. \A k \in Clusters : k # v => x[k] = w[k]
  BY Constants
<1> HIDE DEF x
<1>2. ASSUME NEW S \in SUBSET Clusters, {a} \subseteq S, ClosedUnder(x, S)
      PROVE  c \in S
  <2>1. ASSUME NEW e \in S \ {v}, IsData(w[e])
        PROVE  w[e] \in S \ {v}
    <3>1. x[e] = w[e] /\ w[e] # v
      BY <1>1, <2>1 DEF Forest
    <3>2. QED
      BY <1>2, <2>1, <3>1 DEF ClosedUnder
  <2>2. ClosedUnder(w, S \ {v}) /\ {a} \subseteq S \ {v}
    BY <1>2, <2>1 DEF ClosedUnder
  <2>3. QED
    BY <2>2 DEF Reached
<1>3. QED
  BY <1>2 DEF Reached, x

-----------------------------------------------------------------------------
InChain == {"truncate", "truncate_grown", "find", "find_grown", "write", "advance", "write_grown", "attach"}
              \cup Allocating

LEMMA OwnElsewhere ==
  ASSUME pc' \notin InChain \cup {"attach_end", "free", "truncate_end"}
  PROVE  Own'
BY DEF InChain, Own, InFile, GrowingFile, Cutting

LEMMA OwnCreating ==
  ASSUME pc' \in Allocating, Caller' = "create"
  PROVE  Own'
BY DEF Allocating, Own, InFile, GrowingFile, Cutting

LEMMA OwnTo ==
  ASSUME pc' \in InChain, Reached(View', {call'.attr.first}, call'.cluster)
  PROVE  Own'
BY DEF InChain, Allocating, Own, Cutting, Remaining

\* A step that goes on at a cluster of the chain.
LEMMA OwnGo ==
  ASSUME TypeInv, Common, scenario' = scenario, View' = View, NEW p \in InChain, NEW u, Locals(u), Go(p, u),
         Reached(View, {IF "attr" \in DOMAIN u THEN u.attr.first ELSE call.attr.first},
                 IF "cluster" \in DOMAIN u THEN u.cluster ELSE call.cluster)
  PROVE  Own'
<1>1. p \in Labels
  BY LabelSets DEF InChain, Labels, Truncating, Writing, Allocating, Attaching
<1>2. pc' = p /\ Sets(u, {})
  BY <1>1, GoMove
<1>3. /\ call'.attr = IF "attr" \in DOMAIN u THEN u.attr ELSE call.attr
      /\ call'.cluster = IF "cluster" \in DOMAIN u THEN u.cluster ELSE call.cluster
  BY <1>2 DEF Sets, Fields
<1>4. QED
  BY <1>2, <1>3, OwnTo

LEMMA OwnGrow ==
  ASSUME TypeInv, Common, scenario' = scenario, View' = View, NEW back \in Grown, NEW z, Grow(back, [zero |-> z]),
         Reached(View, {call.attr.first}, call.cluster)
  PROVE  Own'
<1> DEFINE u == [zero |-> z]
<1>1. "alloc" \in Labels /\ "attach" \in Labels /\ back \in Labels
  BY LabelSets DEF Labels, Truncating, Writing, Grown
<1>2. Sub("alloc", <<"attach", back>>, u) /\ DOMAIN u = {"zero"} /\ Locals(u)
  BY DEF Grow, Locals
<1> HIDE DEF u
<1>3. pc' = "alloc" /\ Sets(u, {"ret"})
  BY <1>1, <1>2, SubMove
<1>4. call'.attr = call.attr /\ call'.cluster = call.cluster
  BY <1>2, <1>3 DEF Sets, Fields
<1>5. QED
  BY <1>3, <1>4, OwnTo DEF InChain, Allocating

LEMMA OwnBack ==
  ASSUME TypeInv, NEW ok, NEW u, Back(ok, u),
         pc \in Truncating \cup Writing \cup Reading \cup {"set_attr", "find", "lookup"}
  PROVE  Own'
<1>1. Returns(pc) # {} /\ Returns(pc) \subseteq Plain \cup {"opened", "open_w", "truncate_start", "set_attr",
                                                            "write_start", "read_start", "pad_end"}
  BY PlainLabels, ReturnsTable
<1>2. call.ret # <<>> /\ call.ret[1] \in Returns(pc) /\ call.ret \in Seq(PCs)
  BY <1>1 DEF TypeInv, StackInv
<1>3. pc' \in Returns(pc)
  BY <1>2 DEF Back
<1>4. QED
  BY <1>1, <1>3, OwnElsewhere DEF Plain, InChain, Allocating

LEMMA OwnHere ==
  ASSUME Own, InFile
  PROVE  Reached(View, {call.attr.first}, call.cluster)
BY DEF Own, Remaining, Cutting, InFile, GrowingFile, Allocating

LEMMA OwnPlain ==
  ASSUME \/ MarkEnd \/ CreateDirent \/ Create \/ OpenTruncated \/ Opened \/ ReadEnd \/ FsWriteEnd
         \/ Pad \/ Padded \/ PadEnd \/ LseekEnd \/ Flushed \/ Closed \/ Finish \/ OtherVolume \/ TruncateEnd
  PROVE  Own'
<1>1. pc' \in {"dirent", "lookup", "slot", "return", "pad", "lseek_end", "closed", "idle"}
  BY DEF MarkEnd, CreateDirent, Truncate, Create, OpenTruncated, Opened, ReadEnd, FsWriteEnd, Pad, fatx_write, Padded,
         PadEnd, LseekEnd, Flushed, Closed, Finish, OtherVolume, TruncateEnd, Go, Return, LookUp
<1>2. QED
  BY <1>1, OwnElsewhere DEF InChain, Allocating

LEMMA OwnCall ==
  ASSUME FsCall
  PROVE  Own'
<1>1. pc' \in {"lookup", "pad", "lseek_end", "flush", "closed"}
  BY DEF FsCall, Open, FsRead, FsWrite, FsLseek, Close, Begin
<1>2. QED
  BY <1>1, OwnElsewhere DEF InChain, Allocating

LEMMA OwnBacks ==
  ASSUME TypeInv, Lookup \/ SetAttr \/ WriteExtended \/ WriteEnd \/ Read \/ ReadAdvance
  PROVE  Own'
<1>1. pc \in Truncating \cup Writing \cup Reading \cup {"set_attr", "find", "lookup"}
  BY LabelSets DEF Lookup, SetAttr, WriteExtended, WriteEnd, Read, ReadAdvance
<1>2. pc' \in {"lookup", "read_advance", "read"} \/ \E ok, u : Back(ok, u)
  <2>1. CASE Lookup
    BY <2>1 DEF Lookup, Go
  <2>2. CASE SetAttr \/ WriteExtended \/ WriteEnd
    BY <2>2 DEF SetAttr, WriteExtended, WriteEnd, LookUp
  <2>3. CASE Read
    BY <2>3 DEF Read, Go
  <2>4. CASE ReadAdvance
    BY <2>4 DEF ReadAdvance, Go
  <2>5. QED
    BY <2>1, <2>2, <2>3, <2>4
<1>3. CASE pc' \in {"lookup", "read_advance", "read"}
  BY <1>3, OwnElsewhere DEF InChain, Allocating
<1>4. CASE \E ok, u : Back(ok, u)
  BY <1>1, <1>4, OwnBack
<1>5. QED
  BY <1>2, <1>3, <1>4

\* The directory does not grow.
LEMMA OwnSlot ==
  ASSUME TypeInv, Tidy, Tidy', FindSlot
  PROVE  Own'
<1>1. CASE pc' \in {"slot", "dirent", "mark"}
  BY <1>1, OwnElsewhere DEF InChain, Allocating
<1>2. CASE Grow("dir_grown", [cluster |-> call.dir.cluster, zero |-> TRUE])
  <2> DEFINE u == [cluster |-> call.dir.cluster, zero |-> TRUE]
             labels == <<"attach", "dir_grown">>
  <2>1. call \in Calls /\ call.ret \in Seq(PCs)
    BY Here DEF StackInv
  <2>2. call'.ret = labels \o call.ret
    <3> DEFINE w == [ret |-> labels \o call.ret]
    <3>1. call' = Having(call, u, w) /\ w.ret = labels \o call.ret /\ "ret" \in DOMAIN w
      BY <1>2 DEF Grow, Sub
    <3>2. "ret" \in Fields /\ "ret" \notin DOMAIN u
      BY DEF Fields
    <3> HIDE DEF w, u
    <3>3. call'["ret"] = w["ret"]
      BY <2>1, <3>1, <3>2, HavingFields
    <3>4. QED
      BY <3>1, <3>3
  <2>3. call'.ret[2] = "dir_grown" /\ 2 \in 1 .. Len(call'.ret)
    BY <2>1, <2>2
  <2>4. call'.ret \in Seq(Labels)
    BY DEF Tidy, WhereInv, Common
  <2>5. call'.ret[2] \in Labels
    BY <2>3, <2>4
  <2>6. QED
    BY <2>3, <2>5 DEF Labels
<1>3. QED
  BY <1>1, <1>2 DEF FindSlot, Go

LEMMA OwnOpenCreate ==
  ASSUME TypeInv, Tidy, OpenCreate
  PROVE  Own'
<1>1. CASE Truncate("open_truncated", 0)
  <2>1. pc' = "lookup"
    BY <1>1 DEF Truncate, LookUp
  <2>2. QED
    BY <2>1, OwnElsewhere DEF InChain, Allocating
<1>2. CASE Sub("alloc", <<"create">>, [zero |-> TRUE])
  <2> DEFINE u == [zero |-> TRUE]
  <2>1. Common /\ scenario' = scenario /\ "alloc" \in Labels /\ "create" \in Labels
    BY LabelSets DEF Tidy, WhereInv, OpenCreate, Labels
  <2>2. Sub("alloc", <<"create">>, u) /\ Locals(u)
    BY <1>2 DEF Locals
  <2> HIDE DEF u
  <2>3. pc' = "alloc" /\ Caller' = "create"
    BY <2>1, <2>2, SubMove
  <2>4. QED
    BY <2>3, OwnCreating DEF Allocating
<1>3. QED
  BY <1>1, <1>2 DEF OpenCreate

\* The steps of an allocation, for a file's chain or for a new file.
LEMMA OwnAllocating ==
  ASSUME TypeInv, Tidy, Own, pc \in Allocating, call'.attr = call.attr, call'.cluster = call.cluster,
         (pc' \in {"scan", "zero"} /\ Caller' = Caller) \/ pc' = Caller,
         \A k \in Clusters : IsData(View[k]) => View'[k] = View[k]
  PROVE  Own'
<1>1. Caller \in {"create", "attach"}
  BY Allocation
<1>2. CASE Caller = "create"
  <2>1. CASE pc' \in {"scan", "zero"} /\ Caller' = Caller
    BY <1>2, <2>1, OwnCreating DEF Allocating
  <2>2. CASE pc' = Caller
    BY <1>2, <2>2, OwnElsewhere DEF InChain, Allocating
  <2>3. QED
    BY <2>1, <2>2
<1>3. CASE Caller = "attach"
  <2>1. Reached(View, {call.attr.first}, call.cluster)
    BY <1>3, OwnHere DEF InFile, GrowingFile
  <2>2. Reached(View', {call.attr.first}, call.cluster)
    BY <2>1, ReachedMore
  <2>3. pc' \in InChain
    BY <1>3 DEF InChain, Allocating
  <2>4. QED
    BY <2>2, <2>3, OwnTo
<1>4. QED
  BY <1>1, <1>2, <1>3

LEMMA OwnAlloc ==
  ASSUME TypeInv, Tidy, Own, Alloc
  PROVE  Own'
<1> DEFINE u == [start |-> i, wrapped |-> FALSE]
<1>1. /\ Common /\ Quiet /\ Go("scan", u) /\ Locals(u) /\ pc = "alloc" /\ scenario' = scenario
      /\ DOMAIN u = {"start", "wrapped"} /\ "scan" \in Labels
  BY Unwritten, LabelSets DEF Alloc, disk, Locals, Labels, Tidy, WhereInv
<1> HIDE DEF u
<1>2. pc' = "scan" /\ Sets(u, {}) /\ Caller' = Caller
  BY <1>1, GoMove
<1>3. call'.attr = call.attr /\ call'.cluster = call.cluster
  BY <1>1, <1>2 DEF Sets, Fields
<1>4. QED
  BY <1>1, <1>2, <1>3, OwnAllocating DEF Quiet, Allocating

\* The FAT is left alone, or a free cluster is taken.
LEMMA ScanEffect ==
  ASSUME TypeInv, Scan
  PROVE  \/ View' = View
         \/ \E k \in Clusters : View[k] = AVAILABLE /\ View' = [View EXCEPT ![k] = END]
<1>1. CASE UNCHANGED page
  BY <1>1 DEF Scan, disk, View, Hit
<1>2. CASE ~Exhausted /\ page.ent[index] = AVAILABLE
  <2>1. PICK k \in Clusters : k = index /\ k >= 2 /\ k < NumClusters
    BY IndexType
  <2>2. Hit(k) /\ View[k] = AVAILABLE /\ WriteFat(k, END) /\ i' = k /\ fat' = fat /\ data' = data /\ DiskType
    BY <1>2, <2>1, ViewType, Here DEF Scan, disk
  <2>3. i' \in (2 .. NumClusters) \cup Indices
    BY <2>1, <2>2, Constants DEF Clusters
  <2>4. View' = [View EXCEPT ![k] = END]
    BY <2>2, <2>3, WriteFatType, Constants DEF END, Entries
  <2>5. QED
    BY <2>2, <2>4
<1>3. QED
  BY <1>1, <1>2 DEF Scan

LEMMA OwnScan ==
  ASSUME TypeInv, Tidy, Own, Scan
  PROVE  Own'
<1>1. Common /\ pc = "scan" /\ scenario' = scenario /\ Returns(pc) # {}
  BY Returning DEF Scan, Tidy, WhereInv
<1>2. \A k \in Clusters : IsData(View[k]) => View'[k] = View[k]
  <2>1. View \in [FatIndices -> Entries] /\ ~IsData(AVAILABLE)
    BY DirectoryType DEF IsData, AVAILABLE
  <2>2. QED
    BY <2>1, ScanEffect, Constants
<1>3. \E u : /\ Locals(u) /\ "attr" \notin DOMAIN u /\ "cluster" \notin DOMAIN u
             /\ \/ Go("scan", u) \/ Go("zero", u)
                \/ \E ok \in BOOLEAN : Back(ok, u)
  <2>1. /\ Locals(NoLocals) /\ DOMAIN NoLocals = {}
        /\ Locals([wrapped |-> wrapped]) /\ Locals([new |-> index])
    BY DEF Locals, NoLocals
  <2>2. \/ Back(FALSE, NoLocals) \/ Go("zero", [new |-> index]) \/ Back(TRUE, [new |-> index])
        \/ Go("scan", [wrapped |-> wrapped])
    BY DEF Scan
  <2>3. QED
    BY <2>1, <2>2
<1>4. PICK u : /\ Locals(u) /\ "attr" \notin DOMAIN u /\ "cluster" \notin DOMAIN u
               /\ \/ Go("scan", u) \/ Go("zero", u)
                  \/ \E ok \in BOOLEAN : Back(ok, u)
  BY <1>3
<1>5. /\ (pc' \in {"scan", "zero"} /\ Caller' = Caller) \/ pc' = Caller
      /\ Sets(u, {"ret", "ok"})
  <2>1. CASE Go("scan", u) \/ Go("zero", u)
    <3>1. "scan" \in Labels /\ "zero" \in Labels
      BY LabelSets DEF Labels
    <3>2. pc' \in {"scan", "zero"} /\ Caller' = Caller /\ Sets(u, {})
      BY <1>1, <1>4, <2>1, <3>1, GoMove
    <3>3. QED
      BY <3>2 DEF Sets
  <2>2. CASE \E ok \in BOOLEAN : Back(ok, u)
    BY <1>1, <1>4, <2>2, BackMove
  <2>3. QED
    BY <1>4, <2>1, <2>2
<1>6. call'.attr = call.attr /\ call'.cluster = call.cluster
  BY <1>4, <1>5 DEF Sets, Fields
<1>7. QED
  BY <1>1, <1>2, <1>5, <1>6, OwnAllocating DEF Allocating

LEMMA OwnZero ==
  ASSUME TypeInv, Tidy, Own, ZeroCluster
  PROVE  Own'
<1>1. Common /\ pc = "zero" /\ scenario' = scenario /\ Back(TRUE, NoLocals) /\ Returns(pc) # {}
  BY Returning DEF ZeroCluster, Tidy, WhereInv
<1>2. View' = View
  BY DEF ZeroCluster, View, Hit
<1>3. pc' = Caller /\ Sets(NoLocals, {"ret", "ok"})
  BY <1>1, BackMove, ResultLocals
<1>4. call'.attr = call.attr /\ call'.cluster = call.cluster
  BY <1>3 DEF Sets, Fields, NoLocals
<1>5. QED
  BY <1>1, <1>2, <1>3, <1>4, OwnAllocating DEF Allocating

LEMMA NoLocalsSet ==
  "attr" \notin DOMAIN NoLocals /\ "cluster" \notin DOMAIN NoLocals
BY DEF NoLocals

\* Coming back to a file's chain.
LEMMA OwnGrown ==
  ASSUME TypeInv, Common, scenario' = scenario, pc \in Attaching, NEW ok, NEW u, Locals(u), Back(ok, u),
         "attr" \notin DOMAIN u,
         Reached(View', {call.attr.first}, IF "cluster" \in DOMAIN u THEN u.cluster ELSE call.cluster)
  PROVE  Own'
<1>1. Returns(pc) # {}
  BY ReturnsTable
<1>2. pc' = Caller /\ Sets(u, {"ret", "ok"})
  BY <1>1, BackMove
<1>3. pc' \in Grown
  BY <1>2, AttachingReturns
<1>4. call'.attr = call.attr /\ call'.cluster = IF "cluster" \in DOMAIN u THEN u.cluster ELSE call.cluster
  BY <1>2 DEF Sets, Fields
<1>5. QED
  BY <1>3, <1>4, OwnTo DEF Grown, InChain

\* The cluster that a file's chain ends with leads to a new one, if anything is written.
LEMMA AttachEffect ==
  ASSUME TypeInv, Tidy, Attach
  PROVE  /\ View[call.cluster] = END /\ call.cluster \in Clusters /\ InFile
         /\ \/ View' = View /\ Back(FALSE, NoLocals)
            \/ View' = [View EXCEPT ![call.cluster] = call.new] /\ Go("attach_end", NoLocals)
<1>1. pc = "attach" /\ InFile /\ GrowingFile /\ call \in Calls /\ DiskType /\ fat' = fat /\ data' = data /\ i' = i
  BY Here DEF Attach, disk, InFile, GrowingFile
<1>2. View[call.cluster] = END /\ call.cluster \in Clusters
  BY <1>1 DEF Tidy, WhereInv, ChainAt, InUse
<1>3. CASE UNCHANGED page /\ Back(FALSE, NoLocals)
  BY <1>1, <1>2, <1>3 DEF View, Hit
<1>4. CASE Hit(call.cluster) /\ WriteFat(call.cluster, call.new) /\ Go("attach_end", NoLocals)
  <2>1. call.new \in Entries /\ i' \in (2 .. NumClusters) \cup Indices
    BY <1>1, Constants DEF Calls, Clusters, Entries, DiskType
  <2>2. QED
    BY <1>1, <1>2, <1>4, <2>1, WriteFatType
<1>5. QED
  BY <1>3, <1>4 DEF Attach

LEMMA OwnAttach ==
  ASSUME TypeInv, Tidy, Own, Attach
  PROVE  Own'
<1>1. /\ Common /\ pc = "attach" /\ pc \in Attaching /\ scenario' = scenario
      /\ Reached(View, {call.attr.first}, call.cluster)
      /\ View[call.cluster] = END /\ call.cluster \in Clusters /\ call.cluster \in FatIndices
      /\ View \in [FatIndices -> Entries]
  BY AttachEffect, OwnHere, LabelSets, DirectoryType, Constants DEF Attach, Tidy, WhereInv
<1>2. CASE View' = View /\ Back(FALSE, NoLocals)
  BY <1>1, <1>2, OwnGrown, NoLocalsSet, ResultLocals
<1>3. CASE View' = [View EXCEPT ![call.cluster] = call.new] /\ Go("attach_end", NoLocals)
  <2>1. View'[call.cluster] = call.new /\ \A k \in Clusters : IsData(View[k]) => View'[k] = View[k]
    <3>1. ~IsData(END)
      BY DEF IsData, END
    <3>2. QED
      BY <1>1, <1>3, <3>1, Constants
  <2>2. Reached(View', {call.attr.first}, call.cluster)
    BY <1>1, <2>1, ReachedMore
  <2>3. pc' = "attach_end" /\ Sets(NoLocals, {})
    BY <1>1, <1>3, GoMove, ResultLocals, LabelSets DEF Labels
  <2>4. call'.attr = call.attr /\ call'.cluster = call.cluster /\ call'.new = call.new
    BY <2>3 DEF Sets, Fields, NoLocals
  <2>5. ~Cutting'
    BY <2>3 DEF Cutting
  <2>6. QED
    BY <2>1, <2>2, <2>3, <2>4, <2>5 DEF Own, Remaining
<1>4. QED
  BY <1>2, <1>3, AttachEffect

LEMMA AttachEndEffect ==
  ASSUME TypeInv, Tidy, AttachEnd
  PROVE  View' = View
<1>1. pc = "attach_end" /\ DiskType /\ fat' = fat /\ data' = data /\ i' = i /\ View[call.new] = END
  BY Here DEF AttachEnd, disk, Tidy, WhereInv, ChainAt
<1>2. View' = [View EXCEPT ![call.new] = END] /\ View \in [FatIndices -> Entries]
  BY <1>1, WriteFatType, ViewType, Constants DEF AttachEnd, DiskType, END, Entries
<1>3. QED
  BY <1>1, <1>2

LEMMA OwnAttachEnd ==
  ASSUME TypeInv, Tidy, Own, AttachEnd
  PROVE  Own'
<1> DEFINE u == [cluster |-> call.new]
<1>1. /\ Common /\ pc = "attach_end" /\ pc \in Attaching /\ scenario' = scenario /\ InFile /\ call \in Calls
      /\ View' = View /\ View[call.cluster] = call.new
  BY AttachEndEffect, LabelSets, Here DEF AttachEnd, Tidy, WhereInv, InFile, Own
<1>2. IsData(call.new)
  BY <1>1, Constants DEF Calls, IsData, Clusters
<1>3. Reached(View, {call.attr.first}, call.new)
  BY <1>1, <1>2, OwnHere, ReachedNext
<1>4. Back(TRUE, u) /\ Locals(u) /\ DOMAIN u = {"cluster"} /\ u.cluster = call.new
  BY DEF AttachEnd, Locals
<1> HIDE DEF u
<1>5. QED
  BY <1>1, <1>3, <1>4, OwnGrown

\* A truncation frees a cluster that no file's entry leads to any more.
LEMMA FreeEffect ==
  ASSUME TypeInv, Tidy, FreeChain
  PROVE  /\ View' = [View EXCEPT ![call.victim] = AVAILABLE] /\ Cutting /\ Loose = {call.victim}
         /\ call.victim \in Clusters /\ call.cluster \in Clusters /\ call.victim # call.cluster
<1> DEFINE v == call.victim
           c == call.cluster
<1>1. /\ pc = "free" /\ fat' = fat /\ data' = data /\ i' = i /\ DiskType /\ Cutting /\ ~HasNew
      /\ v \in Clusters /\ c \in Clusters
  BY Here DEF FreeChain, disk, Cutting, HasNew, Calls
<1>2. /\ Loose = {v} /\ v \notin Heads /\ DirectoryInv(Directory)
      /\ Forest(Remaining, Heads \cup {v}) /\ Reached(Remaining, Heads, c)
  BY <1>1 DEF Tidy, WhereInv, ChainAt, Loose
<1>3. View' = [View EXCEPT ![v] = AVAILABLE]
  <2>1. AVAILABLE \in Entries
    BY Constants DEF AVAILABLE, Entries
  <2>2. QED
    BY <1>1, <2>1, WriteFatType DEF FreeChain, DiskType
<1>4. Remaining \in [FatIndices -> Entries]
  BY <1>1, ViewType, Constants DEF Remaining, END, Entries
<1>5. Heads \in SUBSET Clusters
  BY <1>2, HeadsType
<1> HIDE DEF c, v
<1>6. c # v
  BY <1>1, <1>2, <1>4, <1>5, FreedForest
<1>7. QED
  BY <1>1, <1>2, <1>3, <1>6 DEF c, v

\* A file's entry is one of the directory's.
LEMMA BeginsHead ==
  ASSUME NEW f, NEW a, Begins(Directory, f, a)
  PROVE  a \in Heads
BY DEF Begins, Heads, Firsts

LEMMA OwnFree ==
  ASSUME TypeInv, Tidy, Own, FreeChain
  PROVE  Own'
<1> DEFINE c == call.cluster
           v == call.victim
           a == call.attr.first
           H == Heads \cup Loose
           u == [victim |-> page.ent[v]]
<1>1. /\ pc = "free" /\ Common /\ scenario' = scenario /\ Cutting /\ HasAttributes /\ Returns(pc) # {}
  BY Returning DEF FreeChain, Tidy, WhereInv, Cutting, HasAttributes
<1>2. /\ View' = [View EXCEPT ![v] = AVAILABLE] /\ v \in H /\ v # c /\ c \in Clusters /\ v \in Clusters
      /\ View \in [FatIndices -> Entries] /\ c \in FatIndices /\ v \in FatIndices
  BY FreeEffect, DirectoryType, Constants
<1>3. Forest(Remaining, H) /\ a # v /\ Reached(Remaining, {a}, c) /\ DirectoryInv(Directory)
  <2>1. a \in Heads /\ Loose \cap Heads = {} /\ Loose = {v}
    BY <1>1, FreeEffect, BeginsHead DEF Tidy, WhereInv, FileAt
  <2>2. QED
    BY <1>1, <2>1 DEF Tidy, Own
<1>4. Remaining = [View EXCEPT ![c] = END] /\ Remaining \in [FatIndices -> Entries] /\ H \in SUBSET Clusters
  <2>1. H \in SUBSET Clusters
    BY <1>3, HeadsType, FreeEffect
  <2>2. END \in Entries
    BY Constants DEF END, Entries
  <2>3. QED
    BY <1>1, <1>2, <2>1, <2>2 DEF Remaining
<1>5. /\ pc' \in {"free", "truncate_end"} /\ call'.attr = call.attr /\ call'.cluster = call.cluster
  <2>1. Go("free", u) \/ Back(TRUE, NoLocals)
    BY DEF FreeChain
  <2>2. DOMAIN u = {"victim"} /\ Locals(u)
    BY DEF Locals
  <2> HIDE DEF u
  <2>3. CASE Go("free", u)
    <3>1. pc' = "free" /\ Sets(u, {})
      BY <1>1, <2>2, <2>3, GoMove, LabelSets DEF Labels
    <3>2. QED
      BY <2>2, <3>1 DEF Sets, Fields
  <2>4. CASE Back(TRUE, NoLocals)
    <3>1. pc' = Caller /\ Sets(NoLocals, {"ret", "ok"})
      BY <1>1, <2>4, BackMove, ResultLocals
    <3>2. call'.attr = call.attr /\ call'.cluster = call.cluster
      BY <3>1 DEF Sets, Fields, NoLocals
    <3>3. Caller = "truncate_end"
      BY <1>1, CallerReturns, ReturnsTable DEF Labels
    <3>4. QED
      BY <3>1, <3>2, <3>3
  <2>5. QED
    BY <2>1, <2>3, <2>4
<1> HIDE DEF c, v, a, H, u
<1>6. Reached([Remaining EXCEPT ![v] = AVAILABLE], {a}, c)
  BY <1>2, <1>3, <1>4, ReachedFreed
<1>7. Remaining' = [Remaining EXCEPT ![v] = AVAILABLE]
  <2>1. Remaining' = [View' EXCEPT ![c] = END]
    BY <1>5 DEF Remaining, Cutting, c
  <2>2. QED
    BY <1>2, <1>4, <2>1
<1>8. QED
  BY <1>5, <1>6, <1>7 DEF Own, a, c

LEMMA OwnTruncateStart ==
  ASSUME TypeInv, Tidy, TruncateStart
  PROVE  Own'
<1> DEFINE u == [cluster |-> call.found.first, enc |-> 1, attr |-> call.found]
<1>1. Common /\ Quiet /\ scenario' = scenario /\ pc \in Truncating
  BY Unwritten, LabelSets DEF TruncateStart, disk, Tidy, WhereInv
<1>2. CASE Back(FALSE, NoLocals)
  BY <1>1, <1>2, OwnBack
<1>3. CASE Go("truncate", u)
  <2>1. /\ Locals(u) /\ DOMAIN u = {"cluster", "enc", "attr"} /\ u.cluster = call.found.first
        /\ u.attr.first = call.found.first /\ "truncate" \in InChain
    BY DEF Locals, InChain
  <2>2. Reached(View, {call.found.first}, call.found.first)
    BY ReachedFirst
  <2> HIDE DEF u
  <2>3. QED
    BY <1>1, <1>3, <2>1, <2>2, OwnGo DEF Quiet
<1>4. QED
  BY <1>2, <1>3 DEF TruncateStart

LEMMA OwnTruncateWalk ==
  ASSUME TypeInv, Tidy, Own, TruncateWalk
  PROVE  Own'
<1> DEFINE c == call.cluster
           next == View[c]
           u == [cluster |-> next, enc |-> call.enc + 1]
           v == [victim |-> next]
<1>1. Common /\ Quiet /\ scenario' = scenario /\ pc = "truncate" /\ InFile /\ Hit(c)
  BY Unwritten DEF TruncateWalk, disk, Tidy, WhereInv, InFile
<1>2. /\ Reached(View, {call.attr.first}, c) /\ page.ent[c] = next /\ c \in Clusters
      /\ View \in [FatIndices -> Entries]
  BY <1>1, OwnHere, AtFile, DirectoryType
<1>3. CASE IsData(next) /\ Go("truncate", u)
  <2>1. Locals(u) /\ DOMAIN u = {"cluster", "enc"} /\ u.cluster = next /\ "truncate" \in InChain
    BY DEF Locals, InChain
  <2>2. Reached(View, {call.attr.first}, next)
    BY <1>2, <1>3, ReachedNext
  <2> HIDE DEF u, next
  <2>3. QED
    BY <1>1, <1>3, <2>1, <2>2, OwnGo DEF Quiet
<1>4. CASE Grow("truncate_grown", [zero |-> TRUE])
  BY <1>1, <1>2, <1>4, OwnGrow DEF Quiet, Grown
<1>5. CASE Sub("free", <<"truncate_end">>, v) \/ Go("truncate_end", NoLocals)
  <2>1. Locals(v) /\ DOMAIN v = {"victim"} /\ "free" \in Labels /\ "truncate_end" \in Labels
    BY LabelSets DEF Locals, Labels, Truncating
  <2> HIDE DEF v
  <2>2. pc' \in {"free", "truncate_end"} /\ call'.attr = call.attr /\ call'.cluster = c
    <3>1. CASE Sub("free", <<"truncate_end">>, v)
      <4>1. pc' = "free" /\ Sets(v, {"ret"})
        BY <1>1, <2>1, <3>1, SubMove
      <4>2. QED
        BY <2>1, <4>1 DEF Sets, Fields
    <3>2. CASE Go("truncate_end", NoLocals)
      <4>1. pc' = "truncate_end" /\ Sets(NoLocals, {})
        BY <1>1, <2>1, <3>2, GoMove, ResultLocals
      <4>2. QED
        BY <4>1 DEF Sets, Fields, NoLocals
    <3>3. QED
      BY <1>5, <3>1, <3>2
  <2>3. Remaining' = [View EXCEPT ![c] = END]
    BY <1>1, <2>2 DEF Remaining, Cutting, Quiet
  <2>4. Reached(Remaining', {call.attr.first}, c)
    BY <1>2, <2>3, ReachedCut
  <2> HIDE DEF c
  <2>5. QED
    BY <2>2, <2>4 DEF Own
<1>6. QED
  BY <1>2, <1>3, <1>4, <1>5 DEF TruncateWalk

LEMMA OwnFind ==
  ASSUME TypeInv, Tidy, Own, Find
  PROVE  Own'
<1> DEFINE c == call.cluster
           next == View[c]
           u == [cluster |-> next, off |-> call.off - Units]
<1>1. Common /\ Quiet /\ scenario' = scenario /\ pc = "find" /\ InFile
  BY Unwritten DEF Find, disk, Tidy, WhereInv, InFile
<1>2. Reached(View, {call.attr.first}, c) /\ (Hit(c) => page.ent[c] = next)
  BY <1>1, OwnHere, AtFile
<1>3. CASE Go("read", NoLocals)
  BY <1>3, OwnElsewhere DEF Go, InChain, Allocating
<1>4. CASE Go("write", NoLocals)
  BY <1>1, <1>2, <1>4, OwnGo, NoLocalsSet, ResultLocals DEF Quiet, InChain
<1>5. CASE IsData(next) /\ Go("find", u)
  <2>1. Locals(u) /\ DOMAIN u = {"cluster", "off"} /\ u.cluster = next /\ "find" \in InChain
    BY DEF Locals, InChain
  <2>2. Reached(View, {call.attr.first}, next)
    BY <1>2, <1>5, ReachedNext
  <2> HIDE DEF u, next
  <2>3. QED
    BY <1>1, <1>5, <2>1, <2>2, OwnGo DEF Quiet
<1>6. CASE Grow("find_grown", [zero |-> TRUE])
  BY <1>1, <1>2, <1>6, OwnGrow DEF Quiet, Grown
<1>7. CASE Back(FALSE, [result |-> 0])
  BY <1>1, <1>7, OwnBack
<1>8. QED
  BY <1>2, <1>3, <1>4, <1>5, <1>6, <1>7 DEF Find

\* The chain has grown, and the call goes on in the new cluster.
LEMMA OwnHasGrown ==
  ASSUME TypeInv, Tidy, Own, TruncateGrown \/ FindGrown \/ WriteGrown
  PROVE  Own'
<1>1. /\ Common /\ Quiet /\ scenario' = scenario /\ InFile /\ pc \in Truncating \cup Writing
  BY Unwritten, LabelSets DEF TruncateGrown, FindGrown, WriteGrown, disk, Tidy, WhereInv, InFile
<1>2. Reached(View, {call.attr.first}, call.cluster)
  BY <1>1, OwnHere
<1>3. CASE \E r : Back(FALSE, r)
  BY <1>1, <1>3, OwnBack
<1>4. ASSUME NEW p \in InChain, NEW u, Locals(u), "attr" \notin DOMAIN u, "cluster" \notin DOMAIN u, Go(p, u)
      PROVE  Own'
  BY <1>1, <1>2, <1>4, OwnGo DEF Quiet
<1>5. /\ Locals([enc |-> call.enc + 1]) /\ Locals([off |-> call.off - Units]) /\ Locals([off |-> 0])
      /\ "truncate" \in InChain /\ "find" \in InChain /\ "write" \in InChain
  BY DEF Locals, InChain
<1>6. CASE TruncateGrown
  <2>1. Go("truncate", [enc |-> call.enc + 1]) \/ Back(FALSE, NoLocals)
    BY <1>6 DEF TruncateGrown
  <2>2. QED
    BY <1>3, <1>4, <1>5, <2>1
<1>7. CASE FindGrown
  <2>1. Go("find", [off |-> call.off - Units]) \/ Back(FALSE, [result |-> 0])
    BY <1>7 DEF FindGrown
  <2>2. QED
    BY <1>3, <1>4, <1>5, <2>1
<1>8. CASE WriteGrown
  <2>1. Go("write", [off |-> 0]) \/ Back(FALSE, [result |-> -1])
    BY <1>8 DEF WriteGrown
  <2>2. QED
    BY <1>3, <1>4, <1>5, <2>1
<1>9. QED
  BY <1>6, <1>7, <1>8

LEMMA OwnStart ==
  ASSUME TypeInv, Tidy, WriteStart \/ ReadStart
  PROVE  Own'
<1> DEFINE u == [attr |-> call.found, cluster |-> call.found.first, off |-> call.offset]
<1>1. Common /\ Quiet /\ scenario' = scenario /\ pc \in Writing \cup Reading
  BY Unwritten, LabelSets DEF WriteStart, ReadStart, disk, Tidy, WhereInv
<1>2. CASE \E ok, r : Back(ok, r)
  BY <1>1, <1>2, OwnBack
<1>3. CASE Truncate("write_extended", call.offset + 1)
  <2>1. pc' = "lookup"
    BY <1>3 DEF Truncate, LookUp
  <2>2. QED
    BY <2>1, OwnElsewhere DEF InChain, Allocating
<1>4. CASE Go("find", u)
  <2>1. /\ Locals(u) /\ DOMAIN u = {"cluster", "off", "attr"} /\ u.cluster = call.found.first
        /\ u.attr.first = call.found.first /\ "find" \in InChain
    BY DEF Locals, InChain
  <2>2. Reached(View, {call.found.first}, call.found.first)
    BY ReachedFirst
  <2> HIDE DEF u
  <2>3. QED
    BY <1>1, <1>4, <2>1, <2>2, OwnGo DEF Quiet
<1>5. CASE WriteStart
  <2>1. \/ Back(FALSE, [result |-> -1]) \/ Truncate("write_extended", call.offset + 1) \/ Go("find", u)
    BY <1>5 DEF WriteStart
  <2>2. QED
    BY <1>2, <1>3, <1>4, <2>1
<1>6. CASE ReadStart
  <2>1. \/ Back(FALSE, [result |-> -1]) \/ Back(FALSE, [result |-> 0]) \/ Go("find", u)
    BY <1>6 DEF ReadStart
  <2>2. QED
    BY <1>2, <1>4, <2>1
<1>7. QED
  BY <1>5, <1>6

LEMMA OwnWrite ==
  ASSUME TypeInv, Tidy, Own, Write
  PROVE  Own'
<1> DEFINE u == [done |-> call.done + room]
<1>1. Common /\ scenario' = scenario /\ InFile /\ View' = View
  BY DEF Write, Tidy, WhereInv, InFile, View, Hit
<1>2. CASE Go("advance", u)
  <2>1. Locals(u) /\ "attr" \notin DOMAIN u /\ "cluster" \notin DOMAIN u /\ "advance" \in InChain
    BY DEF Locals, InChain
  <2> HIDE DEF u
  <2>2. Reached(View, {call.attr.first}, call.cluster)
    BY <1>1, OwnHere
  <2>3. QED
    BY <1>1, <1>2, <2>1, <2>2, OwnGo
<1>3. CASE pc' \in {"lookup", "write_end"}
  BY <1>3, OwnElsewhere DEF InChain, Allocating
<1>4. QED
  BY <1>2, <1>3 DEF Write, Go, LookUp

LEMMA OwnAdvance ==
  ASSUME TypeInv, Tidy, Own, WriteAdvance
  PROVE  Own'
<1> DEFINE c == call.cluster
           next == View[c]
           u == [cluster |-> next, off |-> 0]
<1>1. Common /\ Quiet /\ scenario' = scenario /\ InFile /\ Hit(c)
  BY Unwritten DEF WriteAdvance, disk, Tidy, WhereInv, InFile
<1>2. Reached(View, {call.attr.first}, c) /\ page.ent[c] = next
  BY <1>1, OwnHere, AtFile
<1>3. CASE IsData(next) /\ Go("write", u)
  <2>1. Locals(u) /\ DOMAIN u = {"cluster", "off"} /\ u.cluster = next /\ "write" \in InChain
    BY DEF Locals, InChain
  <2>2. Reached(View, {call.attr.first}, next)
    BY <1>2, <1>3, ReachedNext
  <2> HIDE DEF u, next
  <2>3. QED
    BY <1>1, <1>3, <2>1, <2>2, OwnGo DEF Quiet
<1>4. CASE Grow("write_grown", [zero |-> call.n - call.done < Units])
  BY <1>1, <1>2, <1>4, OwnGrow DEF Quiet, Grown
<1>5. QED
  BY <1>2, <1>3, <1>4 DEF WriteAdvance

LEMMA OwnPage ==
  ASSUME TypeInv, Own, (FlushPage \/ LoadPage) \/ UNCHANGED xvars
  PROVE  Own'
<1>1. View' = View /\ pc' = pc /\ call' = call
  BY PageSteps DEF FlushPage, LoadPage, disk, xvars, View, Hit
<1>2. Caller' = Caller /\ Remaining' = Remaining /\ InFile' = InFile /\ Cutting' = Cutting
  BY <1>1 DEF Caller, Remaining, Cutting, InFile, GrowingFile
<1>3. QED
  BY <1>1, <1>2 DEF Own

LEMMA StepOwn ==
  ASSUME TypeInv, StructInv, StructInv', OwnInv, [XNext]_xvars
  PROVE  OwnInv'
<1>1. SUFFICES ASSUME Calm
               PROVE  Own'
  BY CalmStays DEF OwnInv
<1>2. Tidy /\ Tidy' /\ Own
  BY <1>1, CalmStays DEF StructInv, OwnInv
<1>3. CASE FsCall
  BY <1>3, OwnCall
<1>4. CASE Step
  <2>1. ~DirGrown
    BY <1>2 DEF DirGrown, Tidy, WhereInv, Common, Labels
  <2>2. CASE \/ MarkEnd \/ CreateDirent \/ Create \/ OpenTruncated \/ Opened \/ ReadEnd \/ FsWriteEnd
             \/ Pad \/ Padded \/ PadEnd \/ LseekEnd \/ Flushed \/ Closed \/ Finish \/ TruncateEnd
    BY <2>2, OwnPlain
  <2>3. CASE Lookup \/ SetAttr \/ WriteExtended \/ WriteEnd \/ Read \/ ReadAdvance
    BY <2>3, OwnBacks
  <2>4. CASE FindSlot \/ OpenCreate \/ Alloc \/ Scan \/ ZeroCluster
    BY <1>2, <2>4, OwnSlot, OwnOpenCreate, OwnAlloc, OwnScan, OwnZero
  <2>5. CASE Attach \/ AttachEnd \/ FreeChain \/ TruncateStart \/ TruncateWalk \/ TruncateGrown
    BY <1>2, <2>5, OwnAttach, OwnAttachEnd, OwnFree, OwnTruncateStart, OwnTruncateWalk, OwnHasGrown
  <2>6. CASE Find \/ FindGrown \/ WriteStart \/ Write \/ WriteAdvance \/ WriteGrown \/ ReadStart
    BY <1>2, <2>6, OwnFind, OwnHasGrown, OwnStart, OwnWrite, OwnAdvance
  <2>7. CASE FlushPage \/ LoadPage
    BY <1>2, <2>7, OwnPage
  <2>8. QED
    BY <1>4, <2>1, <2>2, <2>3, <2>4, <2>5, <2>6, <2>7 DEF Step
<1>5. CASE OtherVolume
  BY <1>5, OwnPlain
<1>6. CASE UNCHANGED xvars
  BY <1>2, <1>6, OwnPage
<1>7. QED
  BY <1>3, <1>4, <1>5, <1>6 DEF XNext

LEMMA AlwaysOwn == XSpec => []OwnInv
<1>1. XInit => OwnInv
  BY DEF XInit, OwnInv, Own, InFile, GrowingFile, Cutting, Allocating
<1>2. TypeInv /\ StructInv /\ StructInv' /\ OwnInv /\ [XNext]_xvars => OwnInv'
  BY StepOwn
<1>3. QED
  BY <1>1, <1>2, AlwaysTyped, AlwaysStructured, PTL DEF XSpec

-----------------------------------------------------------------------------
(***************************************************************************)
(* Other files                                                             *)
(***************************************************************************)

\* The clusters that a step of the call may change.
Mine ==
  {root_cluster} \cup Loose \cup {k \in Clusters : View[k] = AVAILABLE}
    \cup (IF InFile \/ Cutting THEN {call.cluster} ELSE {})

OnlyMine == \A k \in Clusters \ Mine : View'[k] = View[k] /\ data'[k] = data[k]

OthersListed ==
  {u \in Entered(Directory) : u.name # call.name} = {u \in Entered(Directory') : u.name # call.name}

\* The chain that a file's entry begins, as a call that is cutting another one leaves it.
LEMMA ChainsOfOthers ==
  ASSUME TypeInv, Tidy, Own, NEW u \in Entered(Directory), u.name # call.name
  PROVE  ChainOf(View, u.first) \subseteq Clusters \ Mine /\ ClosedUnder(View, ChainOf(View, u.first))
<1> DEFINE H == Heads \cup Loose
           D == ChainOf(Remaining, u.first)
           a == call.attr.first
<1>1. Forest(Remaining, H) /\ Loose \cap Heads = {} /\ DirectoryInv(Directory)
  BY DEF Tidy
<1>2. View \in [FatIndices -> Entries] /\ call \in Calls /\ Clusters \subseteq FatIndices
  BY DirectoryType, Here, Constants
<1>3. /\ Remaining \in [FatIndices -> Entries]
      /\ \A k \in Clusters : (Cutting /\ k = call.cluster) \/ Remaining[k] = View[k]
  <2>1. END \in Entries
    BY Constants DEF END, Entries
  <2>2. CASE Cutting
    BY <1>2, <2>1, <2>2 DEF Remaining
  <2>3. CASE ~Cutting
    BY <1>2, <2>3 DEF Remaining
  <2>4. QED
    BY <2>2, <2>3
<1>4. H \in SUBSET Clusters
  <2>1. Heads \in SUBSET Clusters
    BY <1>1, HeadsType
  <2>2. Loose \in SUBSET Clusters
    BY <1>2 DEF Loose, Calls, Attributes
  <2>3. QED
    BY <2>1, <2>2
<1>5. PICK e \in Live(Directory) : u = Directory[e]
  BY DEF Entered
<1>6. u.first \in Heads /\ u.first # root_cluster /\ root_cluster \in Heads
  BY <1>1, <1>5 DEF Heads, Firsts, DirectoryInv
<1>7. u.first \in H /\ root_cluster \in H
  BY <1>6
<1> HIDE DEF H
<1>8. ASSUME NEW h \in H, h # u.first
      PROVE  ChainOf(Remaining, h) \cap D = {} /\ h \notin D
  <2>1. ChainOf(Remaining, h) \cap D = {}
    BY <1>1, <1>3, <1>4, <1>7, <1>8, ChainsApart DEF H
  <2>2. h \in ChainOf(Remaining, h)
    BY <1>3, <1>4, <1>8, ChainClusters
  <2>3. QED
    BY <2>1, <2>2
<1>9. root_cluster \notin D /\ Loose \cap D = {}
  <2>1. root_cluster \notin D
    BY <1>6, <1>7, <1>8
  <2>2. \A h \in Loose : h \in H /\ h # u.first
    BY <1>1, <1>6 DEF H
  <2>3. QED
    BY <1>8, <2>1, <2>2
<1>10. ASSUME InFile \/ Cutting
       PROVE  call.cluster \notin D
  <2>1. Begins(Directory, call.name, a) /\ Reached(Remaining, {a}, call.cluster)
    BY <1>10 DEF Tidy, WhereInv, FileAt, HasAttributes, Own
  <2>2. a \in H /\ a # u.first
    <3>1. PICK r \in Live(Directory) : Directory[r].name = call.name /\ Directory[r].first = a
      BY <2>1 DEF Begins
    <3>2. a # u.first
      BY <1>1, <1>5, <3>1 DEF DirectoryInv
    <3>3. QED
      BY <2>1, <3>2, BeginsHead DEF H
  <2> HIDE DEF a
  <2>3. ClosedUnder(Remaining, ChainOf(Remaining, a))
    BY <1>1, <1>3, <1>4, <2>2, ChainClosed DEF H
  <2>4. a \in ChainOf(Remaining, a) /\ ChainOf(Remaining, a) \subseteq Clusters
    BY <1>3, <1>4, <2>2, ChainClusters
  <2>5. call.cluster \in ChainOf(Remaining, a)
    BY <2>1, <2>3, <2>4 DEF Reached
  <2>6. QED
    BY <1>8, <2>2, <2>5
<1>11. D \subseteq Clusters /\ u.first \in D /\ ClosedUnder(Remaining, D)
  BY <1>1, <1>3, <1>4, <1>7, ChainClusters, ChainClosed DEF H
<1>12. D \subseteq InUse(Remaining)
  <2>1. UNION {ChainOf(Remaining, c) : c \in H} = InUse(Remaining)
    BY <1>1, <1>3, <1>4, ChainsAreAll DEF H
  <2>2. QED
    BY <1>7, <2>1
<1> HIDE DEF D
<1>13. \A k \in D : Remaining[k] = View[k]
  BY <1>3, <1>10, <1>11
<1>14. ClosedUnder(View, D)
  BY <1>11, <1>13 DEF ClosedUnder
<1>15. ChainOf(View, u.first) = D
  BY <1>2, <1>3, <1>11, <1>13, SameChain DEF D
<1>16. \A k \in D : View[k] # AVAILABLE
  BY <1>12, <1>13 DEF InUse, IsData, END, AVAILABLE
<1>17. D \cap Mine = {}
  BY <1>9, <1>10, <1>16 DEF Mine
<1>18. QED
  BY <1>11, <1>14, <1>15, <1>17

-----------------------------------------------------------------------------
\* Steps that write neither the FAT nor a cluster.
LEMMA MineUnwritten ==
  ASSUME View' = View, data' = data
  PROVE  OnlyMine /\ OthersListed
BY DEF OnlyMine, OthersListed, Directory

LEMMA MineDirectory ==
  ASSUME View' = View, DirectoryWritten
  PROVE  OnlyMine /\ OthersListed
BY DEF OnlyMine, OthersListed, DirectoryWritten, Mine

\* Steps that write one cluster, or its entry in the FAT.
LEMMA MineOne ==
  ASSUME TypeInv, NEW c \in Mine,
         \A k \in Clusters \ {c} : View'[k] = View[k] /\ data'[k] = data[k], Directory' = Directory
  PROVE  OnlyMine /\ OthersListed
BY DEF OnlyMine, OthersListed

LEMMA MineScan ==
  ASSUME TypeInv, Tidy, Scan
  PROVE  OnlyMine /\ OthersListed
<1>1. data' = data /\ View \in [FatIndices -> Entries]
  BY DirectoryType DEF Scan, disk
<1>2. CASE View' = View
  BY <1>1, <1>2, MineUnwritten
<1>3. ASSUME NEW k \in Clusters, View[k] = AVAILABLE, View' = [View EXCEPT ![k] = END]
      PROVE  OnlyMine /\ OthersListed
  <2>1. k \in Mine
    BY <1>3 DEF Mine
  <2>2. \A e \in Clusters \ {k} : View'[e] = View[e] /\ data'[e] = data[e]
    BY <1>1, <1>3, Constants
  <2>3. QED
    BY <1>1, <2>1, <2>2, MineOne DEF Directory
<1>4. QED
  BY <1>2, <1>3, ScanEffect

LEMMA MineZero ==
  ASSUME TypeInv, Tidy, ZeroCluster
  PROVE  OnlyMine /\ OthersListed
<1>1. pc = "zero" /\ HasNew /\ call.new \in Loose /\ call.new \in Mine /\ View' = View
  BY DEF ZeroCluster, HasNew, Loose, Mine, View, Hit
<1>2. root_cluster # call.new
  BY <1>1 DEF Tidy, WhereInv, ChainAt
<1>3. \A k \in Clusters \ {call.new} : data'[k] = data[k]
  BY DirectoryType DEF ZeroCluster
<1>4. Directory' = Directory
  BY <1>2, <1>3, Constants DEF Directory
<1>5. QED
  BY <1>1, <1>3, <1>4, MineOne

LEMMA MineAttach ==
  ASSUME TypeInv, Tidy, Attach
  PROVE  OnlyMine /\ OthersListed
<1>1. data' = data /\ View \in [FatIndices -> Entries]
  BY DirectoryType DEF Attach, disk
<1>2. CASE View' = View
  BY <1>1, <1>2, MineUnwritten
<1>3. CASE View' = [View EXCEPT ![call.cluster] = call.new]
  <2>1. call.cluster \in Mine
    BY AttachEffect DEF Mine
  <2>2. \A k \in Clusters \ {call.cluster} : View'[k] = View[k] /\ data'[k] = data[k]
    BY <1>1, <1>3, Constants
  <2>3. QED
    BY <1>1, <2>1, <2>2, MineOne DEF Directory
<1>4. QED
  BY <1>2, <1>3, AttachEffect

LEMMA MineFree ==
  ASSUME TypeInv, Tidy, FreeChain
  PROVE  OnlyMine /\ OthersListed
<1>1. data' = data /\ View \in [FatIndices -> Entries]
  BY DirectoryType DEF FreeChain, disk
<1>2. call.victim \in Mine
  BY FreeEffect DEF Mine
<1>3. \A k \in Clusters \ {call.victim} : View'[k] = View[k] /\ data'[k] = data[k]
  BY <1>1, FreeEffect, Constants
<1>4. QED
  BY <1>1, <1>2, <1>3, MineOne DEF Directory

LEMMA MineTruncateEnd ==
  ASSUME TypeInv, Tidy, TruncateEnd
  PROVE  OnlyMine /\ OthersListed
<1>1. data' = data /\ fat' = fat /\ i' = i /\ View \in [FatIndices -> Entries] /\ Cutting /\ DiskType
  BY DirectoryType, Here DEF TruncateEnd, disk, Cutting
<1>2. call.cluster \in Mine
  BY <1>1 DEF Mine
<1>3. View' = [View EXCEPT ![call.cluster] = END]
  BY <1>1, WriteFatType, Constants DEF TruncateEnd, DiskType, END, Entries
<1>4. \A k \in Clusters \ {call.cluster} : View'[k] = View[k] /\ data'[k] = data[k]
  BY <1>1, <1>3, Constants
<1>5. QED
  BY <1>1, <1>2, <1>4, MineOne DEF Directory

LEMMA MineWrite ==
  ASSUME TypeInv, Tidy, Write
  PROVE  OnlyMine /\ OthersListed
<1>1. InFile /\ call.cluster # root_cluster /\ call.cluster \in Mine /\ View' = View
  BY AtFile DEF Write, InFile, Mine, View, Hit
<1>2. \A k \in Clusters \ {call.cluster} : data'[k] = data[k]
  BY DirectoryType DEF Write
<1>3. Directory' = Directory
  BY <1>1, <1>2, Constants DEF Directory
<1>4. QED
  BY <1>1, <1>2, <1>3, MineOne

\* The steps that write nothing.
Idling ==
  \/ FsCall \/ OtherVolume \/ UNCHANGED xvars
  \/ Lookup \/ FindSlot \/ Alloc \/ TruncateStart \/ TruncateWalk \/ TruncateGrown
  \/ Find \/ FindGrown \/ WriteStart \/ WriteExtended \/ WriteAdvance \/ WriteGrown
  \/ WriteEnd \/ ReadStart \/ Read \/ ReadAdvance \/ OpenCreate \/ Create \/ OpenTruncated \/ Opened
  \/ ReadEnd \/ FsWriteEnd \/ Pad \/ Padded \/ PadEnd \/ LseekEnd \/ Flushed \/ Closed \/ Finish

LEMMA IdlingWrites ==
  ASSUME Idling
  PROVE  UNCHANGED <<fat, data, page>> /\ View' = View
<1>1. UNCHANGED <<fat, data, page>>
  <2>1. CASE FsCall \/ OtherVolume \/ UNCHANGED xvars
    BY <2>1 DEF FsCall, Open, FsRead, FsWrite, FsLseek, Close, OtherVolume, xvars, disk
  <2>2. CASE \/ Lookup \/ FindSlot \/ Alloc \/ TruncateStart \/ TruncateWalk \/ TruncateGrown
             \/ Find \/ FindGrown \/ WriteStart \/ WriteExtended \/ WriteAdvance \/ WriteGrown
    BY <2>2 DEF Lookup, FindSlot, Alloc, TruncateStart, TruncateWalk, TruncateGrown, Find, FindGrown,
                WriteStart, WriteExtended, WriteAdvance, WriteGrown, disk
  <2>3. CASE \/ WriteEnd \/ ReadStart \/ Read \/ ReadAdvance \/ OpenCreate \/ Create \/ OpenTruncated \/ Opened
             \/ ReadEnd \/ FsWriteEnd \/ Pad \/ Padded \/ PadEnd \/ LseekEnd \/ Flushed \/ Closed \/ Finish
    BY <2>3 DEF WriteEnd, ReadStart, Read, ReadAdvance, OpenCreate, Create, OpenTruncated, Opened,
                ReadEnd, FsWriteEnd, Pad, Padded, PadEnd, LseekEnd, Flushed, Closed, Finish, disk
  <2>4. QED
    BY <2>1, <2>2, <2>3 DEF Idling
<1>2. QED
  BY <1>1 DEF View, Hit

LEMMA MineSteps ==
  ASSUME TypeInv, Tidy, Calm, [XNext]_xvars
  PROVE  OnlyMine /\ OthersListed
<1>1. CASE FsCall \/ OtherVolume \/ UNCHANGED xvars
  BY <1>1, IdlingWrites, MineUnwritten DEF Idling
<1>2. CASE Step
  <2>1. ~DirGrown
    BY DEF DirGrown, Tidy, WhereInv, Common, Labels
  <2>2. CASE MarkEnd \/ SetAttr \/ CreateDirent
    <3>1. View' = View
      BY <2>2 DEF MarkEnd, SetAttr, CreateDirent, View, Hit
    <3>2. QED
      BY <2>2, <3>1, MarkEndStruct, SetAttrStruct, CreateDirentStruct, MineDirectory
  <2>3. CASE Scan \/ ZeroCluster \/ Attach \/ FreeChain \/ TruncateEnd \/ Write
    BY <2>3, MineScan, MineZero, MineAttach, MineFree, MineTruncateEnd, MineWrite
  <2>4. CASE AttachEnd \/ FlushPage \/ LoadPage
    BY <2>4, AttachEndEffect, PageSteps, MineUnwritten DEF AttachEnd, FlushPage, LoadPage, disk
  <2>5. CASE ~(MarkEnd \/ SetAttr \/ CreateDirent \/ Scan \/ ZeroCluster \/ Attach \/ FreeChain \/ TruncateEnd
               \/ Write \/ AttachEnd \/ FlushPage \/ LoadPage)
    BY <1>2, <2>1, <2>5, IdlingWrites, MineUnwritten DEF Step, Idling
  <2>6. QED
    BY <2>2, <2>3, <2>4, <2>5
<1>3. QED
  BY <1>1, <1>2 DEF XNext

\* No step of a call touches another file: its entry, its clusters' entries in the FAT and their
\* contents stay as they are, on a volume of any size, whatever is opened, written, truncated or
\* fails for want of space (fatx_file.c, fatx_fat.c, fatx_dir.c).
THEOREM FilesApart == XSpec => OthersUntouched
<1> DEFINE Untouched == LET old == {u \in Listed(View, data) : u.name # call.name}
                   IN /\ old = {u \in Listed(View', data') : u.name # call.name}
                      /\ \A u \in old : \A c \in ChainOf(View, u.first) : View'[c] = View[c] /\ data'[c] = data[c]
<1>1. TypeInv /\ TypeInv' /\ StructInv /\ StructInv' /\ OwnInv /\ [XNext]_xvars => [Calm => Untouched]_xvars
  <2>1. SUFFICES ASSUME TypeInv, TypeInv', StructInv, StructInv', OwnInv, [XNext]_xvars, Calm
                 PROVE  Untouched
    OBVIOUS
  <2>2. Tidy /\ Tidy' /\ Own
    BY <2>1, CalmStays DEF StructInv, OwnInv
  <2>3. View \in [FatIndices -> Entries] /\ View' \in [FatIndices -> Entries]
    BY <2>1 DEF TypeInv, DiskType, Pages, View, Hit
  <2>4. View[root_cluster] = END /\ View'[root_cluster] = END
    BY <2>2 DEF Tidy
  <2>5. Listed(View, data) = Entered(Directory) /\ Listed(View', data') = Entered(Directory')
    BY <2>3, <2>4, ListedRoot DEF Entered, Directory
  <2>6. OnlyMine /\ OthersListed
    BY <2>1, <2>2, MineSteps
  <2>7. \A u \in Entered(Directory) : u.name # call.name =>
          \A c \in ChainOf(View, u.first) : View'[c] = View[c] /\ data'[c] = data[c]
    BY <2>1, <2>2, <2>6, ChainsOfOthers DEF OnlyMine
  <2>8. QED
    BY <2>5, <2>6, <2>7 DEF OthersListed
<1>2. QED
  BY <1>1, AlwaysTyped, AlwaysStructured, AlwaysOwn, PTL DEF XSpec, OthersUntouched

-----------------------------------------------------------------------------
(***************************************************************************)
(* What is on the disk                                                     *)
(***************************************************************************)

\* The call may change its file.
Modifying == call.op \in {"r+", "w", "write"} \/ (call.op = "lseek" /\ pc \notin {"lseek_end", "return"})

\* The files that were closed since they were written are not written by the call and not open for
\* writing, and the page has changed nothing of their chains.
Stored ==
  /\ fat[root_cluster] = END
  /\ \A d \in Fds : fds[d] # None /\ fds[d].writable => safe[fds[d].name] = None
  /\ Modifying => safe[call.name] = None
  /\ pc = "closed" /\ fds[call.fd].writable => View = fat
  /\ \A u \in Entered(Directory) :
       safe[u.name] # None => \A c \in ChainOf(View, u.first) : fat[c] = View[c]

StoredInv == DOMAIN safe = Names /\ (Calm => Stored)

Same == call'.op = call.op /\ call'.name = call.name

LEMMA GoSame ==
  ASSUME TypeInv, NEW p, NEW u, "op" \notin DOMAIN u, "name" \notin DOMAIN u, Go(p, u)
  PROVE  Same
<1>1. call \in Calls /\ call' = Having(call, u, NoLocals) /\ DOMAIN NoLocals = {}
  BY Here DEF Go, NoLocals
<1>2. QED
  BY <1>1, HavingFields DEF Same, Fields

LEMMA SubSame ==
  ASSUME TypeInv, NEW p, NEW labels, NEW u, "op" \notin DOMAIN u, "name" \notin DOMAIN u, Sub(p, labels, u)
  PROVE  Same
<1> DEFINE w == [ret |-> labels \o call.ret]
<1>1. call \in Calls /\ call' = Having(call, u, w) /\ DOMAIN w = {"ret"}
  BY Here DEF Sub
<1> HIDE DEF w
<1>2. QED
  BY <1>1, HavingFields DEF Same, Fields

LEMMA LookUpSame ==
  ASSUME TypeInv, NEW labels, NEW u, "op" \notin DOMAIN u, "name" \notin DOMAIN u, LookUp(labels, u)
  PROVE  Same
<1> DEFINE w == [dir |-> NoCall.dir, ret |-> labels \o call.ret]
<1>1. call \in Calls /\ call' = Having(call, u, w) /\ DOMAIN w = {"dir", "ret"}
  BY Here DEF LookUp
<1> HIDE DEF w
<1>2. QED
  BY <1>1, HavingFields DEF Same, Fields

LEMMA BackSame ==
  ASSUME TypeInv, NEW ok, NEW u, "op" \notin DOMAIN u, "name" \notin DOMAIN u, Back(ok, u)
  PROVE  Same
<1> DEFINE w == [ok |-> ok, ret |-> Tail(call.ret)]
<1>1. call \in Calls /\ call' = Having(call, u, w) /\ DOMAIN w = {"ok", "ret"}
  BY Here DEF Back
<1> HIDE DEF w
<1>2. QED
  BY <1>1, HavingFields DEF Same, Fields

LEMMA NoLocalsSame ==
  "op" \notin DOMAIN NoLocals /\ "name" \notin DOMAIN NoLocals
BY DEF NoLocals

LEMMA SameInDirectory ==
  ASSUME TypeInv, Lookup \/ FindSlot \/ MarkEnd \/ DirGrown
  PROVE  Same
<1>1. CASE Lookup
  BY <1>1, GoSame, BackSame DEF Lookup
<1>2. CASE FindSlot
  BY <1>2, GoSame, SubSame DEF FindSlot, Grow
<1>3. CASE MarkEnd \/ DirGrown
  BY <1>3, GoSame, SubSame, NoLocalsSame DEF MarkEnd, DirGrown
<1>4. QED
  BY <1>1, <1>2, <1>3

LEMMA SameInChain ==
  ASSUME TypeInv, \/ Alloc \/ Scan \/ ZeroCluster \/ Attach \/ AttachEnd \/ FreeChain
                  \/ TruncateStart \/ TruncateWalk \/ TruncateGrown \/ TruncateEnd \/ SetAttr
  PROVE  Same
<1>1. CASE Alloc \/ Scan \/ ZeroCluster
  BY <1>1, GoSame, BackSame, NoLocalsSame DEF Alloc, Scan, ZeroCluster
<1>2. CASE Attach \/ AttachEnd \/ FreeChain
  BY <1>2, GoSame, BackSame, NoLocalsSame DEF Attach, AttachEnd, FreeChain
<1>3. CASE TruncateStart \/ TruncateGrown \/ SetAttr
  BY <1>3, GoSame, BackSame, NoLocalsSame DEF TruncateStart, TruncateGrown, SetAttr
<1>4. CASE TruncateWalk
  BY <1>4, GoSame, SubSame, NoLocalsSame DEF TruncateWalk, Grow
<1>5. CASE TruncateEnd
  BY <1>5, LookUpSame DEF TruncateEnd
<1>6. QED
  BY <1>1, <1>2, <1>3, <1>4, <1>5

LEMMA SameInTransfer ==
  ASSUME TypeInv, \/ Find \/ FindGrown \/ WriteStart \/ WriteExtended \/ Write \/ WriteAdvance \/ WriteGrown
                  \/ WriteEnd \/ ReadStart \/ Read \/ ReadAdvance
  PROVE  Same
<1>1. CASE Find
  <2>1. \/ \E p : Go(p, NoLocals)
        \/ Go("find", [cluster |-> page.ent[call.cluster], off |-> call.off - Units])
        \/ Sub("alloc", <<"attach", "find_grown">>, [zero |-> TRUE]) \/ Back(FALSE, [result |-> 0])
    BY <1>1 DEF Find, Grow
  <2>2. CASE \E p : Go(p, NoLocals)
    BY <2>2, GoSame, NoLocalsSame
  <2>3. CASE Go("find", [cluster |-> page.ent[call.cluster], off |-> call.off - Units])
    BY <2>3, GoSame
  <2>4. CASE Sub("alloc", <<"attach", "find_grown">>, [zero |-> TRUE])
    BY <2>4, SubSame
  <2>5. CASE Back(FALSE, [result |-> 0])
    BY <2>5, BackSame
  <2>6. QED
    BY <2>1, <2>2, <2>3, <2>4, <2>5
<1>2. CASE WriteStart \/ WriteExtended
  <2>1. \/ Back(FALSE, [result |-> -1])
        \/ LookUp(<<"truncate_start", "write_extended">>, [goal |-> call.offset + 1])
        \/ LookUp(<<"write_start">>, NoLocals)
        \/ Go("find", [attr |-> call.found, cluster |-> call.found.first, off |-> call.offset])
    BY <1>2 DEF WriteStart, WriteExtended, Truncate
  <2>2. CASE Back(FALSE, [result |-> -1])
    BY <2>2, BackSame
  <2>3. CASE \/ LookUp(<<"truncate_start", "write_extended">>, [goal |-> call.offset + 1])
             \/ LookUp(<<"write_start">>, NoLocals)
    BY <2>3, LookUpSame, NoLocalsSame
  <2>4. CASE Go("find", [attr |-> call.found, cluster |-> call.found.first, off |-> call.offset])
    BY <2>4, GoSame
  <2>5. QED
    BY <2>1, <2>2, <2>3, <2>4
<1>3. CASE Write
  BY <1>3, GoSame, LookUpSame DEF Write
<1>4. CASE WriteAdvance
  BY <1>4, GoSame, SubSame DEF WriteAdvance, Grow
<1>5. CASE FindGrown \/ WriteGrown \/ WriteEnd
  <2>1. \/ Back(FALSE, [result |-> 0]) \/ Back(FALSE, [result |-> -1])
        \/ Back(call.ok, [result |-> IF call.ok THEN call.n ELSE -1])
        \/ Go("find", [off |-> call.off - Units]) \/ Go("write", [off |-> 0])
    BY <1>5 DEF FindGrown, WriteGrown, WriteEnd
  <2>2. ASSUME NEW ok, NEW r, Back(ok, [result |-> r])
        PROVE  Same
    BY <2>2, BackSame
  <2>3. CASE Go("find", [off |-> call.off - Units]) \/ Go("write", [off |-> 0])
    BY <2>3, GoSame
  <2>4. QED
    BY <2>1, <2>2, <2>3
<1>6. CASE ReadStart \/ ReadAdvance
  BY <1>6, GoSame, BackSame DEF ReadStart, ReadAdvance
<1>7. CASE Read
  BY <1>7, GoSame, BackSame DEF Read
<1>8. QED
  BY <1>1, <1>2, <1>3, <1>4, <1>5, <1>6, <1>7

LEMMA SameInFsCall ==
  ASSUME TypeInv, \/ FlushPage \/ LoadPage \/ OpenCreate \/ Create \/ CreateDirent \/ OpenTruncated \/ Opened
                  \/ ReadEnd \/ FsWriteEnd \/ Pad \/ Padded \/ PadEnd \/ LseekEnd \/ Flushed \/ Closed
  PROVE  Same
<1>1. CASE FlushPage \/ LoadPage
  BY <1>1 DEF FlushPage, LoadPage, Same
<1>2. CASE OpenCreate \/ CreateDirent \/ Pad
  BY <1>2, SubSame, LookUpSame, NoLocalsSame DEF OpenCreate, CreateDirent, Pad, Truncate, fatx_write
<1>3. CASE Create \/ OpenTruncated
  BY <1>3, GoSame, LookUpSame, NoLocalsSame DEF Create, OpenTruncated, Return
<1>4. CASE Opened \/ ReadEnd \/ FsWriteEnd
  BY <1>4, GoSame DEF Opened, ReadEnd, FsWriteEnd, Return
<1>5. CASE Padded \/ PadEnd \/ LseekEnd \/ Flushed \/ Closed
  BY <1>5, GoSame, NoLocalsSame DEF Padded, PadEnd, LseekEnd, Flushed, Closed, Return
<1>6. QED
  BY <1>1, <1>2, <1>3, <1>4, <1>5

\* A call keeps its file.
LEMMA StepSame ==
  ASSUME TypeInv, Step, ~Finish
  PROVE  Same
BY SameInDirectory, SameInChain, SameInTransfer, SameInFsCall DEF Step

-----------------------------------------------------------------------------
\* The steps that move the call on and nothing else.
Walking ==
  \/ Lookup \/ FindSlot \/ Alloc \/ TruncateStart \/ TruncateWalk \/ TruncateGrown
  \/ Find \/ FindGrown \/ WriteStart \/ WriteExtended \/ WriteAdvance \/ WriteGrown
  \/ WriteEnd \/ ReadStart \/ Read \/ ReadAdvance \/ OpenCreate \/ Create \/ OpenTruncated
  \/ Pad \/ Padded \/ Flushed \/ Finish

Storing ==
  \/ MarkEnd \/ DirGrown \/ Scan \/ ZeroCluster \/ Attach \/ AttachEnd \/ FreeChain
  \/ TruncateEnd \/ SetAttr \/ Write \/ CreateDirent

LEMMA WalkingStep ==
  ASSUME Walking
  PROVE  UNCHANGED <<fat, data, page, fds, safe, files>> /\ pc \notin {"lseek_end", "closed"}
<1>1. CASE \/ Lookup \/ FindSlot \/ Alloc \/ TruncateStart \/ TruncateWalk \/ TruncateGrown
           \/ Find \/ FindGrown \/ WriteStart \/ WriteExtended \/ WriteAdvance \/ WriteGrown
  BY <1>1 DEF Lookup, FindSlot, Alloc, TruncateStart, TruncateWalk, TruncateGrown, Find, FindGrown,
              WriteStart, WriteExtended, WriteAdvance, WriteGrown, disk, told
<1>2. CASE \/ WriteEnd \/ ReadStart \/ Read \/ ReadAdvance \/ OpenCreate \/ Create \/ OpenTruncated
           \/ Pad \/ Padded \/ Flushed \/ Finish
  BY <1>2 DEF WriteEnd, ReadStart, Read, ReadAdvance, OpenCreate, Create, OpenTruncated,
              Pad, Padded, Flushed, Finish, disk, told
<1>3. QED
  BY <1>1, <1>2 DEF Walking

LEMMA StoringStep ==
  ASSUME TypeInv, Storing
  PROVE  UNCHANGED <<fat, fds, safe, files>> /\ call.op \in {"w", "write", "lseek"}
         /\ pc \notin {"lseek_end", "return", "closed"}
<1>1. UNCHANGED <<fat, fds, safe, files>>
  BY DEF Storing, MarkEnd, DirGrown, Scan, ZeroCluster, Attach, AttachEnd, FreeChain, TruncateEnd, SetAttr,
         Write, CreateDirent, disk, told
<1>2. pc \in {"mark", "dir_grown", "scan", "zero", "attach", "attach_end", "free", "truncate_end", "set_attr",
              "write", "dirent"}
  BY DEF Storing, MarkEnd, DirGrown, Scan, ZeroCluster, Attach, AttachEnd, FreeChain, TruncateEnd, SetAttr,
         Write, CreateDirent
<1>3. OpsAt(pc) \subseteq {"w", "write", "lseek"}
  BY <1>2, OpsTable DEF Allocating, Attaching, Truncating, Writing, Creating
<1>4. QED
  BY <1>1, <1>2, <1>3 DEF TypeInv, StackInv

\* Every step is one of these.
LEMMA StepKinds ==
  ASSUME [XNext]_xvars
  PROVE  \/ FsCall \/ Walking \/ Storing \/ FlushPage \/ LoadPage \/ OtherVolume \/ UNCHANGED xvars
         \/ Opened \/ ReadEnd \/ FsWriteEnd \/ PadEnd \/ LseekEnd \/ Closed
BY DEF XNext, Step, Walking, Storing

\* Reading, opening for reading and closing change nothing.
LEMMA Unmodified ==
  ASSUME TypeInv, [XNext]_xvars, ~Modifying
  PROVE  View' = View /\ data' = data
<1>1. ~Storing
  BY StoringStep DEF Modifying
<1>2. CASE FlushPage \/ LoadPage
  BY <1>2, PageSteps DEF FlushPage, LoadPage, disk
<1>3. CASE Idling
  BY <1>3, IdlingWrites
<1>4. QED
  BY <1>1, <1>2, <1>3, StepKinds DEF Walking, Idling

LEMMA ModifyingOn ==
  ASSUME TypeInv, Step, ~Finish, Modifying'
  PROVE  Modifying /\ call'.name = call.name
<1>1. Same
  BY StepSame
<1>2. CASE pc \notin {"lseek_end", "return"}
  BY <1>1, <1>2 DEF Same, Modifying
<1>3. CASE pc \in {"lseek_end", "return"}
  <2>1. ~Storing
    BY <1>3, StoringStep
  <2>2. ~Walking
    BY <1>3 DEF Walking, Lookup, FindSlot, Alloc, TruncateStart, TruncateWalk, TruncateGrown, Find, FindGrown,
                WriteStart, WriteExtended, WriteAdvance, WriteGrown, WriteEnd, ReadStart, Read, ReadAdvance,
                OpenCreate, Create, OpenTruncated, Pad, Padded, Flushed, Finish
  <2>3. LseekEnd \/ FlushPage \/ LoadPage
    BY <1>3, <2>1, <2>2 DEF Step, Walking, Storing, Opened, ReadEnd, FsWriteEnd, PadEnd, Closed
  <2>4. pc' \in {"lseek_end", "return"}
    BY <1>3, <2>3 DEF LseekEnd, Return, Go, FlushPage, LoadPage
  <2>5. QED
    BY <1>1, <2>4 DEF Same, Modifying
<1>4. QED
  BY <1>1, <1>2, <1>3 DEF Same

\* The FAT on the disk changes only when the page is written.
LEMMA FatKept ==
  ASSUME TypeInv, [XNext]_xvars, ~FlushPage
  PROVE  fat' = fat
<1>1. CASE FsCall
  BY <1>1 DEF FsCall, Open, FsRead, FsWrite, FsLseek, Close, disk
<1>2. CASE \/ LoadPage \/ OtherVolume \/ UNCHANGED xvars
           \/ Opened \/ ReadEnd \/ FsWriteEnd \/ PadEnd \/ LseekEnd \/ Closed
  BY <1>2 DEF LoadPage, OtherVolume, xvars, Opened, ReadEnd, FsWriteEnd, PadEnd, LseekEnd, Closed, disk
<1>3. QED
  BY <1>1, <1>2, WalkingStep, StoringStep, StepKinds

LEMMA SafeKept ==
  ASSUME TypeInv, [XNext]_xvars, ~Closed
  PROVE  \/ safe' = safe
         \/ \E d \in Fds, f \in Names, op \in {"r", "r+", "w"} : Open(d, f, op)
<1>1. CASE FsCall
  BY <1>1 DEF FsCall, FsRead, FsWrite, FsLseek, Close, told
<1>2. CASE \/ FlushPage \/ LoadPage \/ OtherVolume \/ UNCHANGED xvars
           \/ Opened \/ ReadEnd \/ FsWriteEnd \/ PadEnd \/ LseekEnd
  BY <1>2 DEF FlushPage, LoadPage, OtherVolume, xvars, Opened, ReadEnd, FsWriteEnd, PadEnd, LseekEnd, told
<1>3. QED
  BY <1>1, <1>2, WalkingStep, StoringStep, StepKinds

-----------------------------------------------------------------------------
LEMMA FieldKept ==
  ASSUME TypeInv, NEW e \in Fds, fds[e] # None, NEW x,
         \/ fds' = [fds EXCEPT ![e] = [fds[e] EXCEPT !.cursor = x]]
         \/ fds' = [fds EXCEPT ![e] = [fds[e] EXCEPT !.file_size = x]],
         NEW d \in Fds, fds'[d] # None
  PROVE  fds[d] # None /\ fds'[d].name = fds[d].name /\ fds'[d].writable = fds[d].writable
<1>1. fds \in [Fds -> OpenFiles \cup {None}] /\ fds[e] \in OpenFiles
  BY DEF TypeInv
<1>2. CASE d # e
  BY <1>1, <1>2
<1>3. CASE d = e
  BY <1>1, <1>3 DEF OpenFiles
<1>4. QED
  BY <1>2, <1>3

LEMMA CallFile ==
  ASSUME TypeInv, pc \in {"read_end", "fs_write_end", "pad_end", "lseek_end", "closed"}
  PROVE  call.fd \in Fds /\ fds[call.fd] # None
<1>1. call.op \in {"read", "write", "lseek", "close"} /\ pc # "return"
  BY OpsTable DEF TypeInv, StackInv
<1>2. QED
  BY <1>1 DEF TypeInv, CallType

\* A file becomes open for writing only when it is opened.
LEMMA Writers ==
  ASSUME TypeInv, [XNext]_xvars, NEW d \in Fds, fds'[d] # None, fds'[d].writable
  PROVE  \/ fds[d] # None /\ fds[d].writable /\ fds'[d].name = fds[d].name
         \/ Opened /\ fds'[d].name = call.name /\ call.op \in {"r+", "w"}
<1>1. CASE fds' = fds
  BY <1>1
<1>2. CASE Opened
  <2>1. fds \in [Fds -> OpenFiles \cup {None}] /\ call.fd \in Fds /\ call.op \in {"r", "r+", "w"}
    BY <1>2, OpsTable DEF TypeInv, StackInv, CallType, Opened
  <2>2. CASE call.ok /\ d = call.fd
    <3> DEFINE file == [name |-> call.name, cursor |-> 0, file_size |-> call.found.size, writable |-> call.op # "r"]
    <3>1. fds'[d] = file
      BY <1>2, <2>1, <2>2 DEF Opened
    <3>2. file.name = call.name /\ (file.writable <=> call.op # "r")
      OBVIOUS
    <3> HIDE DEF file
    <3>3. QED
      BY <1>2, <2>1, <3>1, <3>2
  <2>3. CASE ~(call.ok /\ d = call.fd)
    <3>1. fds'[d] = fds[d]
      BY <1>2, <2>1, <2>3 DEF Opened
    <3>2. QED
      BY <3>1
  <2>4. QED
    BY <2>2, <2>3
<1>3. CASE ReadEnd \/ FsWriteEnd
  <2>1. call.fd \in Fds /\ fds[call.fd] # None
    BY <1>3, CallFile DEF ReadEnd, FsWriteEnd
  <2>2. PICK x : x = fds[call.fd].cursor + Larger(call.result, 0)
    OBVIOUS
  <2>3. fds' = [fds EXCEPT ![call.fd] = [fds[call.fd] EXCEPT !.cursor = x]]
    BY <1>3, <2>2 DEF ReadEnd, FsWriteEnd, MoveCursor
  <2>4. QED
    BY <2>1, <2>3, FieldKept
<1>4. CASE PadEnd
  <2>1. call.fd \in Fds /\ fds[call.fd] # None
    BY <1>4, CallFile DEF PadEnd
  <2>2. PICK x : x = IF call.ok THEN call.found.size ELSE fds[call.fd].file_size
    OBVIOUS
  <2>3. fds' = [fds EXCEPT ![call.fd] = [fds[call.fd] EXCEPT !.file_size = x]]
    BY <1>4, <2>2 DEF PadEnd
  <2>4. QED
    BY <2>1, <2>3, FieldKept
<1>5. CASE LseekEnd
  <2>1. call.fd \in Fds /\ fds[call.fd] # None
    BY <1>5, CallFile DEF LseekEnd
  <2>2. PICK x : x = call.to
    OBVIOUS
  <2>3. fds' = [fds EXCEPT ![call.fd] = [fds[call.fd] EXCEPT !.cursor = x]]
    BY <1>5, <2>2 DEF LseekEnd
  <2>4. QED
    BY <2>1, <2>3, FieldKept
<1>6. ASSUME NEW e \in Fds, NEW to, FsLseek(e, to)
      PROVE  fds[d] # None /\ fds[d].writable /\ fds'[d].name = fds[d].name
  <2>1. fds[e] # None
    BY <1>6 DEF FsLseek
  <2>2. PICK x : fds' = [fds EXCEPT ![e] = [fds[e] EXCEPT !.cursor = x]]
    BY <1>6 DEF FsLseek
  <2>3. QED
    BY <2>1, <2>2, FieldKept
<1>7. CASE Closed
  <2>1. fds \in [Fds -> OpenFiles \cup {None}] /\ fds' = [fds EXCEPT ![call.fd] = None]
    BY <1>7 DEF TypeInv, Closed
  <2>2. d # call.fd
    BY <2>1
  <2>3. QED
    BY <2>1, <2>2
<1>8. CASE FsCall
  <2>1. CASE \E e \in Fds : \E to \in scenario.seeks : FsLseek(e, to)
    BY <1>6, <2>1
  <2>2. CASE ~(\E e \in Fds : \E to \in scenario.seeks : FsLseek(e, to))
    BY <1>1, <1>8, <2>2 DEF FsCall, Open, FsRead, FsWrite, Close, told
  <2>3. QED
    BY <2>1, <2>2
<1>9. CASE FlushPage \/ LoadPage \/ OtherVolume \/ UNCHANGED xvars
  BY <1>1, <1>9 DEF FlushPage, LoadPage, OtherVolume, xvars, told
<1>10. QED
  BY <1>1, <1>2, <1>3, <1>4, <1>5, <1>7, <1>8, <1>9, WalkingStep, StoringStep, StepKinds

\* What a step makes of the contents that are safe.
LEMMA SafeStep ==
  ASSUME TypeInv, DOMAIN safe = Names, [XNext]_xvars
  PROVE  /\ DOMAIN safe' = Names
         /\ ~Closed => \A f \in Names : safe'[f] = None \/ safe'[f] = safe[f]
<1>1. CASE Closed
  BY <1>1 DEF Closed
<1>2. CASE ~Closed
  BY <1>2, SafeKept DEF Open
<1>3. QED
  BY <1>1, <1>2

LEMMA StoredWriters ==
  ASSUME TypeInv, TypeInv', DOMAIN safe = Names, Stored, [XNext]_xvars,
         NEW d \in Fds, fds'[d] # None, fds'[d].writable
  PROVE  safe'[fds'[d].name] = None
<1>1. fds'[d].name \in Names
  BY DEF TypeInv, OpenFiles
<1>2. CASE Opened /\ fds'[d].name = call.name /\ call.op \in {"r+", "w"}
  BY <1>2 DEF Stored, Modifying, Opened
<1>3. CASE fds[d] # None /\ fds[d].writable /\ fds'[d].name = fds[d].name
  <2>1. safe[fds'[d].name] = None
    BY <1>3 DEF Stored
  <2>2. CASE Closed
    <3>1. d # call.fd
      <4>1. fds \in [Fds -> OpenFiles \cup {None}] /\ fds' = [fds EXCEPT ![call.fd] = None]
        BY <2>2 DEF TypeInv, Closed
      <4>2. QED
        BY <4>1
    <3>2. WrittenThrough(Fds \ {call.fd}, fds'[d].name)
      BY <1>3, <3>1 DEF WrittenThrough
    <3>3. QED
      BY <1>1, <2>1, <2>2, <3>2 DEF Closed
  <2>3. CASE ~Closed
    BY <1>1, <2>1, <2>3, SafeStep
  <2>4. QED
    BY <2>2, <2>3
<1>4. QED
  BY <1>2, <1>3, Writers

-----------------------------------------------------------------------------
LEMMA BeginWith ==
  ASSUME NEW p, NEW labels, NEW u, {"op", "name", "fd"} \subseteq DOMAIN u, Begin(p, labels, u)
  PROVE  pc' = p /\ call'.op = u.op /\ call'.name = u.name /\ call'.fd = u.fd
<1>1. {"op", "name", "fd"} \subseteq DOMAIN NoCall
  BY DEF NoCall
<1>2. QED
  BY <1>1 DEF Begin, Having

LEMMA StoredCall ==
  ASSUME TypeInv, DOMAIN safe = Names, Stored, FsCall, Modifying'
  PROVE  safe'[call'.name] = None
<1>1. CASE \E d \in Fds, f \in Names, op \in {"r", "r+", "w"} : Open(d, f, op)
  <2>1. PICK d \in Fds, f \in Names, op \in {"r", "r+", "w"} : Open(d, f, op)
    BY <1>1
  <2> DEFINE u == [op |-> op, fd |-> d, name |-> f]
             labels == <<IF op = "w" THEN "open_w" ELSE "opened">>
  <2>2. Begin("lookup", labels, u) /\ {"op", "name", "fd"} \subseteq DOMAIN u /\ u.op = op /\ u.name = f
    BY <2>1 DEF Open
  <2> HIDE DEF u, labels
  <2>3. call'.op = op /\ call'.name = f
    BY <2>2, BeginWith
  <2>4. op # "r"
    BY <2>3 DEF Modifying
  <2>5. QED
    BY <2>1, <2>3, <2>4 DEF Open
<1>2. CASE \E d \in Fds, n \in Lengths : FsRead(d, n)
  <2>1. PICK d \in Fds, n \in Lengths : FsRead(d, n)
    BY <1>2
  <2> DEFINE u == [op |-> "read", fd |-> d, name |-> fds[d].name, offset |-> fds[d].cursor, n |-> n]
             labels == <<"read_start", "read_end">>
  <2>2. Begin("lookup", labels, u) /\ {"op", "name", "fd"} \subseteq DOMAIN u /\ u.op = "read"
    BY <2>1 DEF FsRead
  <2> HIDE DEF u, labels
  <2>3. call'.op = "read"
    BY <2>2, BeginWith
  <2>4. QED
    BY <2>3 DEF Modifying
<1>3. CASE \E d \in Fds, n \in Lengths : FsWrite(d, n)
  <2>1. PICK d \in Fds, n \in Lengths : FsWrite(d, n)
    BY <1>3
  <2> DEFINE u == [op |-> "write", fd |-> d, name |-> fds[d].name, offset |-> fds[d].cursor, n |-> n]
             labels == <<"write_start", "fs_write_end">>
  <2>2. Begin("lookup", labels, u) /\ {"op", "name", "fd"} \subseteq DOMAIN u /\ u.name = fds[d].name
    BY <2>1 DEF FsWrite
  <2> HIDE DEF u, labels
  <2>3. call'.name = fds[d].name
    BY <2>2, BeginWith
  <2>4. QED
    BY <2>1, <2>3 DEF FsWrite, Stored, told
<1>4. CASE \E d \in Fds : \E to \in scenario.seeks : FsLseek(d, to)
  <2>1. PICK d \in Fds : \E to \in scenario.seeks : FsLseek(d, to)
    BY <1>4
  <2>2. PICK to \in scenario.seeks : FsLseek(d, to)
    BY <2>1
  <2> DEFINE end == fds[d].file_size
             pads == fds[d].writable /\ to > end
             p == IF pads THEN "pad" ELSE "lseek_end"
             u == [op |-> "lseek", fd |-> d, name |-> fds[d].name, to |-> to, end |-> end,
                   left |-> IF pads THEN to - end ELSE 0, chunk |-> IF pads THEN Smaller(to - end, Chunk) ELSE 0]
             labels == <<>>
  <2>3. /\ Begin(p, labels, u) /\ {"op", "name", "fd"} \subseteq DOMAIN u
        /\ u.op = "lseek" /\ u.name = fds[d].name /\ safe' = safe
    BY <2>2 DEF FsLseek
  <2> HIDE DEF u, labels
  <2>4. pc' = p /\ call'.op = "lseek" /\ call'.name = fds[d].name
    BY <2>3, BeginWith
  <2>5. fds[d].writable
    BY <2>4 DEF Modifying
  <2>6. QED
    BY <2>2, <2>3, <2>4, <2>5 DEF FsLseek, Stored
<1>5. CASE \E d \in Fds : Close(d)
  <2>1. PICK d \in Fds : Close(d)
    BY <1>5
  <2> DEFINE u == [op |-> "close", fd |-> d, name |-> fds[d].name]
             labels == <<>>
  <2>2. /\ Begin(IF fds[d].writable THEN "flush" ELSE "closed", labels, u)
        /\ {"op", "name", "fd"} \subseteq DOMAIN u /\ u.op = "close"
    BY <2>1 DEF Close
  <2> HIDE DEF u, labels
  <2>3. call'.op = "close"
    BY <2>2, BeginWith
  <2>4. QED
    BY <2>3 DEF Modifying
<1>6. QED
  BY <1>1, <1>2, <1>3, <1>4, <1>5 DEF FsCall

LEMMA StoredModifying ==
  ASSUME TypeInv, TypeInv', DOMAIN safe = Names, Stored, [XNext]_xvars, Modifying'
  PROVE  safe'[call'.name] = None
<1>1. CASE FsCall
  BY <1>1, StoredCall
<1>2. CASE Step /\ ~Finish
  <2>1. Modifying /\ call'.name = call.name
    BY <1>2, ModifyingOn
  <2>2. ~Closed
    <3>1. Closed => call.op = "close"
      BY OpsTable DEF TypeInv, StackInv, Closed
    <3>2. QED
      BY <2>1, <3>1 DEF Modifying
  <2>3. call.name \in Names
    BY <2>1 DEF TypeInv, CallType, Modifying
  <2>4. QED
    BY <2>1, <2>2, <2>3, SafeStep DEF Stored
<1>3. CASE Finish
  BY <1>3 DEF Finish, NoCall, Modifying
<1>4. CASE OtherVolume \/ UNCHANGED xvars
  <2>1. pc' = pc /\ call' = call /\ safe' = safe
    BY <1>4 DEF OtherVolume, xvars, told
  <2>2. QED
    BY <2>1 DEF Modifying, Stored
<1>5. QED
  BY <1>1, <1>2, <1>3, <1>4 DEF XNext

\* Only a call that is closing its file comes to the flush and behind it.
LEMMA ClosingStep ==
  ASSUME TypeInv, TypeInv', Step, pc' \in {"flush", "closed"}
  PROVE  pc \in {"flush", "closed"} /\ (Flushed \/ FlushPage \/ LoadPage)
<1>1. call'.op = "close"
  BY OpsTable DEF TypeInv, StackInv
<1>2. ~Finish /\ ~Closed
  BY DEF Finish, Closed, Return, Go
<1>3. call.op = "close"
  BY <1>1, <1>2, StepSame DEF Same
<1>4. pc \in {"flush", "closed", "return"}
  BY <1>3 DEF TypeInv, StackInv, OpsAt, PCs, Allocating, Attaching, Truncating, Reading, Writing, Creating
<1>5. ~Storing
  BY <1>3, StoringStep
<1>6. Flushed \/ FlushPage \/ LoadPage
  BY <1>2, <1>4, <1>5 DEF Step, Storing, Lookup, FindSlot, Alloc, TruncateStart, TruncateWalk, TruncateGrown, Find,
       FindGrown, WriteStart, WriteExtended, WriteAdvance, WriteGrown, WriteEnd, ReadStart, Read, ReadAdvance,
       OpenCreate, Create, OpenTruncated, Pad, Padded, Opened, ReadEnd, FsWriteEnd, PadEnd, LseekEnd
<1>7. QED
  BY <1>6 DEF Flushed, FlushPage, LoadPage

\* A file that was written is closed only when the page was.
LEMMA StoredClosed ==
  ASSUME TypeInv, TypeInv', DOMAIN safe = Names, Stored, [XNext]_xvars, pc' = "closed", fds'[call'.fd].writable
  PROVE  View' = fat'
<1>1. CASE FsCall
  <2>1. ~(\E d \in Fds :
            \/ \E f \in Names, op \in {"r", "r+", "w"} : Open(d, f, op)
            \/ \E n \in Lengths : FsRead(d, n) \/ FsWrite(d, n)
            \/ \E to \in scenario.seeks : FsLseek(d, to))
    BY DEF Open, FsRead, FsWrite, FsLseek, Begin
  <2>2. PICK d \in Fds : Close(d)
    BY <1>1, <2>1 DEF FsCall
  <2> DEFINE u == [op |-> "close", fd |-> d, name |-> fds[d].name]
             labels == <<>>
  <2>3. /\ Begin(IF fds[d].writable THEN "flush" ELSE "closed", labels, u)
        /\ {"op", "name", "fd"} \subseteq DOMAIN u /\ u.fd = d /\ fds' = fds
    BY <2>2 DEF Close, told
  <2> HIDE DEF u, labels
  <2>4. pc' = (IF fds[d].writable THEN "flush" ELSE "closed") /\ call'.fd = d
    BY <2>3, BeginWith
  <2>5. QED
    BY <2>3, <2>4
<1>2. CASE FlushPage \/ LoadPage
  <2>1. View' = View /\ (FlushPage => fat' = View) /\ (LoadPage => fat' = fat)
    BY <1>2, PageSteps
  <2>2. LoadPage => View = fat
    BY ViewType DEF LoadPage, TypeInv
  <2>3. QED
    BY <1>2, <2>1, <2>2
<1>3. CASE Step /\ ~FlushPage /\ ~LoadPage
  <2>1. Flushed
    BY <1>3, ClosingStep
  <2>2. View = fat
    BY <2>1, ViewType DEF Flushed, TypeInv
  <2>3. View' = View /\ fat' = fat
    BY <2>1, IdlingWrites DEF Idling
  <2>4. QED
    BY <2>2, <2>3
<1>4. CASE OtherVolume \/ UNCHANGED xvars
  <2>1. ~OtherVolume
    BY DEF OtherVolume
  <2>2. UNCHANGED <<pc, call, fds, fat, page>>
    BY <1>4, <2>1 DEF xvars
  <2>3. QED
    BY <2>2 DEF Stored, View, Hit
<1>5. QED
  BY <1>1, <1>2, <1>3, <1>4 DEF XNext

-----------------------------------------------------------------------------
LEMMA StoredChains ==
  ASSUME TypeInv, TypeInv', DOMAIN safe = Names, Calm, Tidy, Tidy', Own, Stored, [XNext]_xvars,
         NEW u \in Entered(Directory'), safe'[u.name] # None, NEW c \in ChainOf(View', u.first)
  PROVE  fat'[c] = View'[c]
<1>1. u.name \in Names /\ u \in Dirents
  <2>1. PICK e \in Live(Directory') : u = Directory'[e]
    BY DEF Entered
  <2>2. \A k \in Before(Directory') : Directory'[k] \in Dirents \cup {Deleted}
    BY DEF Tidy, DirectoryInv
  <2>3. u \in Dirents
    BY <2>1, <2>2 DEF Live, IsEntry
  <2>4. QED
    BY <2>3 DEF Dirents
<1>2. View \in [FatIndices -> Entries] /\ View' \in [FatIndices -> Entries]
  BY DEF TypeInv, DiskType, Pages, View, Hit
<1>3. CASE FlushPage
  BY <1>3, PageSteps
<1>4. CASE Closed
  <2>1. View' = View /\ data' = data /\ fat' = fat
    BY <1>4, IdlingWrites DEF Idling
  <2>2. CASE fds[call.fd].writable
    BY <1>4, <2>1, <2>2 DEF Stored, Closed
  <2>3. CASE ~fds[call.fd].writable
    BY <1>4, <2>1, <2>3 DEF Stored, Closed, Directory
  <2>4. QED
    BY <2>2, <2>3
<1>5. CASE ~FlushPage /\ ~Closed
  <2>1. fat' = fat /\ safe[u.name] # None
    BY <1>1, <1>5, FatKept, SafeStep
  <2>2. CASE View' = View /\ data' = data
    BY <2>1, <2>2 DEF Stored, Directory
  <2>3. CASE ~(View' = View /\ data' = data)
    <3>1. Modifying
      BY <2>3, Unmodified
    <3>2. u.name # call.name
      BY <2>1, <3>1 DEF Stored
    <3>3. OnlyMine /\ OthersListed
      BY MineSteps
    <3>4. u \in Entered(Directory)
      BY <3>2, <3>3 DEF OthersListed
    <3> DEFINE S == ChainOf(View, u.first)
    <3>5. S \subseteq Clusters \ Mine /\ ClosedUnder(View, S)
      BY <3>2, <3>4, ChainsOfOthers
    <3>6. u.first \in S
      BY <1>1, <1>2, ChainClusters DEF Dirents
    <3>7. \A k \in S : View'[k] = View[k]
      BY <3>3, <3>5 DEF OnlyMine
    <3>8. ChainOf(View', u.first) = S
      <4> HIDE DEF S
      <4>1. ChainOf(View', u.first) = ChainOf(View, u.first)
        BY <1>2, <3>5, <3>6, <3>7, SameChain
      <4>2. QED
        BY <4>1 DEF S
    <3>9. fat[c] = View[c]
      BY <2>1, <3>4, <3>8 DEF Stored
    <3>10. QED
      BY <2>1, <3>7, <3>8, <3>9
  <2>4. QED
    BY <2>2, <2>3
<1>6. QED
  BY <1>3, <1>4, <1>5

LEMMA StepStored ==
  ASSUME TypeInv, TypeInv', StructInv, StructInv', OwnInv, StoredInv, [XNext]_xvars
  PROVE  StoredInv'
<1>1. DOMAIN safe = Names /\ DOMAIN safe' = Names
  BY SafeStep DEF StoredInv
<1>2. SUFFICES ASSUME Calm
               PROVE  Stored'
  BY <1>1, CalmStays DEF StoredInv
<1>3. Tidy /\ Tidy' /\ Own /\ Stored
  BY <1>2, CalmStays DEF StructInv, OwnInv, StoredInv
<1>4. fat'[root_cluster] = END
  BY <1>3, FatKept, PageSteps DEF Stored, Tidy
<1>5. \A d \in Fds : fds'[d] # None /\ fds'[d].writable => safe'[fds'[d].name] = None
  BY <1>1, <1>3, StoredWriters
<1>6. Modifying' => safe'[call'.name] = None
  BY <1>1, <1>3, StoredModifying
<1>7. pc' = "closed" /\ fds'[call'.fd].writable => View' = fat'
  BY <1>1, <1>3, StoredClosed
<1>8. \A u \in Entered(Directory') : safe'[u.name] # None => \A c \in ChainOf(View', u.first) : fat'[c] = View'[c]
  BY <1>1, <1>2, <1>3, StoredChains
<1>9. QED
  BY <1>4, <1>5, <1>6, <1>7, <1>8 DEF Stored

LEMMA InitStored ==
  ASSUME XInit
  PROVE  StoredInv
<1>1. scenario.volume \in DOMAIN Volumes /\ safe = Volumes[scenario.volume].files
  BY FatxAssumption DEF XInit
<1>2. DOMAIN safe = Names
  BY <1>1, VolumesAssumption
<1>3. View = fat
  BY InitType, ViewType DEF XInit, NoPage, TypeInv
<1>4. ASSUME Calm
      PROVE  Stored
  <2>1. fat[root_cluster] = END
    BY <1>4, InitDirectory
  <2>2. \A d \in Fds : fds[d] = None
    BY DEF XInit
  <2>3. ~Modifying /\ pc # "closed"
    BY DEF XInit, NoCall, Modifying
  <2>4. QED
    BY <1>3, <2>1, <2>2, <2>3 DEF Stored
<1>5. QED
  BY <1>2, <1>4 DEF StoredInv

LEMMA AlwaysStored == XSpec => []StoredInv
<1>1. XInit => StoredInv
  BY InitStored
<1>2. TypeInv /\ TypeInv' /\ StructInv /\ StructInv' /\ OwnInv /\ StoredInv /\ [XNext]_xvars => StoredInv'
  BY StepStored
<1>3. QED
  BY <1>1, <1>2, AlwaysTyped, AlwaysStructured, AlwaysOwn, PTL DEF XSpec

\* Whatever a call is doing, the directory on the disk is the one that calls see, and so is the
\* chain of every file that was closed since it was written (fatx_flush_fat_cache in
\* fatx_fs_close): what the page has not written yet is about other files.
THEOREM ClosedStored == XSpec => []ClosedOnDisk
<1>1. TypeInv /\ StructInv /\ StoredInv => ClosedOnDisk
  <2>1. SUFFICES ASSUME TypeInv, Tidy, Stored, Calm
                 PROVE  ClosedOnDisk
    BY DEF StructInv, StoredInv, ClosedOnDisk
  <2>2. fat \in [FatIndices -> Entries] /\ View \in [FatIndices -> Entries]
    BY <2>1, DirectoryType DEF TypeInv, DiskType
  <2>3. fat[root_cluster] = END /\ View[root_cluster] = END
    BY <2>1 DEF Stored, Tidy
  <2>4. Listed(fat, data) = Entered(Directory) /\ Listed(View, data) = Entered(Directory)
    BY <2>2, <2>3, ListedRoot DEF Entered, Directory
  <2>5. QED
    BY <2>1, <2>4 DEF Stored, ClosedOnDisk
<1>2. QED
  BY <1>1, AlwaysTyped, AlwaysStructured, AlwaysStored, PTL

-----------------------------------------------------------------------------
(***************************************************************************)
(* What a mount finds                                                      *)
(***************************************************************************)

\* A chain that is over at index j has no more than j clusters.
LEMMA ChainLength ==
  ASSUME NEW w \in [FatIndices -> Entries], NEW c \in Clusters,
         NEW j \in 0 .. NumClusters, Nth(w, c)[j] = 0
  PROVE  Cardinality(ChainOf(w, c)) <= j
<1> DEFINE n == Nth(w, c)
           T == {n[k] : k \in 0 .. j - 1}
           f == [k \in 0 .. j - 1 |-> n[k]]
           S == ChainOf(w, c)
<1>1. \A k \in 0 .. NumClusters : k >= j => n[k] = 0
  BY NthOver
<1>2. \A e : e \in S <=> e # 0 /\ \E k \in 0 .. NumClusters : n[k] = e
  BY ChainClusters
<1>3. j \in Nat /\ NumClusters \in Nat
  BY Constants
<1>4. S \subseteq T
  <2> HIDE DEF n, S
  <2>1. QED
    BY <1>1, <1>2, <1>3
<1>5. f \in Surjection(0 .. j - 1, T)
  BY DEF Surjection
<1>6. IsFiniteSet(0 .. j - 1) /\ Cardinality(0 .. j - 1) = j
  BY <1>3, FS_Interval
<1> HIDE DEF T, f, S
<1>7. IsFiniteSet(T) /\ Cardinality(T) <= j
  BY <1>5, <1>6, FS_Surjection
<1>8. Cardinality(S) <= Cardinality(T) /\ Cardinality(S) \in Nat /\ Cardinality(T) \in Nat
  BY <1>4, <1>7, FS_Subset, FS_CardinalityType
<1>9. QED
  BY <1>3, <1>7, <1>8 DEF S

\* Every unit of a file that its chain has the room for is in a cluster of the chain.
LEMMA UnitInChain ==
  ASSUME NEW w \in [FatIndices -> Entries], NEW c \in Clusters,
         NEW size \in Nat, size <= Units * Cardinality(ChainOf(w, c)), NEW p \in 0 .. size - 1
  PROVE  p \div Units \in 0 .. NumClusters /\ Nth(w, c)[p \div Units] \in ChainOf(w, c)
<1> DEFINE j == p \div Units
           N == Cardinality(ChainOf(w, c))
<1>1. Units \in Nat \ {0} /\ NumClusters \in Nat /\ p \in Nat
  BY Constants
<1>2. j \in Nat /\ p = j * Units + (p % Units) /\ p % Units \in 0 .. Units - 1
  BY <1>1, DivMod
<1>3. N \in Nat /\ N <= NumClusters
  BY ChainClusters, ClustersFinite, FS_Subset, FS_CardinalityType
<1>4. j < N
  <2>1. size <= Units * N
    OBVIOUS
  <2> HIDE DEF j, N
  <2>2. SUFFICES ASSUME N <= j PROVE FALSE
    BY <1>2, <1>3
  <2>3. Units * (j - N) >= 0
    BY <1>1, <1>2, <1>3, <2>2
  <2>4. p >= Units * N
    BY <1>1, <1>2, <1>3, <2>3
  <2>5. QED
    BY <1>1, <1>3, <2>1, <2>4
<1>5. j \in 0 .. NumClusters
  BY <1>1, <1>2, <1>3, <1>4
<1>6. Nth(w, c)[j] # 0
  <2>1. Nth(w, c)[j] = 0 => N <= j
    BY <1>5, ChainLength
  <2>2. QED
    BY <1>2, <1>3, <1>4, <2>1
<1>7. QED
  BY <1>5, <1>6, ChainClusters

\* A file whose entry, chain and clusters stay as they are holds what it held.
LEMMA HoldsOn ==
  ASSUME NEW w \in [FatIndices -> Entries], NEW x \in [FatIndices -> Entries], NEW d, NEW e, NEW f,
         NEW promised, promised # None, Holds(w, d, f, promised),
         {u \in Listed(w, d) : u.name = f} = {u \in Listed(x, e) : u.name = f},
         \A u \in Listed(w, d) : u.name = f =>
           /\ u \in Dirents /\ ClosedUnder(w, ChainOf(w, u.first))
           /\ \A c \in ChainOf(w, u.first) : x[c] = w[c] /\ e[c] = d[c]
  PROVE  Holds(x, e, f, promised)
<1> DEFINE entries == {u \in Listed(w, d) : u.name = f}
<1>1. /\ Cardinality(entries) = 1 /\ entries = {u \in Listed(x, e) : u.name = f}
      /\ \A u \in entries : /\ u.size <= Units * Cardinality(ChainOf(w, u.first))
                            /\ Matches(Contents(w, d, u), promised)
  BY DEF Holds
<1>2. ASSUME NEW u \in entries
      PROVE  /\ u.size <= Units * Cardinality(ChainOf(x, u.first))
             /\ Matches(Contents(x, e, u), promised)
  <2> DEFINE S == ChainOf(w, u.first)
             n == Nth(w, u.first)
             m == Nth(x, u.first)
  <2>1. /\ u.first \in Clusters /\ u.size \in Nat /\ ClosedUnder(w, S)
        /\ \A c \in S : x[c] = w[c] /\ e[c] = d[c]
    BY <1>2 DEF Dirents
  <2>2. u.first \in S /\ S \subseteq Clusters
    BY <2>1, ChainClusters
  <2>3. (\A k \in 0 .. NumClusters : m[k] = n[k]) /\ ChainOf(x, u.first) = S
    <3> HIDE DEF S
    <3>1. (\A k \in 0 .. NumClusters : m[k] = n[k]) /\ ChainOf(x, u.first) = ChainOf(w, u.first)
      BY <2>1, <2>2, SameChain
    <3>2. QED
      BY <3>1 DEF S
  <2>4. u.size <= Units * Cardinality(S) /\ Matches(Contents(w, d, u), promised)
    BY <1>1, <1>2
  <2>5. ASSUME NEW k \in 1 .. u.size
        PROVE  e[m[(k - 1) \div Units]] = d[n[(k - 1) \div Units]]
    <3>1. k - 1 \in 0 .. u.size - 1
      BY <2>1
    <3>2. (k - 1) \div Units \in 0 .. NumClusters /\ n[(k - 1) \div Units] \in S
      BY <2>1, <2>4, <3>1, UnitInChain
    <3>3. QED
      BY <2>1, <2>3, <3>2
  <2>6. Contents(x, e, u) = Contents(w, d, u)
    BY <2>5 DEF Contents
  <2>7. QED
    BY <2>3, <2>4, <2>6
<1>3. QED
  BY <1>1, <1>2 DEF Holds

-----------------------------------------------------------------------------
(***************************************************************************)
(* What a power loss leaves                                                *)
(***************************************************************************)

\* What was safe is on the disk, and a file that is being closed has its contents until it is.
Survives ==
  /\ \A f \in Names : safe[f] # None => Holds(fat, data, f, safe[f])
  /\ pc \in {"flush", "closed"} => \A f \in Names : Holds(View, data, f, files[f])

SurvivesInv == Calm => Survives

LEMMA EntryChain ==
  ASSUME TypeInv, Tidy, NEW u \in Entered(Directory)
  PROVE  /\ u \in Dirents /\ u.first \in ChainOf(View, u.first) /\ ChainOf(View, u.first) \subseteq Clusters
         /\ ~Cutting => ClosedUnder(View, ChainOf(View, u.first))
<1>1. PICK e \in Live(Directory) : u = Directory[e]
  BY DEF Entered
<1>2. u \in Dirents /\ u.first \in Clusters /\ u.first \in Heads
  BY <1>1, LiveSlots DEF Tidy, Dirents, Heads, Firsts
<1>3. View \in [FatIndices -> Entries]
  BY DirectoryType
<1>4. u.first \in ChainOf(View, u.first) /\ ChainOf(View, u.first) \subseteq Clusters
  BY <1>2, <1>3, ChainClusters
<1>5. ASSUME ~Cutting
      PROVE  ClosedUnder(View, ChainOf(View, u.first))
  <2> DEFINE H == Heads \cup Loose
  <2>1. Forest(View, H)
    BY <1>5 DEF Tidy, Remaining
  <2>2. H \in SUBSET Clusters
    <3>1. Heads \in SUBSET Clusters
      BY HeadsType DEF Tidy
    <3>2. Loose \in SUBSET Clusters
      BY Here DEF Loose, Calls, Attributes
    <3>3. QED
      BY <3>1, <3>2
  <2>3. u.first \in H
    BY <1>2
  <2> HIDE DEF H
  <2>4. QED
    BY <1>3, <2>1, <2>2, <2>3, ChainClosed
<1>6. QED
  BY <1>2, <1>4, <1>5

\* What a file that is safe has on the disk is left alone.
LEMMA SafeLeft ==
  ASSUME TypeInv, TypeInv', Calm, Tidy, Tidy', Own, Stored, Stored', [XNext]_xvars,
         NEW u \in Entered(Directory), safe[u.name] # None
  PROVE  /\ ChainOf(fat, u.first) = ChainOf(View, u.first) /\ ClosedUnder(fat, ChainOf(View, u.first))
         /\ \A c \in ChainOf(View, u.first) : fat'[c] = fat[c] /\ data'[c] = data[c]
<1> DEFINE S == ChainOf(View, u.first)
<1>1. u.first \in S /\ S \subseteq Clusters /\ \A c \in S : fat[c] = View[c]
  BY EntryChain DEF Stored
<1>2. View \in [FatIndices -> Entries] /\ fat \in [FatIndices -> Entries]
  BY DirectoryType DEF TypeInv, DiskType
<1>3. fat' = fat \/ fat' = View
  BY FatKept, PageSteps
<1>4. ASSUME ~Modifying
      PROVE  ClosedUnder(View, S) /\ \A c \in S : data'[c] = data[c]
  <2>1. data' = data
    BY <1>4, Unmodified
  <2>2. ~Cutting
    <3>1. Cutting => call.op \in {"w", "write", "lseek"} /\ pc \notin {"lseek_end", "return"}
      BY OpsTable DEF Cutting, TypeInv, StackInv, Truncating
    <3>2. QED
      BY <1>4, <3>1 DEF Modifying
  <2>3. ClosedUnder(View, S)
    BY <2>2, EntryChain
  <2>4. QED
    BY <2>1, <2>3
<1>5. ASSUME Modifying
      PROVE  ClosedUnder(View, S) /\ \A c \in S : data'[c] = data[c]
  <2>1. u.name # call.name
    BY <1>5 DEF Stored
  <2>2. OnlyMine
    BY MineSteps
  <2>3. S \subseteq Clusters \ Mine /\ ClosedUnder(View, S)
    BY <2>1, ChainsOfOthers
  <2>4. \A c \in S : data'[c] = data[c]
    BY <2>2, <2>3 DEF OnlyMine
  <2>5. QED
    BY <2>3, <2>4
<1>6. ClosedUnder(View, S) /\ \A c \in S : data'[c] = data[c]
  BY <1>4, <1>5
<1>7. ClosedUnder(fat, S)
  <2> HIDE DEF S
  <2>1. QED
    BY <1>1, <1>6 DEF ClosedUnder
<1>8. ChainOf(fat, u.first) = S
  <2> HIDE DEF S
  <2>1. ChainOf(fat, u.first) = ChainOf(View, u.first)
    BY <1>1, <1>2, <1>6, SameChain
  <2>2. QED
    BY <2>1 DEF S
<1>9. \A c \in S : fat'[c] = fat[c]
  BY <1>1, <1>3
<1>10. QED
  BY <1>6, <1>7, <1>8, <1>9

LEMMA SafeHolds ==
  ASSUME TypeInv, TypeInv', Calm, Tidy, Tidy', Own, Stored, Stored', [XNext]_xvars,
         NEW f \in Names, safe[f] # None, Holds(fat, data, f, safe[f])
  PROVE  Holds(fat', data', f, safe[f])
<1>1. fat \in [FatIndices -> Entries] /\ fat' \in [FatIndices -> Entries]
  BY DEF TypeInv, DiskType
<1>2. fat[root_cluster] = END /\ fat'[root_cluster] = END
  BY DEF Stored
<1>3. Listed(fat, data) = Entered(Directory) /\ Listed(fat', data') = Entered(Directory')
  BY <1>1, <1>2, ListedRoot DEF Entered, Directory
<1>4. {u \in Entered(Directory) : u.name = f} = {u \in Entered(Directory') : u.name = f}
  <2>1. CASE ~Modifying
    BY <2>1, Unmodified DEF Directory
  <2>2. CASE Modifying
    <3>1. f # call.name
      BY <2>2 DEF Stored
    <3>2. OthersListed
      BY MineSteps
    <3>3. QED
      BY <3>1, <3>2 DEF OthersListed
  <2>3. QED
    BY <2>1, <2>2
<1>5. \A u \in Entered(Directory) : u.name = f =>
        /\ u \in Dirents /\ ClosedUnder(fat, ChainOf(fat, u.first))
        /\ \A c \in ChainOf(fat, u.first) : fat'[c] = fat[c] /\ data'[c] = data[c]
  BY EntryChain, SafeLeft
<1>6. QED
  BY <1>1, <1>3, <1>4, <1>5, HoldsOn

LEMMA FlushingHolds ==
  ASSUME TypeInv, TypeInv', Calm, Survives, FilesAsPromised, [XNext]_xvars,
         pc' \in {"flush", "closed"}, NEW f \in Names
  PROVE  Holds(View', data', f, files'[f])
<1>1. CASE FsCall
  <2>1. UNCHANGED <<View, data, files>> /\ pc = "idle"
    <3>1. UNCHANGED <<fat, data, page, files>> /\ pc = "idle"
      BY <1>1 DEF FsCall, Open, FsRead, FsWrite, FsLseek, Close, Begin, disk, told
    <3>2. QED
      BY <3>1 DEF View, Hit
  <2>2. QED
    BY <2>1 DEF FilesAsPromised, Promised
<1>2. CASE Step
  <2>1. pc \in {"flush", "closed"} /\ (Flushed \/ FlushPage \/ LoadPage)
    BY <1>2, ClosingStep
  <2>2. View' = View /\ data' = data /\ files' = files
    <3>1. CASE Flushed
      BY <3>1, IdlingWrites DEF Idling, Flushed, told
    <3>2. CASE FlushPage \/ LoadPage
      BY <3>2, PageSteps DEF FlushPage, LoadPage, disk, told
    <3>3. QED
      BY <2>1, <3>1, <3>2
  <2>3. QED
    BY <2>1, <2>2 DEF Survives
<1>3. CASE OtherVolume \/ UNCHANGED xvars
  <2>1. ~OtherVolume
    BY DEF OtherVolume
  <2>2. UNCHANGED <<pc, fat, data, page, files>>
    BY <1>3, <2>1 DEF xvars
  <2>3. QED
    BY <2>2 DEF Survives, View, Hit
<1>4. QED
  BY <1>1, <1>2, <1>3 DEF XNext

LEMMA StepSurvives ==
  ASSUME TypeInv, TypeInv', StructInv, StructInv', OwnInv, StoredInv, StoredInv', FilesAsPromised,
         SurvivesInv, [XNext]_xvars
  PROVE  SurvivesInv'
<1>1. SUFFICES ASSUME Calm
               PROVE  Survives'
  BY CalmStays DEF SurvivesInv
<1>2. Tidy /\ Tidy' /\ Own /\ Stored /\ Stored' /\ Survives /\ DOMAIN safe = Names
  BY <1>1, CalmStays DEF StructInv, OwnInv, StoredInv, SurvivesInv
<1>3. \A f \in Names : pc' \in {"flush", "closed"} => Holds(View', data', f, files'[f])
  BY <1>1, <1>2, FlushingHolds
<1>4. ASSUME NEW f \in Names, safe'[f] # None
      PROVE  Holds(fat', data', f, safe'[f])
  <2>1. CASE safe'[f] = safe[f]
    <3>1. Holds(fat', data', f, safe[f])
      BY <1>1, <1>2, <1>4, <2>1, SafeHolds DEF Survives
    <3>2. QED
      BY <2>1, <3>1
  <2>2. CASE safe'[f] # safe[f]
    <3>1. Closed
      BY <1>2, <1>4, <2>2, SafeStep
    <3>2. fds[call.fd].writable /\ safe'[f] = files[f]
      BY <1>4, <2>2, <3>1 DEF Closed
    <3>3. View = fat /\ Holds(View, data, f, files[f])
      BY <1>2, <3>1, <3>2 DEF Stored, Survives, Closed
    <3>4. fat' = fat /\ data' = data
      BY <3>1, IdlingWrites DEF Idling
    <3>5. QED
      BY <3>2, <3>3, <3>4
  <2>3. QED
    BY <2>1, <2>2
<1>5. QED
  BY <1>3, <1>4 DEF Survives

LEMMA InitSurvives ==
  ASSUME XInit
  PROVE  SurvivesInv
<1>1. \A f \in Names : Holds(fat, data, f, safe[f])
  <2>1. scenario.volume \in DOMAIN Volumes
    BY FatxAssumption DEF XInit
  <2>2. QED
    BY <2>1, VolumesAssumption DEF XInit
<1>2. QED
  BY <1>1 DEF XInit, SurvivesInv, Survives

\* If the files are as promised between calls, then whenever the power is lost the files that
\* were closed since they were written are on the disk: nothing more than the flush of
\* fatx_fs_close is needed for it, and no later call on other files undoes it.
THEOREM SurvivesIfPromised == XSpec /\ []FilesAsPromised => []ClosedSurvives
<1>1. XInit => SurvivesInv
  BY InitSurvives
<1>2. TypeInv /\ TypeInv' /\ StructInv /\ StructInv' /\ OwnInv /\ StoredInv /\ StoredInv' /\ FilesAsPromised
        /\ SurvivesInv /\ [XNext]_xvars => SurvivesInv'
  BY StepSurvives
<1>3. SurvivesInv => ClosedSurvives
  BY DEF SurvivesInv, Survives, ClosedSurvives
<1>4. QED
  BY <1>1, <1>2, <1>3, AlwaysTyped, AlwaysStructured, AlwaysOwn, AlwaysStored, PTL DEF XSpec

=============================================================================
