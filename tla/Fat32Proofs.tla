----------------------------- MODULE Fat32Proofs -----------------------------
(***************************************************************************)
(* Proofs about Fat32: for any volume, any files and any number of writes   *)
(* and crashes, the driver's variables keep their types, no two files share *)
(* a cluster and nothing that is referred to is free, as long as no crash   *)
(* hits the gap between the two FAT writes that append a cluster.           *)
(***************************************************************************)
EXTENDS Fat32, TLAPS

\* What fat32_write knows where it stands: between the two FAT writes the new
\* cluster is linked and still free, and only the entry of the file itself can
\* have the name in the request.
Progress ==
    /\ pc = "mark" => left > CB /\ new >= 2 /\ fat[cur] = new /\ fat[new] = FREE
    /\ \A f \in Files : Bare(f) = req.path => f = req.file

\* Links lead to allocated clusters, all but the one that is being appended.
LinkedAllocated ==
    \A c \in Clusters : IsLink(fat[c]) =>
       fat[c] >= 2 /\ (fat[fat[c]] # FREE \/ (pc = "mark" /\ c = cur))

\* First clusters and the root directory are allocated.
HeadsAllocated ==
    /\ \A f \in Files : dir[f].first # 0 => fat[dir[f].first] # FREE
    /\ fat[ROOT] # FREE

Consistent == OnePredecessor /\ LinkedAllocated /\ HeadsAllocated

\* The inductive invariant.
IInv == TypeOK /\ Progress /\ (torn \/ Consistent)

\* A cluster has a length.
LEMMA ClusterBytes == CB \in Nat
BY Fat32Assumption, SMT DEF CB

\* The request that Begin takes, field by field.
LEMMA RequestType ==
    ASSUME NEW r, NEW f \in Files, NEW o \in Nat, NEW n \in Nat, NEW v \in Values,
           NEW p \in {Slash(f), Bare(f)},
           r = [file |-> f, path |-> p, offset |-> o, size |-> n, value |-> v]
    PROVE  r \in Requests
<1>1. Slash(f) \in Seq(Files \cup {"/"})
  BY DEF Slash
<1>2. Bare(f) \in Seq(Files \cup {"/"})
  BY DEF Bare
<1>. QED  BY <1>1, <1>2 DEF Requests

\* A path that equals the name of an entry names that entry.
LEMMA PathNames ==
    ASSUME NEW f, NEW g
    PROVE  /\ Bare(g) = Bare(f) => g = f
           /\ Bare(g) # Slash(f)
BY DEF Bare, Slash

\* A formatted volume satisfies the invariant.
LEMMA InitInv == Init => IInv
<1>. SUFFICES ASSUME Init PROVE IInv
  OBVIOUS
<1>. USE Fat32Assumption
<1>1. PICK f \in Files, v \in Values :
         /\ req = [file |-> f, path |-> <<>>, offset |-> 0, size |-> 0, value |-> v]
         /\ data = [c \in Clusters |-> [b \in 0 .. CB - 1 |-> v]]
  BY DEF Init
<1>2. <<>> \in Seq(Files \cup {"/"})
  OBVIOUS
<1>3. req \in Requests
  BY <1>1, <1>2 DEF Requests
<1>4. TypeOK
  <2>1. data \in [Clusters -> [0 .. CB - 1 -> Values]]
    BY <1>1
  <2>2. dir \in [Files -> Entry]
    BY DEF Init
  <2>3. done \in 0 .. req.size /\ req.offset + req.size =< END_LIMIT
    BY <1>1 DEF Init
  <2>4. fat \in [Clusters -> 0 .. FAT_LEN] /\ pc = "idle" /\ torn \in BOOLEAN
    BY DEF Init
  <2>5. /\ cur \in 0 .. FAT_LEN /\ new \in Clusters /\ left \in 0 .. END_LIMIT
        /\ idx \in 0 .. SPC /\ skip \in 0 .. END_LIMIT /\ writes \in 0 .. WRITES
    BY DEF Init, Clusters
  <2>. QED  BY <1>3, <2>1, <2>2, <2>3, <2>4, <2>5 DEF TypeOK
<1>5. Progress
  <2>1. \A g \in Files : Bare(g) # req.path
    BY <1>1 DEF Bare
  <2>2. pc # "mark"
    BY DEF Init
  <2>. QED  BY <2>1, <2>2 DEF Progress
<1>6. Consistent
  BY DEF Init, Consistent, Allocated, LinkedAllocated, HeadsAllocated, Owners
<1>. QED  BY <1>4, <1>5, <1>6 DEF IInv

------------------------------------------------------------------------------
(* The steps                                                                *)

\* A call starts.
LEMMA BeginInv ==
    ASSUME IInv,
           NEW f \in Files, NEW o \in Nat, NEW n \in Nat, NEW v \in Values,
           NEW p \in {Slash(f), Bare(f)}, o + n =< END_LIMIT,
           Begin([file |-> f, path |-> p, offset |-> o, size |-> n, value |-> v])
    PROVE  IInv'
<1>. DEFINE r == [file |-> f, path |-> p, offset |-> o, size |-> n, value |-> v]
<1>. USE Fat32Assumption
<1>1. r \in Requests
  BY RequestType
<1>2. /\ req' = r /\ r.file = f /\ r.offset = o /\ r.size = n /\ r.path = p
      /\ dir[f].first \in Clusters
  BY DEF Begin, IInv, TypeOK, Entry
<1>3. TypeOK'
  <2>1. cur' \in Clusters /\ left' \in 0 .. END_LIMIT /\ writes' \in 0 .. WRITES
    BY <1>2 DEF Begin, IInv, TypeOK, Clusters
  <2>2. done' \in 0 .. req'.size /\ req'.offset + req'.size =< END_LIMIT
    BY <1>2 DEF Begin
  <2>. HIDE DEF r
  <2>. QED  BY <1>1, <1>2, <2>1, <2>2 DEF Begin, IInv, TypeOK, Clusters
<1>4. Progress'
  <2>1. \A g \in Files : Bare(g) = p => g = f
    BY PathNames
  <2>2. pc' # "mark"
    BY DEF Begin
  <2>. QED  BY <1>2, <2>1, <2>2 DEF Progress
<1>5. (torn \/ Consistent)'
  BY DEF Begin, IInv, Consistent, OnePredecessor, Owners, LinkedAllocated, HeadsAllocated
<1>. QED  BY <1>3, <1>4, <1>5 DEF IInv

\* The first FAT write: the cluster found free is linked to by nobody, and is
\* neither the first of a file nor the root directory's.
LEMMA LinkInv == IInv /\ Link => IInv'
<1>. SUFFICES ASSUME IInv, Link PROVE IInv'
  OBVIOUS
<1>. USE Fat32Assumption
<1>1. PICK c \in Clusters : IsFirstFree(c) /\ new' = c /\ fat' = [fat EXCEPT ![cur] = c]
  BY DEF Link
<1>2. /\ c >= 2 /\ c # EOC /\ fat[c] = FREE /\ IsLink(c)
      /\ cur \in Clusters /\ fat[cur] = EOC /\ cur # c
      /\ fat \in [Clusters -> 0 .. FAT_LEN]
  BY <1>1 DEF IsFirstFree, Link, IInv, TypeOK, EOC, FREE, Clusters, IsLink
<1>3. fat' \in [Clusters -> 0 .. FAT_LEN] /\ fat'[cur] = c /\ fat'[c] = FREE
  BY <1>1, <1>2 DEF Clusters
<1>4. TypeOK'
  BY <1>1, <1>2, <1>3 DEF Link, IInv, TypeOK, Requests
<1>5. Progress'
  BY <1>1, <1>2, <1>3 DEF Link, IInv, Progress, CB
<1>6. ASSUME Consistent PROVE Consistent'
  <2>1. \A d \in Clusters : fat[d] # c
    BY <1>2, <1>6 DEF Consistent, LinkedAllocated, Link
  <2>2. \A d \in Clusters : d # cur => fat'[d] = fat[d]
    BY <1>1, <1>2
  <2>3. c # ROOT /\ \A f \in Owners : dir[f].first # c
    BY <1>2, <1>6 DEF Consistent, HeadsAllocated, Owners
  <2>4. OnePredecessor'
    BY <1>2, <1>3, <1>6, <2>1, <2>2, <2>3 DEF Consistent, OnePredecessor, Owners, Link
  <2>5. LinkedAllocated'
    BY <1>2, <1>3, <1>6, <2>2 DEF Consistent, LinkedAllocated, IsLink, Link, FREE
  <2>6. HeadsAllocated'
    BY <1>2, <1>3, <1>6, <2>2 DEF Consistent, HeadsAllocated, Link, FREE, IsLink
  <2>. QED  BY <2>4, <2>5, <2>6 DEF Consistent
<1>. QED  BY <1>4, <1>5, <1>6 DEF IInv, Link

\* The second FAT write makes the appended cluster the end of the chain.
LEMMA MarkInv == IInv /\ Mark => IInv'
<1>. SUFFICES ASSUME IInv, Mark PROVE IInv'
  OBVIOUS
<1>. USE Fat32Assumption
<1>1. /\ new \in Clusters /\ cur \in Clusters /\ fat[cur] = new /\ fat[new] = FREE
      /\ fat \in [Clusters -> 0 .. FAT_LEN] /\ new >= 2 /\ left > CB
  BY DEF Mark, IInv, TypeOK, Progress
<1>2. fat' \in [Clusters -> 0 .. FAT_LEN] /\ fat'[new] = EOC
  BY <1>1 DEF Mark, EOC, Clusters
<1>3. left' \in 0 .. END_LIMIT
  BY <1>1, ClusterBytes DEF Mark, IInv, TypeOK
<1>4. TypeOK'
  BY <1>1, <1>2, <1>3 DEF Mark, IInv, TypeOK
<1>5. Progress'
  BY DEF Mark, IInv, Progress
<1>6. ASSUME Consistent PROVE Consistent'
  <2>1. \A d \in Clusters : d # new => fat'[d] = fat[d]
    BY <1>1 DEF Mark
  <2>2. EOC # FREE /\ EOC # ROOT /\ ~IsLink(EOC) /\ EOC \notin Clusters
    BY DEF EOC, FREE, ROOT, IsLink, Clusters
  <2>3. OnePredecessor'
    BY <1>1, <1>2, <1>6, <2>1, <2>2 DEF Consistent, OnePredecessor, Owners, Mark, IInv, TypeOK, Entry
  <2>4. LinkedAllocated'
    BY <1>1, <1>2, <1>6, <2>1, <2>2 DEF Consistent, LinkedAllocated, Mark
  <2>5. HeadsAllocated'
    BY <1>1, <1>2, <1>6, <2>1, <2>2 DEF Consistent, HeadsAllocated, Mark
  <2>. QED  BY <2>3, <2>4, <2>5 DEF Consistent
<1>. QED  BY <1>4, <1>5, <1>6 DEF IInv, Mark

\* Steps that leave the disk alone and do not stand between the FAT writes.
LEMMA QuietInv ==
    ASSUME IInv, TypeOK', pc # "mark", pc' # "mark",
           UNCHANGED <<fat, dir, req, torn>>
    PROVE  IInv'
<1>1. Progress'
  BY DEF IInv, Progress
<1>2. (torn \/ Consistent)'
  BY DEF IInv, Consistent, OnePredecessor, Owners, LinkedAllocated, HeadsAllocated
<1>. QED  BY <1>1, <1>2 DEF IInv

\* The walk along the chain that exists, the refusal when the disk is full, and
\* the return to the first cluster.
LEMMA ExpandInv == IInv /\ (Walk \/ NoSpace \/ Expanded) => IInv'
<1>. SUFFICES ASSUME IInv, Walk \/ NoSpace \/ Expanded PROVE IInv'
  OBVIOUS
<1>. USE Fat32Assumption
<1>1. CASE Walk
  <2>1. cur' \in Clusters
    BY <1>1 DEF Walk, IInv, TypeOK, Clusters, EOC
  <2>2. left' \in 0 .. END_LIMIT
    BY <1>1, ClusterBytes DEF Walk, IInv, TypeOK
  <2>3. TypeOK'
    BY <1>1, <2>1, <2>2 DEF Walk, IInv, TypeOK, Clusters
  <2>. QED  BY <1>1, <2>3, QuietInv DEF Walk
<1>2. CASE NoSpace
  <2>1. TypeOK'
    BY <1>2 DEF NoSpace, IInv, TypeOK
  <2>. QED  BY <1>2, <2>1, QuietInv DEF NoSpace
<1>3. CASE Expanded
  <2>1. cur' \in 0 .. FAT_LEN
    BY <1>3, SMTT(30) DEF Expanded, IInv, TypeOK, Requests, Entry, Clusters
  <2>2. skip' \in 0 .. END_LIMIT
    BY <1>3 DEF Expanded, IInv, TypeOK, Requests
  <2>3. TypeOK'
    BY <1>3, <2>1, <2>2 DEF Expanded, IInv, TypeOK
  <2>. QED  BY <1>3, <2>3, QuietInv DEF Expanded
<1>. QED  BY <1>1, <1>2, <1>3

\* The loop over the sectors.
LEMMA DataInv == IInv /\ (NextCluster \/ SkipSector \/ WriteSector) => IInv'
<1>. SUFFICES ASSUME IInv, NextCluster \/ SkipSector \/ WriteSector PROVE IInv'
  OBVIOUS
<1>. USE Fat32Assumption
<1>0. /\ Writing => cur \in Clusters
      /\ req.size \in Nat
  BY DEF IInv, TypeOK, Writing, EOC, Clusters, Requests
<1>1. CASE NextCluster
  <2>1. cur' \in 0 .. FAT_LEN /\ idx' \in 0 .. SPC
    BY <1>0, <1>1 DEF NextCluster, IInv, TypeOK
  <2>2. TypeOK'
    BY <1>1, <2>1 DEF NextCluster, Writing, IInv, TypeOK
  <2>. QED  BY <1>1, <2>2, QuietInv DEF NextCluster, Writing
<1>2. CASE SkipSector
  <2>1. skip' \in 0 .. END_LIMIT /\ idx' \in 0 .. SPC
    BY <1>2 DEF SkipSector, IInv, TypeOK
  <2>2. TypeOK'
    BY <1>2, <2>1 DEF SkipSector, Writing, IInv, TypeOK
  <2>. QED  BY <1>2, <2>2, QuietInv DEF SkipSector, Writing
<1>3. CASE WriteSector
  <2>1. done' \in 0 .. req.size
    BY <1>0, <1>3 DEF WriteSector, Writing, ToCopy, IInv, TypeOK
  <2>2. skip' \in 0 .. END_LIMIT /\ idx' \in 0 .. SPC
    BY <1>3 DEF WriteSector, IInv, TypeOK
  <2>3. data' \in [Clusters -> [0 .. CB - 1 -> Values]]
    <3>1. cur \in Clusters /\ req.value \in Values /\ data \in [Clusters -> [0 .. CB - 1 -> Values]]
      BY <1>0, <1>3 DEF WriteSector, IInv, TypeOK, Requests
    <3>2. Stored \in [0 .. CB - 1 -> Values]
      BY <3>1 DEF Stored
    <3>. QED  BY <1>3, <3>1, <3>2 DEF WriteSector
  <2>4. TypeOK'
    BY <1>3, <2>1, <2>2, <2>3 DEF WriteSector, Writing, IInv, TypeOK
  <2>. QED  BY <1>3, <2>4, QuietInv DEF WriteSector, Writing
<1>. QED  BY <1>1, <1>2, <1>3

\* The update of the entry changes sizes only: first clusters stay.
LEMMA FinishInv == IInv /\ Finish => IInv'
<1>. SUFFICES ASSUME IInv, Finish PROVE IInv'
  OBVIOUS
<1>. USE Fat32Assumption
<1>1. req.offset + req.size \in 0 .. END_LIMIT /\ dir[req.file] \in Entry /\ dir \in [Files -> Entry]
  BY DEF IInv, TypeOK, Requests
<1>2. dir' \in [Files -> Entry] /\ \A f \in Files : dir'[f].first = dir[f].first
  <2>. DEFINE e == [first |-> dir[req.file].first, size |-> req.offset + req.size]
  <2>1. e \in Entry /\ e.first = dir[req.file].first
    BY <1>1 DEF Entry
  <2>2. \A f \in Files : Bare(f) = req.path => f = req.file
    BY DEF IInv, Progress
  <2>3. dir' = dir \/ dir' = Updated(req.path, e)
    BY DEF Finish
  <2>. HIDE DEF e
  <2>. QED  BY <1>1, <2>1, <2>2, <2>3 DEF Updated
<1>3. TypeOK'
  BY <1>2 DEF Finish, IInv, TypeOK
<1>4. Progress'
  BY DEF Finish, IInv, Progress
<1>5. ASSUME Consistent PROVE Consistent'
  <2>1. Owners' = Owners /\ fat' = fat /\ pc # "mark"
    BY <1>2 DEF Finish, Owners
  <2>2. OnePredecessor'
    BY <1>2, <1>5, <2>1 DEF Consistent, OnePredecessor, Owners
  <2>3. LinkedAllocated'
    BY <1>5, <2>1 DEF Consistent, LinkedAllocated
  <2>4. HeadsAllocated'
    BY <1>2, <1>5, <2>1 DEF Consistent, HeadsAllocated
  <2>. QED  BY <2>2, <2>3, <2>4 DEF Consistent
<1>. QED  BY <1>3, <1>4, <1>5 DEF IInv, Finish

\* A crash outside the gap leaves a consistent volume; inside it, it is recorded.
LEMMA CrashInv == IInv /\ Crash => IInv'
<1>. SUFFICES ASSUME IInv, Crash PROVE IInv'
  OBVIOUS
<1>1. TypeOK'
  <2>1. torn' \in BOOLEAN
    BY DEF Crash
  <2>2. done' \in 0 .. req.size
    BY DEF Crash, IInv, TypeOK, Requests
  <2>. QED  BY <2>1, <2>2 DEF Crash, IInv, TypeOK
<1>2. Progress'
  BY DEF Crash, IInv, Progress
<1>3. (torn \/ Consistent)'
  <2>1. CASE torn \/ pc = "mark"
    BY <2>1 DEF Crash
  <2>2. CASE ~torn /\ pc # "mark"
    <3>1. Consistent
      BY <2>2 DEF IInv
    <3>. QED  BY <2>2, <3>1 DEF Crash, Consistent, OnePredecessor, Owners, LinkedAllocated, HeadsAllocated
  <2>. QED  BY <2>1, <2>2
<1>. QED  BY <1>1, <1>2, <1>3 DEF IInv

\* Every step keeps the invariant.
LEMMA NextInv == IInv /\ [Next]_vars => IInv'
<1>. SUFFICES ASSUME IInv, [Next]_vars PROVE IInv'
  OBVIOUS
<1>1. ASSUME NEW f \in Files, NEW o \in Offsets, NEW n \in Sizes, NEW v \in Values,
             o + n =< END_LIMIT,
             NEW p \in {Slash(f)} \cup (IF o = 0 THEN {Bare(f)} ELSE {}),
             Begin([file |-> f, path |-> p, offset |-> o, size |-> n, value |-> v])
      PROVE  IInv'
  <2>1. o \in Nat /\ n \in Nat
    BY Fat32Assumption
  <2>2. p \in {Slash(f), Bare(f)}
    BY <1>1
  <2>. QED  BY <1>1, <2>1, <2>2, BeginInv
<1>2. CASE fat32_write
  BY <1>2, ExpandInv, LinkInv, MarkInv, DataInv, FinishInv DEF fat32_write
<1>3. CASE Crash
  BY <1>3, CrashInv
<1>4. CASE UNCHANGED vars
  <2>1. TypeOK'
    BY <1>4 DEF vars, IInv, TypeOK
  <2>2. Progress'
    BY <1>4 DEF vars, IInv, Progress
  <2>3. (torn \/ Consistent)'
    BY <1>4 DEF vars, IInv, Consistent, OnePredecessor, Owners, LinkedAllocated, HeadsAllocated
  <2>. QED  BY <2>1, <2>2, <2>3 DEF IInv
<1>. QED  BY <1>1, <1>2, <1>3, <1>4 DEF Next

\* The driver's variables keep their types, whatever the volume, the files and
\* the offsets and sizes of the writes.
THEOREM Fat32TypeCorrect == Spec => []TypeOK
<1>1. IInv => TypeOK
  BY DEF IInv
<1>. QED  BY InitInv, NextInv, <1>1, PTL DEF Spec

\* fat32_write never gives a cluster to two files: chains stay apart through
\* growth, a full disk and crashes outside the gap.
THEOREM FilesShareNoCluster == Spec => []ChainsDisjoint
<1>1. IInv => ChainsDisjoint
  BY DEF IInv, ChainsDisjoint, Consistent
<1>. QED  BY InitInv, NextInv, <1>1, PTL DEF Spec

\* fat32_find_free_cluster can never return a cluster that is in use.
THEOREM ReferencedIsAllocated == Spec => []LinksAllocated
<1>1. IInv => LinksAllocated
  BY DEF IInv, LinksAllocated, Consistent, LinkedAllocated, HeadsAllocated, Owners
<1>. QED  BY InitInv, NextInv, <1>1, PTL DEF Spec
=============================================================================
