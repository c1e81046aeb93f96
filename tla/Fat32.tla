-------------------------------- MODULE Fat32 --------------------------------
(***************************************************************************)
(* The FAT32 driver of fs/fat32.c on a volume with files in its root        *)
(* directory.  The driver creates and removes no files; it reads them and   *)
(* writes them, extending their cluster chains.                             *)
(*                                                                         *)
(* Kernel code does not yield during a call, but the machine may stop       *)
(* between any two sector writes and start again from the disk: a write is  *)
(* a sequence of steps, and Crash ends it.  Sector transfers succeed        *)
(* (VirtioBlk is about them).  A path is a sequence of a slash and a name.   *)
(***************************************************************************)
EXTENDS Integers, Sequences

CONSTANTS Files,      \* the names in the root directory
          Values,     \* the values of a byte
          FAT_LEN,    \* number of FAT entries, fat32_fat_size * 512 / 4, each of
                      \* which has its cluster: the FAT is no longer than it must be
          SECTOR,     \* bytes in a sector
          SPC,        \* fat32_sectors_per_cluster
          END_LIMIT,  \* bound on the position where a write may end, below 2^32:
                      \* the size that fat32_write cuts to 32 bits is that end
          Offsets,    \* where writes start
          Sizes,      \* how long writes, and files that are not empty, are
          WRITES      \* bound on the number of writes

ASSUME Fat32Assumption ==
    /\ FAT_LEN \in Nat /\ FAT_LEN > 2
    /\ SECTOR \in Nat \ {0} /\ SPC \in Nat \ {0}
    /\ END_LIMIT \in Nat
    /\ Offsets \subseteq Nat /\ Sizes \subseteq Nat
    /\ WRITES \in Nat

VARIABLES fat,    \* the first FAT
          data,   \* per cluster: its bytes
          dir,    \* per file: first_cluster and file_size of its entry
          req,    \* the write in progress, or the last one
          pc,     \* where it is
          cur,    \* current_cluster
          left,   \* write_end
          new,    \* new_cluster
          idx,    \* sector_idx
          skip,
          done,   \* bytes_written
          writes, \* number of calls
          torn    \* history: a crash left a link to a free cluster

vars == <<fat, data, dir, req, pc, cur, left, new, idx, skip, done, writes, torn>>

CB == SPC * SECTOR   \* cluster_bytes
EOC == FAT_LEN       \* any value that fat32_is_end_of_chain accepts
FREE == 0
ROOT == 2            \* fat32_root_cluster

\* What is written to clusters 0 and 1 lands in front of the data area, at the end
\* of the second FAT, which mkfs.fat makes and the driver never reads: of them
\* data says what a read of the same cluster returns.
Clusters == 0 .. FAT_LEN - 1

Entry == [first : Clusters \ {1}, size : 0 .. END_LIMIT]

Slash(f) == <<"/", f>>   \* what the VFS passes
Bare(f) == <<f>>         \* what fat32_uefi_write passes, and the name of an entry

Requests == [file : Files, path : Seq(Files \cup {"/"}), offset : Nat, size : Nat, value : Values]

TypeOK ==
    /\ fat \in [Clusters -> 0 .. FAT_LEN]
    /\ data \in [Clusters -> [0 .. CB - 1 -> Values]]
    /\ dir \in [Files -> Entry]
    /\ req \in Requests
    /\ req.offset + req.size =< END_LIMIT
    /\ pc \in {"idle", "expand", "mark", "data"}
    /\ cur \in 0 .. FAT_LEN /\ (pc \in {"expand", "mark"} => cur \in Clusters)
    /\ new \in Clusters
    /\ left \in 0 .. END_LIMIT
    /\ idx \in 0 .. SPC
    /\ skip \in 0 .. END_LIMIT
    /\ done \in 0 .. req.size
    /\ writes \in 0 .. WRITES
    /\ torn \in BOOLEAN

------------------------------------------------------------------------------
(* Chains                                                                   *)

IsLink(n) == n # FREE /\ n # EOC

\* The entries of files that own clusters; an empty file has first_cluster 0.
Owners == {f \in Files : dir[f].first # 0}

\* No cluster belongs to two files, or twice to one: it has one predecessor,
\* which is a cluster or a directory entry.
OnePredecessor ==
    /\ \A c, d \in Clusters : IsLink(fat[c]) /\ fat[c] = fat[d] => c = d
    /\ \A f, g \in Owners : dir[f].first = dir[g].first => f = g
    /\ \A f \in Owners, c \in Clusters : dir[f].first # ROOT /\ fat[c] # dir[f].first
    /\ \A c \in Clusters : fat[c] # ROOT

\* What the directory or the FAT refers to is allocated and in the data area.
Allocated ==
    /\ \A c \in Clusters : IsLink(fat[c]) => fat[c] >= 2 /\ fat[fat[c]] # FREE
    /\ \A f \in Owners : fat[dir[f].first] # FREE
    /\ fat[0] # FREE /\ fat[1] = EOC /\ fat[ROOT] # FREE

\* The k-th cluster of the chain that starts with c.
Nth(c, k) ==
    LET n[i \in 0 .. k] == IF i = 0 THEN c ELSE IF n[i - 1] = EOC THEN EOC ELSE fat[n[i - 1]]
    IN  n[k]

\* The byte at a position of a file.
Byte(f, p) == data[Nth(dir[f].first, p \div CB)][p % CB]

\* The chain of a file is long enough for its size.
Covered(f) ==
    \A p \in 0 .. dir[f].size - 1 : Nth(dir[f].first, p \div CB) # EOC

\* No cluster is allocated in vain.
NoneLost ==
    \A c \in ROOT + 1 .. FAT_LEN - 1 :
       fat[c] = FREE \/ (\E d \in Clusters : fat[d] = c) \/ (\E f \in Files : dir[f].first = c)

\* A volume as it was formatted and filled.
Init ==
    /\ fat \in [Clusters -> 0 .. FAT_LEN]
    /\ fat[0] = EOC /\ fat[ROOT] = EOC
    /\ dir \in [Files -> {e \in Entry : e.size \in {0} \cup Sizes}]
    /\ OnePredecessor /\ Allocated /\ NoneLost
    /\ \A f \in Files : Covered(f) /\ (dir[f].first = 0 => dir[f].size = 0)
    /\ \E f \in Files, v \in Values :
          /\ req = [file |-> f, path |-> <<>>, offset |-> 0, size |-> 0, value |-> v]
          /\ data = [c \in Clusters |-> [b \in 0 .. CB - 1 |-> v]]
    /\ pc = "idle"
    /\ cur = 0 /\ left = 0 /\ new = 0 /\ idx = 0 /\ skip = 0 /\ done = 0 /\ writes = 0
    /\ torn = FALSE

------------------------------------------------------------------------------
(* fat32_write                                                              *)

\* Mutant: whatever is not the end of a chain counts as free.
IsFirstNotEnd(c) == c >= 2 /\ fat[c] # EOC /\ \A d \in 2 .. c - 1 : fat[d] = EOC

IsFirstFree(c) == c >= 2 /\ fat[c] = FREE /\ \A d \in 2 .. c - 1 : fat[d] # FREE

NoneFree == \A c \in 2 .. FAT_LEN - 1 : fat[c] # FREE

Begin(r) ==
    /\ pc = "idle" /\ writes < WRITES
    /\ writes' = writes + 1
    /\ req' = r
    /\ cur' = dir[r.file].first
    /\ left' = r.offset + r.size
    /\ new' = 0 /\ idx' = 0 /\ skip' = 0 /\ done' = 0
    /\ pc' = "expand"
    /\ UNCHANGED <<fat, data, dir, torn>>

\* The chain is long enough so far.
Walk ==
    /\ pc = "expand" /\ left > CB
    /\ fat[cur] # EOC
    /\ cur' = fat[cur]
    /\ left' = left - CB
    /\ UNCHANGED <<fat, data, dir, req, pc, new, idx, skip, done, writes, torn>>

\* VFS_ENOSPC.
NoSpace ==
    /\ pc = "expand" /\ left > CB
    /\ fat[cur] = EOC
    /\ NoneFree
    /\ pc' = "idle"
    /\ UNCHANGED <<fat, data, dir, req, cur, left, new, idx, skip, done, writes, torn>>

\* The first of the two FAT writes that append a cluster.
Link ==
    /\ pc = "expand" /\ left > CB
    /\ fat[cur] = EOC
    /\ \E c \in Clusters :
          /\ IsFirstFree(c)
          /\ new' = c
          /\ fat' = [fat EXCEPT ![cur] = c]
    /\ pc' = "mark"
    /\ UNCHANGED <<data, dir, req, cur, left, idx, skip, done, writes, torn>>

\* Mutant: the new cluster is not marked as the end of the chain.
MarkMissing ==
    /\ pc = "mark"
    /\ cur' = new
    /\ left' = left - CB
    /\ pc' = "expand"
    /\ UNCHANGED <<fat, data, dir, req, new, idx, skip, done, writes, torn>>

\* The second one.
Mark ==
    /\ pc = "mark"
    /\ fat' = [fat EXCEPT ![new] = EOC]
    /\ cur' = new
    /\ left' = left - CB
    /\ pc' = "expand"
    /\ UNCHANGED <<data, dir, req, new, idx, skip, done, writes, torn>>

\* Mutant: the offset is forgotten.
ExpandedAtStart ==
    /\ pc = "expand" /\ left =< CB
    /\ cur' = dir[req.file].first
    /\ skip' = 0
    /\ pc' = "data"
    /\ UNCHANGED <<fat, data, dir, req, left, new, idx, done, writes, torn>>

Expanded ==
    /\ pc = "expand" /\ left =< CB
    /\ cur' = dir[req.file].first
    /\ skip' = req.offset
    /\ pc' = "data"
    /\ UNCHANGED <<fat, data, dir, req, left, new, idx, done, writes, torn>>

Writing == pc = "data" /\ done < req.size /\ cur # EOC

NextCluster ==
    /\ Writing /\ idx = SPC
    /\ cur' = fat[cur]
    /\ idx' = 0
    /\ UNCHANGED <<fat, data, dir, req, pc, left, new, skip, done, writes, torn>>

SkipSector ==
    /\ Writing /\ idx < SPC
    /\ skip >= SECTOR
    /\ skip' = skip - SECTOR
    /\ idx' = idx + 1
    /\ UNCHANGED <<fat, data, dir, req, pc, cur, left, new, done, writes, torn>>

\* Mutant: the last sector is filled.
ToCopyAll == SECTOR - skip

ToCopy ==
    IF SECTOR - skip > req.size - done THEN req.size - done ELSE SECTOR - skip

Stored ==
    [b \in 0 .. CB - 1 |->
        IF b \in idx * SECTOR + skip .. idx * SECTOR + skip + ToCopy - 1
        THEN req.value ELSE data[cur][b]]

\* Mutant: the rest of the offset is applied to every sector.
WriteSectorSkips ==
    /\ Writing /\ idx < SPC
    /\ skip < SECTOR
    /\ data' = [data EXCEPT ![cur] = Stored]
    /\ done' = done + ToCopy
    /\ idx' = idx + 1
    /\ UNCHANGED <<fat, dir, req, pc, cur, left, new, skip, writes, torn>>

WriteSector ==
    /\ Writing /\ idx < SPC
    /\ skip < SECTOR
    /\ data' = [data EXCEPT ![cur] = Stored]
    /\ done' = done + ToCopy
    /\ skip' = 0
    /\ idx' = idx + 1
    /\ UNCHANGED <<fat, dir, req, pc, cur, left, new, writes, torn>>

\* fat32_update_directory_entry compares the whole path with the names in the
\* root directory.
Updated(path, entry) == [f \in Files |-> IF Bare(f) = path THEN entry ELSE dir[f]]

Finish ==
    /\ pc = "data" /\ ~Writing
    /\ LET end == req.offset + req.size IN
          dir' = IF end > dir[req.file].size
                 THEN Updated(req.path, [first |-> dir[req.file].first, size |-> end])
                 ELSE dir
    /\ pc' = "idle"
    /\ UNCHANGED <<fat, data, req, cur, left, new, idx, skip, done, writes, torn>>

fat32_write ==
    \/ Walk \/ NoSpace \/ Link \/ Mark
    \/ Expanded \/ NextCluster \/ SkipSector \/ WriteSector \/ Finish

\* The machine stops and starts again.
Crash ==
    /\ pc # "idle"
    /\ torn' = (torn \/ pc = "mark")
    /\ pc' = "idle"
    /\ done' = 0
    /\ UNCHANGED <<fat, data, dir, req, cur, left, new, idx, skip, writes>>

------------------------------------------------------------------------------
(* fat32_read                                                               *)

\* Mutant: the length is not limited to what is left of the file.
AvailableAll(f, offset, size) == size

Available(f, offset, size) ==
    IF size > dir[f].size - offset THEN dir[f].size - offset ELSE size

\* r is what the loop copies from sector i of cluster c on, with s bytes still
\* to skip and n to copy.
fat32_read(f, offset, size) ==
    LET r[c \in 0 .. FAT_LEN, i \in 0 .. SPC, s \in 0 .. END_LIMIT, n \in 0 .. END_LIMIT] ==
           IF n = 0 \/ c = EOC THEN <<>>
           ELSE IF i = SPC THEN r[fat[c], 0, s, n]
           ELSE IF s >= SECTOR THEN r[c, i + 1, s - SECTOR, n]
           ELSE LET k == IF SECTOR - s > n THEN n ELSE SECTOR - s IN
                   [b \in 1 .. k |-> data[c][i * SECTOR + s + b - 1]] \o r[c, i + 1, 0, n - k]
    IN  IF offset >= dir[f].size THEN <<>>
        ELSE LET from == Nth(dir[f].first, offset \div CB) IN
                r[from, 0, offset % CB, Available(f, offset, size)]

------------------------------------------------------------------------------

Next ==
    \/ \E f \in Files, offset \in Offsets, size \in Sizes, v \in Values :
          /\ offset + size =< END_LIMIT
          /\ \E path \in {Slash(f)} \cup (IF offset = 0 THEN {Bare(f)} ELSE {}) :
                Begin([file |-> f, path |-> path, offset |-> offset, size |-> size, value |-> v])
    \/ fat32_write
    \/ pc = "idle" /\ UNCHANGED vars   \* fat32_read, fat32_stat, fat32_readdir
    \/ Crash

Spec == Init /\ [][Next]_vars

------------------------------------------------------------------------------
(* Properties                                                               *)

\* The driver keeps the chains apart: through any writes, refused ones and
\* ones cut off by a crash included, no cluster comes to belong to two files.
\* The one exception is a crash between the two FAT writes that append a
\* cluster (fat32_write links before it marks).
ChainsDisjoint == ~torn => OnePredecessor

\* Whatever a file or a chain refers to is allocated, so that the scan for a
\* free cluster cannot hand it out again.  Only a cluster that is just being
\* appended is linked and free.
LinksAllocated ==
    ~torn =>
       /\ \A c \in Clusters : IsLink(fat[c]) =>
             fat[c] >= 2 /\ (fat[fat[c]] # FREE \/ (pc = "mark" /\ c = cur))
       /\ \A f \in Owners : fat[dir[f].first] # FREE

Recorded(f) == 0 .. dir[f].size - 1
Span == req.offset .. req.offset + req.size - 1

\* A step of a write changes no byte that lies within the recorded size of a
\* file, other than those it was asked to write.  It holds through appended
\* clusters, ENOSPC and crashes.  Files that were empty when they were written
\* have no first cluster and share what is stored under cluster 0.
KeepsOtherBytes ==
    \A f \in Files : \A p \in Recorded(f) :
       Byte(f, p)' # Byte(f, p) =>
          /\ f = req.file \/ (dir[f].first = 0 /\ dir[req.file].first = 0)
          /\ p \in Span

InPlace == [][data' # data \/ fat' # fat => torn \/ KeepsOtherBytes]_vars

\* A write that has returned wrote all it was asked for, unless it found no
\* free cluster, and what it wrote is what a read of those positions finds, as
\* far as the directory entry lets it look.
ReadBack ==
    pc = "idle" /\ done > 0 /\ ~torn =>
       /\ done = req.size
       /\ \A p \in Span \cap Recorded(req.file) : Byte(req.file, p) = req.value

\* fat32_read returns, for every offset and length, the bytes of the file that
\* are there, none twice and none left out at the borders of sectors and
\* clusters; the chain never ends before the recorded size.
ReadsFile ==
    pc = "idle" /\ ~torn =>
       \A f \in Files, offset, size \in 0 .. END_LIMIT :
          LET end == IF offset + size > dir[f].size THEN dir[f].size ELSE offset + size IN
             fat32_read(f, offset, size) = [k \in 1 .. end - offset |-> Byte(f, offset + k - 1)]

\* What a write through the VFS reported as written can be read back ("write
\* `size` bytes to file at `rel_path` starting at `offset`").
WrittenIsRead ==
    pc = "idle" /\ done > 0 /\ ~torn /\ req.path = Slash(req.file) =>
       Len(fat32_read(req.file, req.offset, done)) = done
=============================================================================
