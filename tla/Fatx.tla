-------------------------------- MODULE Fatx --------------------------------
(***************************************************************************)
(* A FATX volume: libfatx (fatx_fat.c, fatx_dir.c, fatx_file.c,            *)
(* fatx_attr.c) and the calls of src/fs_io/fatx.c above it, on a disk      *)
(* whose transfers succeed (FatxDev has those that fail).  The FAT is      *)
(* changed in a page of it that is kept in memory, contents and directory  *)
(* entries go to the disk at once: every device write is a step, and what  *)
(* a power loss leaves is what the disk holds at that moment.              *)
(*                                                                         *)
(* Space is counted in units of one directory entry (64 bytes); one        *)
(* directory stands for the one that holds the files, and the volume's     *)
(* mutex keeps calls apart (LockedSerial of FileIO).                       *)
(***************************************************************************)
EXTENDS Integers, Sequences, FiniteSets

CONSTANTS
  Names, Fds,
  NumClusters,  \* fs->num_clusters; FAT indices go up to it
  Units,        \* the units of a cluster
  PageEntries,  \* FATX_FAT_CACHE_NUM_ENTRIES
  Chunk,        \* the most that lseek pads at once
  Lengths,      \* what is read and written at once
  MaxSize,      \* the bound of a file's size
  Indices,      \* where allocations on other volumes leave the allocator's index
  Volumes,      \* volumes before the first call, by name
  Scenarios,    \* the volume, the files in use, where seeks go, whether they may be any
                \* (CalmSeek) and how many calls are made
  None, Zero, EndMark, Deleted, Unknown

ASSUME FatxAssumption ==
  /\ NumClusters \in Nat /\ NumClusters > 2
  /\ Units \in Nat \ {0} /\ PageEntries \in Nat \ {0} /\ Chunk \in Nat \ {0}
  /\ Lengths \subseteq Nat \ {0} /\ MaxSize \in Nat /\ Indices \subseteq Nat \ {0, 1}
  /\ \A s \in Scenarios :
       /\ s.volume \in DOMAIN Volumes /\ s.names \subseteq Names
       /\ s.seeks \subseteq Nat /\ s.anySeek \in BOOLEAN /\ s.calls \in Nat
  /\ IsFiniteSet(Names)

VARIABLES
  scenario,
  calls,       \* how many calls were made (at most scenario.calls)
  fat, data,   \* the disk: the FAT and the clusters' units
  page,        \* fs->fat_cache
  i,           \* the static index of fatx_alloc_cluster
  fds,         \* the open files
  pc, call,    \* where the call is, its arguments and locals
  files,       \* what the callers were told: the files and their contents
  safe         \* the contents of the files that were closed since they were written

xvars == <<scenario, calls, fat, data, page, i, fds, pc, call, files, safe>>
disk == <<fat, data>>
told == <<fds, files, safe>>

AVAILABLE == 0
END == -1
root_cluster == 1
FatIndices == 0 .. NumClusters
Clusters == 1 .. NumClusters
Slots == 0 .. Units - 1
Dirents == [name : Names, first : Clusters, size : Nat]
UnitValues == {Zero, EndMark, Deleted} \cup Names \cup Dirents
Entries == {k \in Int : k <= NumClusters}
OpenFiles == [name : Names, cursor : Nat, file_size : Nat, writable : BOOLEAN]

\* The values that stand for something are unlike each other, and unlike names and records.
ASSUME ValuesAssumption ==
  LET marks == {None, Zero, EndMark, Deleted, Unknown}
  IN /\ Cardinality(marks) = 5 /\ marks \cap Names = {} /\ None \notin Fds
     /\ \A u \in marks \cup Names : u \notin Dirents /\ u \notin OpenFiles

Least(S) == CHOOSE x \in S : \A y \in S : x <= y
Smaller(a, b) == IF a < b THEN a ELSE b
Larger(a, b) == IF a < b THEN b ELSE a

-----------------------------------------------------------------------------
(***************************************************************************)
(* The FAT and its page                                                    *)
(***************************************************************************)

IsData(entry) == entry > 0
Hit(k) == k \in DOMAIN page.ent
WriteFat(k, entry) == page' = [ent |-> [page.ent EXCEPT ![k] = entry], dirty |-> TRUE]

\* The FAT with what the page has changed.
View == [k \in FatIndices |-> IF Hit(k) THEN page.ent[k] ELSE fat[k]]

NoPage == [ent |-> [k \in {} |-> 0], dirty |-> FALSE]

-----------------------------------------------------------------------------
(***************************************************************************)
(* The state machine of a call: calls inside calls leave a label to come   *)
(* back to, ok is the status they come back with.                          *)
(***************************************************************************)

NoCall ==
  [op |-> "none", fd |-> None, name |-> None, n |-> 0, to |-> 0, offset |-> 0,
   ret |-> <<>>, ok |-> TRUE, result |-> 0, dir |-> [cluster |-> root_cluster, entry |-> 0],
   found |-> [first |-> root_cluster, size |-> 0], attr |-> [first |-> root_cluster, size |-> 0],
   cluster |-> root_cluster, new |-> root_cluster, victim |-> root_cluster, zero |-> TRUE, start |-> 2, wrapped |-> FALSE,
   off |-> 0, done |-> 0, enc |-> 1, goal |-> 0, end |-> 0, left |-> 0,
   chunk |-> 0, buf |-> <<>>]

\* The record r with fields of u and w for its own.
Having(r, u, w) ==
  [x \in DOMAIN r |-> IF x \in DOMAIN u THEN u[x] ELSE IF x \in DOMAIN w THEN w[x] ELSE r[x]]

NoLocals == [x \in {} |-> 0]

\* Set the locals of u and go on at p.
Go(p, u) == pc' = p /\ call' = Having(call, u, NoLocals)

\* Call p with the locals of u set and come back to the labels, one after the other.
Sub(p, labels, u) == pc' = p /\ call' = Having(call, u, [ret |-> labels \o call.ret])

Back(ok, u) == pc' = Head(call.ret) /\ call' = Having(call, u, [ok |-> ok, ret |-> Tail(call.ret)])

\* fatx_get_attr: open the directory and look the file up.
LookUp(labels, u) ==
  pc' = "lookup" /\ call' = Having(call, u, [dir |-> NoCall.dir, ret |-> labels \o call.ret])

\* Allocate a cluster and attach it to the chain that ends with call.cluster.
Grow(back, u) == Sub("alloc", <<"attach", back>>, u)

Return(result) == Go("return", [result |-> result])

Begin(p, labels, arguments) ==
  /\ pc = "idle"
  /\ calls < scenario.calls
  /\ calls' = calls + 1
  /\ pc' = p
  /\ call' = Having(NoCall, arguments, [ret |-> labels])

-----------------------------------------------------------------------------
(***************************************************************************)
(* Directories: fatx_get_attr_dir, fatx_alloc_dir_entry                    *)
(***************************************************************************)

IsEntry(u) == u \notin {Zero, EndMark, Deleted} \cup Names
IsEnd(u) == u \in {Zero, EndMark}

\* Fault: any entry will do.
Named_Any(u, f) == IsEntry(u)

Named(u, f) == IsEntry(u) /\ u.name = f

\* The slots of the cluster the scan is in where it stops.
Stops ==
  {e \in Slots : LET u == data[call.dir.cluster][e]
                 IN IF pc = "lookup" THEN IsEnd(u) \/ Named(u, call.name) ELSE ~IsEntry(u)}

Lookup ==
  /\ pc = "lookup"
  /\ LET here == call.dir.cluster
         at == [cluster |-> here, entry |-> Least(Stops)]
         u == data[here][Least(Stops)]
     IN IF Stops # {}
        THEN IF IsEnd(u) THEN Back(FALSE, [dir |-> at])
             ELSE Back(TRUE, [dir |-> at, found |-> [first |-> u.first, size |-> u.size]])
        ELSE /\ Hit(here)
             /\ IF IsData(page.ent[here])
                THEN Go("lookup", [dir |-> [cluster |-> page.ent[here], entry |-> 0]])
                ELSE Back(FALSE, [dir |-> [cluster |-> here, entry |-> Units]])
  /\ UNCHANGED <<scenario, calls, disk, page, i, told>>

\* The place of an entry on the disk; the one after a cluster's last is the next cluster's first.
Place(cluster, entry) == <<cluster + entry \div Units, entry % Units>>

StoreUnit(place, u) == data' = [data EXCEPT ![place[1]][place[2]] = u]

\* fatx_alloc_dir_entry: a deleted entry, or the one that ends the directory, or a new cluster.
FindSlot ==
  /\ pc = "slot"
  /\ LET here == call.dir.cluster
     IN IF Stops # {}
        THEN Go(IF data[here][Least(Stops)] = Deleted THEN "dirent" ELSE "mark",
                [dir |-> [cluster |-> here, entry |-> Least(Stops)]])
        ELSE /\ Hit(here)
             /\ IF IsData(page.ent[here])
                THEN Go("slot", [dir |-> [cluster |-> page.ent[here], entry |-> 0]])
                ELSE Grow("dir_grown", [cluster |-> here, zero |-> TRUE])
  /\ UNCHANGED <<scenario, calls, disk, page, i, told>>

\* fatx_mark_end_of_dir on the entry after the one that is taken.
MarkEnd ==
  /\ pc = "mark"
  /\ StoreUnit(Place(call.dir.cluster, call.dir.entry + 1), EndMark)
  /\ Go("dirent", NoLocals)
  /\ UNCHANGED <<scenario, calls, fat, page, i, told>>

\* The new cluster gets the end mark, and the entry is put behind the last of the old one.
DirGrown ==
  /\ pc = "dir_grown"
  /\ IF call.ok THEN /\ StoreUnit(Place(call.cluster, 0), EndMark)
                     /\ Go("dirent", [dir |-> [call.dir EXCEPT !.entry = Units]])
     ELSE Sub("free", <<"open_failed">>, [victim |-> call.attr.first]) /\ UNCHANGED data
  /\ UNCHANGED <<scenario, calls, fat, page, i, told>>

StoreDirent ==
  StoreUnit(Place(call.dir.cluster, call.dir.entry),
            [name |-> call.name, first |-> call.attr.first, size |-> call.attr.size])

-----------------------------------------------------------------------------
(***************************************************************************)
(* Clusters: fatx_alloc_cluster, fatx_attach_cluster,                      *)
(* fatx_free_cluster_chain                                                 *)
(***************************************************************************)

Alloc ==
  /\ pc = "alloc"
  /\ Go("scan", [start |-> i, wrapped |-> FALSE])
  /\ UNCHANGED <<scenario, calls, disk, page, i, told>>

\* Fault: the index runs past the end of the FAT.
index_PastEnd == IF i > NumClusters + 1 THEN 2 ELSE i

\* The index of the scan, which begins again after the last one and stops where it began.
index == IF i >= NumClusters THEN 2 ELSE i

wrapped == call.wrapped \/ i >= NumClusters

\* Fault: coming back to where the scan began does not end it.
Exhausted_Never == index > NumClusters

Exhausted == index = call.start /\ wrapped

Scan ==
  /\ pc = "scan"
  /\ IF Exhausted THEN Back(FALSE, NoLocals) /\ i' = index /\ UNCHANGED page
     ELSE /\ Hit(index)
          /\ IF page.ent[index] = AVAILABLE
             THEN /\ WriteFat(index, END)
                  /\ i' = index
                  /\ IF call.zero THEN Go("zero", [new |-> index]) ELSE Back(TRUE, [new |-> index])
             ELSE i' = index + 1 /\ Go("scan", [wrapped |-> wrapped]) /\ UNCHANGED page
  /\ UNCHANGED <<scenario, calls, disk, told>>

ZeroCluster ==
  /\ pc = "zero"
  /\ data' = [data EXCEPT ![call.new] = [e \in Slots |-> Zero]]
  /\ Back(TRUE, NoLocals)
  /\ UNCHANGED <<scenario, calls, fat, page, i, told>>

Attach ==
  /\ pc = "attach"
  /\ IF ~call.ok THEN Back(FALSE, NoLocals) /\ UNCHANGED page
     ELSE /\ Hit(call.cluster)
          /\ IF page.ent[call.cluster] # END THEN Back(FALSE, NoLocals) /\ UNCHANGED page
             ELSE WriteFat(call.cluster, call.new) /\ Go("attach_end", NoLocals)
  /\ UNCHANGED <<scenario, calls, disk, i, told>>

AttachEnd ==
  /\ pc = "attach_end"
  /\ Hit(call.new)
  /\ WriteFat(call.new, END)
  /\ Back(TRUE, [cluster |-> call.new])
  /\ UNCHANGED <<scenario, calls, disk, i, told>>

FreeChain ==
  /\ pc = "free"
  /\ Hit(call.victim)
  /\ WriteFat(call.victim, AVAILABLE)
  /\ IF IsData(page.ent[call.victim]) THEN Go("free", [victim |-> page.ent[call.victim]])
     ELSE Back(TRUE, NoLocals)
  /\ UNCHANGED <<scenario, calls, disk, i, told>>

-----------------------------------------------------------------------------
(***************************************************************************)
(* fatx_truncate, fatx_set_attr                                            *)
(***************************************************************************)

\* Fault: what is behind the new end of the chain is not freed.
TruncateWalk_NoFree ==
  /\ pc = "truncate"
  /\ Hit(call.cluster)
  /\ LET next == page.ent[call.cluster]
     IN IF call.enc * Units < call.goal
        THEN IF IsData(next) THEN Go("truncate", [cluster |-> next, enc |-> call.enc + 1])
             ELSE Grow("truncate_grown", [zero |-> TRUE])
        ELSE Go("truncate_end", NoLocals)
  /\ UNCHANGED <<scenario, calls, disk, page, i, told>>

TruncateStart ==
  /\ pc = "truncate_start"
  /\ IF call.ok THEN Go("truncate", [cluster |-> call.found.first, enc |-> 1, attr |-> call.found])
     ELSE Back(FALSE, NoLocals)
  /\ UNCHANGED <<scenario, calls, disk, page, i, told>>

\* Go to the cluster that holds the new end, growing the chain up to it, and free the rest.
TruncateWalk ==
  /\ pc = "truncate"
  /\ Hit(call.cluster)
  /\ LET next == page.ent[call.cluster]
     IN IF call.enc * Units < call.goal
        THEN IF IsData(next) THEN Go("truncate", [cluster |-> next, enc |-> call.enc + 1])
             ELSE Grow("truncate_grown", [zero |-> TRUE])
        ELSE IF IsData(next) THEN Sub("free", <<"truncate_end">>, [victim |-> next])
             ELSE Go("truncate_end", NoLocals)
  /\ UNCHANGED <<scenario, calls, disk, page, i, told>>

TruncateGrown ==
  /\ pc = "truncate_grown"
  /\ IF call.ok THEN Go("truncate", [enc |-> call.enc + 1]) ELSE Back(FALSE, NoLocals)
  /\ UNCHANGED <<scenario, calls, disk, page, i, told>>

TruncateEnd ==
  /\ pc = "truncate_end"
  /\ Hit(call.cluster)
  /\ WriteFat(call.cluster, END)
  /\ LookUp(<<"set_attr">>, [attr |-> [call.attr EXCEPT !.size = call.goal]])
  /\ UNCHANGED <<scenario, calls, disk, i, told>>

SetAttr ==
  /\ pc = "set_attr"
  /\ IF call.ok THEN StoreDirent ELSE UNCHANGED data
  /\ Back(call.ok, NoLocals)
  /\ UNCHANGED <<scenario, calls, fat, page, i, told>>

Truncate(back, size) ==
  LookUp(<<"truncate_start", back>>, [goal |-> size])

-----------------------------------------------------------------------------
(***************************************************************************)
(* fatx_find_cluster_for_file_offset_alloc, fatx_write, fatx_read          *)
(***************************************************************************)

Find ==
  /\ pc = "find"
  /\ IF call.off < Units THEN Go(IF call.op = "read" THEN "read" ELSE "write", NoLocals)
     ELSE /\ Hit(call.cluster)
          /\ LET next == page.ent[call.cluster]
             IN IF IsData(next) THEN Go("find", [cluster |-> next, off |-> call.off - Units])
                ELSE IF call.op # "read" /\ next = END THEN Grow("find_grown", [zero |-> TRUE])
                ELSE Back(FALSE, [result |-> 0])
  /\ UNCHANGED <<scenario, calls, disk, page, i, told>>

FindGrown ==
  /\ pc = "find_grown"
  /\ IF call.ok THEN Go("find", [off |-> call.off - Units]) ELSE Back(FALSE, [result |-> 0])
  /\ UNCHANGED <<scenario, calls, disk, page, i, told>>

fatx_write(back, offset, n) ==
  LookUp(<<"write_start", back>>, [offset |-> offset, n |-> n, done |-> 0])

\* Beyond the end of the file the file is made longer first.
WriteStart ==
  /\ pc = "write_start"
  /\ IF ~call.ok THEN Back(FALSE, [result |-> -1])
     ELSE IF call.offset > call.found.size THEN Truncate("write_extended", call.offset + 1)
     ELSE Go("find", [attr |-> call.found, cluster |-> call.found.first, off |-> call.offset])
  /\ UNCHANGED <<scenario, calls, disk, page, i, told>>

WriteExtended ==
  /\ pc = "write_extended"
  /\ IF call.ok THEN LookUp(<<"write_start">>, NoLocals) ELSE Back(FALSE, [result |-> -1])
  /\ UNCHANGED <<scenario, calls, disk, page, i, told>>

\* What a transfer in the current cluster has room for.
room == Smaller(Units - call.off, call.n - call.done)

\* What a write stores: zeroes from lseek, the file's data otherwise.
Written == IF call.op = "lseek" THEN Zero ELSE call.name

\* The size is stored only if it has grown.
Write ==
  /\ pc = "write"
  /\ data' = [data EXCEPT ![call.cluster] =
               [e \in Slots |-> IF e \in call.off .. call.off + room - 1 THEN Written ELSE @[e]]]
  /\ LET done == call.done + room
     IN IF done < call.n THEN Go("advance", [done |-> done])
        ELSE IF call.offset + call.n > call.attr.size
        THEN LookUp(<<"set_attr", "write_end">>,
                    [done |-> done, attr |-> [call.attr EXCEPT !.size = call.offset + call.n]])
        ELSE Go("write_end", [done |-> done, ok |-> TRUE])
  /\ UNCHANGED <<scenario, calls, fat, page, i, told>>

\* On to the next cluster; a new one that will be filled is not zeroed.
WriteAdvance ==
  /\ pc = "advance"
  /\ Hit(call.cluster)
  /\ LET next == page.ent[call.cluster]
     IN IF IsData(next) THEN Go("write", [cluster |-> next, off |-> 0])
        ELSE Grow("write_grown", [zero |-> call.n - call.done < Units])
  /\ UNCHANGED <<scenario, calls, disk, page, i, told>>

WriteGrown ==
  /\ pc = "write_grown"
  /\ IF call.ok THEN Go("write", [off |-> 0]) ELSE Back(FALSE, [result |-> -1])
  /\ UNCHANGED <<scenario, calls, disk, page, i, told>>

WriteEnd ==
  /\ pc = "write_end"
  /\ Back(call.ok, [result |-> IF call.ok THEN call.n ELSE -1])
  /\ UNCHANGED <<scenario, calls, disk, page, i, told>>

ReadStart ==
  /\ pc = "read_start"
  /\ IF ~call.ok THEN Back(FALSE, [result |-> -1])
     ELSE IF call.offset >= call.found.size THEN Back(FALSE, [result |-> 0])
     ELSE Go("find", [attr |-> call.found, cluster |-> call.found.first, off |-> call.offset])
  /\ UNCHANGED <<scenario, calls, disk, page, i, told>>

\* Up to the end of the cluster, of the request and of the file.
Read ==
  /\ pc = "read"
  /\ LET n == Smaller(room, call.attr.size - call.offset - call.done)
         got == [buf |-> call.buf \o [k \in 1 .. n |-> data[call.cluster][call.off + k - 1]],
                 done |-> call.done + n, result |-> call.done + n]
     IN IF n > 0 /\ call.offset + got.done < call.attr.size /\ call.off + n = Units
        THEN Go("read_advance", got)
        ELSE Back(TRUE, got)
  /\ UNCHANGED <<scenario, calls, disk, page, i, told>>

ReadAdvance ==
  /\ pc = "read_advance"
  /\ Hit(call.cluster)
  /\ LET next == page.ent[call.cluster]
     IN IF IsData(next) THEN Go("read", [cluster |-> next, off |-> 0])
        ELSE Back(FALSE, [result |-> -1])
  /\ UNCHANGED <<scenario, calls, disk, page, i, told>>

-----------------------------------------------------------------------------
(***************************************************************************)
(* The page is loaded when an index it does not have is wanted, and        *)
(* written first if it has changes.                                        *)
(***************************************************************************)

\* The index of the FAT that the step at pc reads or writes; 0 if none.
Wanted ==
  CASE pc \in {"lookup", "slot"} /\ Stops = {} -> call.dir.cluster
    [] pc = "scan" /\ ~Exhausted -> index
    [] \/ pc = "attach" /\ call.ok
       \/ pc = "find" /\ call.off >= Units
       \/ pc \in {"truncate", "truncate_end", "advance", "read_advance"} -> call.cluster
    [] pc = "attach_end" -> call.new
    [] pc = "free" -> call.victim
    [] OTHER -> 0

Miss == Wanted # 0 /\ ~Hit(Wanted)

\* Fault: the page is dropped with its changes.
FlushPage_Drop ==
  /\ pc = "flush" \/ Miss
  /\ page.dirty
  /\ page' = [page EXCEPT !.dirty = FALSE]
  /\ fat' = IF pc = "flush" THEN View ELSE fat
  /\ UNCHANGED <<scenario, calls, data, i, pc, call, told>>

\* fatx_flush_fat_cache
FlushPage ==
  /\ pc = "flush" \/ Miss
  /\ page.dirty
  /\ page' = [page EXCEPT !.dirty = FALSE]
  /\ fat' = View
  /\ UNCHANGED <<scenario, calls, data, i, pc, call, told>>

\* fatx_populate_fat_cache: the page begins with the index that is wanted.
LoadPage ==
  /\ Miss
  /\ ~page.dirty
  /\ page' = [ent |-> [k \in Wanted .. Smaller(Wanted + PageEntries - 1, NumClusters) |-> fat[k]],
              dirty |-> FALSE]
  /\ UNCHANGED <<scenario, calls, disk, i, pc, call, told>>

-----------------------------------------------------------------------------
(***************************************************************************)
(* fatx_fs_open, fatx_fs_read, fatx_fs_write, fatx_fs_lseek, fatx_fs_close *)
(***************************************************************************)

WrittenThrough(D, f) == \E d \in D : fds[d] # None /\ fds[d].name = f /\ fds[d].writable

\* op: "r" opens for reading, "r+" for writing, "w" also creates and truncates.
Open(d, f, op) ==
  /\ fds[d] = None
  /\ f \in scenario.names
  /\ Begin("lookup", <<IF op = "w" THEN "open_w" ELSE "opened">>, [op |-> op, fd |-> d, name |-> f])
  /\ safe' = [safe EXCEPT ![f] = IF op = "r" THEN @ ELSE None]
  /\ UNCHANGED <<scenario, disk, page, i, fds, files>>

\* fatx_mknod, unless the file exists, then O_TRUNC.
OpenCreate ==
  /\ pc = "open_w"
  /\ IF call.ok THEN Truncate("open_truncated", 0)
     ELSE Sub("alloc", <<"create">>, [zero |-> TRUE])
  /\ UNCHANGED <<scenario, calls, disk, page, i, told>>

Create ==
  /\ pc = "create"
  /\ IF call.ok THEN Go("slot", [attr |-> [first |-> call.new, size |-> 0], dir |-> NoCall.dir])
     ELSE Return(-1)
  /\ UNCHANGED <<scenario, calls, disk, page, i, told>>

CreateDirent ==
  /\ pc = "dirent"
  /\ StoreDirent
  /\ Truncate("open_truncated", 0)
  /\ UNCHANGED <<scenario, calls, fat, page, i, told>>

OpenTruncated ==
  /\ pc \in {"open_truncated", "open_failed"}
  /\ IF pc = "open_truncated" /\ call.ok THEN LookUp(<<"opened">>, NoLocals) ELSE Return(-1)
  /\ UNCHANGED <<scenario, calls, disk, page, i, told>>

\* A file that open made or truncated is empty from here on.
Opened ==
  /\ pc = "opened"
  /\ IF call.ok
     THEN /\ fds' = [fds EXCEPT ![call.fd] =
                       [name |-> call.name, cursor |-> 0, file_size |-> call.found.size,
                        writable |-> call.op # "r"]]
          /\ files' = IF call.op = "w" THEN [files EXCEPT ![call.name] = <<>>] ELSE files
          /\ Return(0)
     ELSE Return(-1) /\ UNCHANGED <<fds, files>>
  /\ UNCHANGED <<scenario, calls, disk, page, i, safe>>

FsRead(d, n) ==
  /\ fds[d] # None
  /\ Begin("lookup", <<"read_start", "read_end">>,
           [op |-> "read", fd |-> d, name |-> fds[d].name, offset |-> fds[d].cursor, n |-> n])
  /\ UNCHANGED <<scenario, disk, page, i, told>>

FsWrite(d, n) ==
  /\ fds[d] # None /\ fds[d].writable
  /\ fds[d].cursor + n <= MaxSize
  /\ Begin("lookup", <<"write_start", "fs_write_end">>,
           [op |-> "write", fd |-> d, name |-> fds[d].name, offset |-> fds[d].cursor, n |-> n])
  /\ UNCHANGED <<scenario, disk, page, i, told>>

\* fatx_fs_read and fatx_fs_write move the cursor by what was transferred.
MoveCursor == fds' = [fds EXCEPT ![call.fd].cursor = @ + Larger(call.result, 0)]

ReadEnd ==
  /\ pc = "read_end"
  /\ MoveCursor
  /\ Return(call.result)
  /\ UNCHANGED <<scenario, calls, disk, page, i, files, safe>>

\* The file old with n units of v at offset, at least size units long.  What a write beyond
\* the end leaves in between is what the clusters held.
Overwritten(old, v, offset, n, size) ==
  [k \in 1 .. size |-> IF k - 1 \in offset .. offset + n - 1 THEN v
                       ELSE IF k <= Len(old) THEN old[k] ELSE Unknown]

\* A write that fails has replaced what was there and has not made the file longer, unless it
\* began beyond its end.
FsWriteEnd ==
  /\ pc = "fs_write_end"
  /\ MoveCursor
  /\ files' = [files EXCEPT ![call.name] =
       IF call.result > 0
       THEN Overwritten(@, call.name, call.offset, call.n, Larger(Len(@), call.offset + call.n))
       ELSE Overwritten(@, call.name, call.offset, call.done, Larger(Len(@), call.attr.size))]
  /\ Return(call.result)
  /\ UNCHANGED <<scenario, calls, disk, page, i, safe>>

\* Seeks that lseek's padding is right for: within the file as it was when it was opened, or
\* beyond its end by whole chunks or less than one, if its attributes are still right and the
\* volume has the space.
FreeClusters == Cardinality({c \in 2 .. NumClusters - 1 : View[c] = AVAILABLE})
CalmSeek(d, to) ==
  \/ to <= fds[d].file_size \/ ~fds[d].writable
  \/ LET size == Len(files[fds[d].name])
         gap == to - size
     IN /\ fds[d].file_size = size
        /\ gap <= Chunk \/ gap % Chunk = 0
        /\ gap <= Units * FreeClusters

\* lseek (SEEK_SET) beyond the size the file had at open pads it with zeroes.
FsLseek(d, to) ==
  /\ fds[d] # None
  /\ scenario.anySeek \/ CalmSeek(d, to)
  /\ LET end == fds[d].file_size
         pads == fds[d].writable /\ to > end
     IN /\ Begin(IF pads THEN "pad" ELSE "lseek_end", <<>>,
                 [op |-> "lseek", fd |-> d, name |-> fds[d].name, to |-> to,
                  end |-> end, left |-> IF pads THEN to - end ELSE 0,
                  chunk |-> IF pads THEN Smaller(to - end, Chunk) ELSE 0])
        /\ fds' = [fds EXCEPT ![d].cursor = IF pads THEN end ELSE @]
  /\ UNCHANGED <<scenario, disk, page, i, files, safe>>

Pad ==
  /\ pc = "pad"
  /\ IF call.left # 0 THEN fatx_write("padded", call.end, call.chunk) ELSE LookUp(<<"pad_end">>, NoLocals)
  /\ UNCHANGED <<scenario, calls, disk, page, i, told>>

\* The result is taken for a count even if it is -1.
Padded ==
  /\ pc = "padded"
  /\ IF call.result = 0 THEN Return(-1)
     ELSE Go("pad", [end |-> call.end + call.result, left |-> call.left - call.result])
  /\ UNCHANGED <<scenario, calls, disk, page, i, told>>

PadEnd ==
  /\ pc = "pad_end"
  /\ Go("lseek_end", NoLocals)
  /\ fds' = [fds EXCEPT ![call.fd].file_size = IF call.ok THEN call.found.size ELSE @]
  /\ UNCHANGED <<scenario, calls, disk, page, i, files, safe>>

\* "Pad out the file with zeroes if seek past end"
LseekEnd ==
  /\ pc = "lseek_end"
  /\ fds' = [fds EXCEPT ![call.fd].cursor = call.to]
  /\ files' = [files EXCEPT ![call.name] =
       IF call.chunk > 0
       THEN Overwritten(@, Zero, Len(@), call.to - Len(@), Larger(Len(@), call.to)) ELSE @]
  /\ Return(call.to)
  /\ UNCHANGED <<scenario, calls, disk, page, i, safe>>

Close(d) ==
  /\ fds[d] # None
  /\ Begin(IF fds[d].writable THEN "flush" ELSE "closed", <<>>,
           [op |-> "close", fd |-> d, name |-> fds[d].name])
  /\ UNCHANGED <<scenario, disk, page, i, told>>

\* Fault: the page is not written when a file is closed.
Flushed_Anyway ==
  /\ pc = "flush"
  /\ Go("closed", NoLocals)
  /\ UNCHANGED <<scenario, calls, disk, page, i, told>>

Flushed ==
  /\ pc = "flush"
  /\ ~page.dirty
  /\ Go("closed", NoLocals)
  /\ UNCHANGED <<scenario, calls, disk, page, i, told>>

\* Closing a file that was written keeps every file that nobody else writes.
Closed ==
  /\ pc = "closed"
  /\ fds' = [fds EXCEPT ![call.fd] = None]
  /\ safe' = IF ~fds[call.fd].writable THEN safe
             ELSE [f \in Names |->
                     IF WrittenThrough(Fds \ {call.fd}, f) THEN None ELSE files[f]]
  /\ Return(0)
  /\ UNCHANGED <<scenario, calls, disk, page, i, files>>

Finish ==
  /\ pc = "return"
  /\ pc' = "idle"
  /\ call' = NoCall
  /\ UNCHANGED <<scenario, calls, disk, page, i, told>>

\* An allocation on another volume: they share the allocator's index.
OtherVolume ==
  /\ pc = "idle"
  /\ calls < scenario.calls
  /\ calls' = calls + 1
  /\ i' \in Indices
  /\ UNCHANGED <<scenario, disk, page, pc, call, told>>

-----------------------------------------------------------------------------
XInit ==
  /\ scenario \in Scenarios
  /\ calls = 0
  /\ fat = Volumes[scenario.volume].fat
  /\ data = Volumes[scenario.volume].data
  /\ files = Volumes[scenario.volume].files
  /\ safe = files
  /\ page = NoPage
  /\ i = 2
  /\ fds = [d \in Fds |-> None]
  /\ pc = "idle"
  /\ call = NoCall

Step ==
  \/ Lookup \/ FindSlot \/ MarkEnd \/ DirGrown
  \/ Alloc \/ Scan \/ ZeroCluster \/ Attach \/ AttachEnd \/ FreeChain
  \/ TruncateStart \/ TruncateWalk \/ TruncateGrown \/ TruncateEnd \/ SetAttr
  \/ Find \/ FindGrown \/ WriteStart \/ WriteExtended \/ Write \/ WriteAdvance \/ WriteGrown
  \/ WriteEnd \/ ReadStart \/ Read \/ ReadAdvance
  \/ FlushPage \/ LoadPage
  \/ OpenCreate \/ Create \/ CreateDirent \/ OpenTruncated \/ Opened
  \/ ReadEnd \/ FsWriteEnd \/ Pad \/ Padded \/ PadEnd \/ LseekEnd \/ Flushed \/ Closed
  \/ Finish

FsCall ==
  \E d \in Fds :
    \/ \E f \in Names, op \in {"r", "r+", "w"} : Open(d, f, op)
    \/ \E n \in Lengths : FsRead(d, n) \/ FsWrite(d, n)
    \/ \E to \in scenario.seeks : FsLseek(d, to)
    \/ Close(d)

XNext == FsCall \/ Step \/ OtherVolume

\* A call that was made goes on.
XSpec == XInit /\ [][XNext]_xvars /\ WF_xvars(Step)

-----------------------------------------------------------------------------
(***************************************************************************)
(* Properties                                                              *)
(***************************************************************************)

\* The k-th cluster after c in the chains of the FAT v, 0 after the last.
Nth(v, c) ==
  LET next[k \in 0 .. NumClusters] ==
        IF k = 0 THEN c ELSE IF next[k - 1] # 0 /\ IsData(v[next[k - 1]]) THEN v[next[k - 1]] ELSE 0
  IN next

ChainOf(v, c) == LET nth == Nth(v, c) IN {nth[k] : k \in 0 .. NumClusters} \ {0}

\* The entries of the directory before the mark that ends it, as a mount of the FAT v and the
\* clusters d sees them.
Listed(v, d) ==
  LET cluster == Nth(v, root_cluster)
      Unit(p) == d[cluster[p \div Units]][p % Units]
      positions == {p \in 0 .. Units * (NumClusters + 1) - 1 : cluster[p \div Units] # 0}
      ends == {p \in positions : IsEnd(Unit(p))}
  IN {Unit(p) : p \in {q \in positions : IsEntry(Unit(q)) /\ \A r \in ends : q < r}}

\* What a mount reads from the file of entry u.
Contents(v, d, u) ==
  LET nth == Nth(v, u.first)
  IN [k \in 1 .. u.size |-> d[nth[(k - 1) \div Units]][(k - 1) % Units]]

Matches(seq, promised) ==
  /\ DOMAIN seq = DOMAIN promised
  /\ \A k \in DOMAIN seq : promised[k] \in {Unknown, seq[k]}

\* A mount finds the file f with the contents it was promised.
Holds(v, d, f, promised) ==
  LET entries == {u \in Listed(v, d) : u.name = f}
  IN IF promised = None THEN entries = {}
     ELSE /\ Cardinality(entries) = 1
          /\ \A u \in entries : /\ u.size <= Units * Cardinality(ChainOf(v, u.first))
                                /\ Matches(Contents(v, d, u), promised)

\* The clusters in use are exactly those of the directory's and the files' chains, which end and
\* have no cluster in common.
Accounted(v, d) ==
  LET heads == {root_cluster} \cup {u.first : u \in Listed(v, d)}
  IN /\ \A u, w \in Listed(v, d) : u.first # root_cluster /\ (u # w => u.first # w.first)
     /\ \A c, e \in heads : c # e => ChainOf(v, c) \cap ChainOf(v, e) = {}
     /\ \A c \in heads : \E e \in ChainOf(v, c) : v[e] = END
     /\ UNION {ChainOf(v, c) : c \in heads} = {c \in Clusters : IsData(v[c]) \/ v[c] = END}

\* The types of the disk, the page, the allocator's index and the open files.
XTypeOK ==
  /\ scenario \in Scenarios
  /\ fat \in [FatIndices -> Entries] /\ data \in [Clusters -> [Slots -> UnitValues]]
  /\ DOMAIN page.ent \subseteq FatIndices /\ page.dirty \in BOOLEAN
  /\ i \in 2 .. NumClusters \cup Indices
  /\ \A d \in Fds : fds[d] = None \/ fds[d] \in OpenFiles
  /\ call.fd \in Fds \cup {None}

\* The files a volume has before the first call.
Known(v) == {f \in Names : Volumes[v].files[f] # None}

\* The slots of a directory's cluster before the mark that ends it.
Before(slots) == {e \in Slots : \A r \in 0 .. e : ~IsEnd(slots[r])}

\* The volumes are FATX volumes: their directories have entries, each of them once, and deleted
\* ones before the mark that ends them, their files are what the callers know of them.
ASSUME VolumesAssumption ==
  \A v \in DOMAIN Volumes :
    LET V == Volumes[v]
        root == V.data[root_cluster]
    IN /\ V.fat \in [FatIndices -> Entries] /\ V.data \in [Clusters -> [Slots -> UnitValues]]
       /\ DOMAIN V.files = Names
       /\ Accounted(V.fat, V.data)
       /\ \A f \in Names : Holds(V.fat, V.data, f, V.files[f])
       /\ \A e \in Before(root) :
            /\ root[e] \notin Names
            /\ IsEntry(root[e]) => \A r \in Before(root) : root[r] = root[e] => r = e

\* The directory has one cluster and does not fill it.
Calm ==
  /\ Volumes[scenario.volume].fat[root_cluster] = END
  /\ Cardinality(scenario.names \cup Known(scenario.volume)) < Units

\* Between calls the files are what the callers were told, and a read gives what is in the file,
\* also on a volume that has become full.
Promised ==
  /\ pc = "idle" => \A f \in Names : Holds(View, data, f, files[f])
  /\ pc = "read_end" /\ call.result > 0 =>
       Matches(call.buf, SubSeq(files[call.name], call.offset + 1, Smaller(call.offset + call.n, Len(files[call.name]))))

FilesAsPromised == Calm => Promised

\* Between calls every cluster in use is accounted for.
ClustersAccounted == Calm /\ pc = "idle" => Accounted(View, data)

\* A step of a call changes no entry of another file, and neither the FAT nor the contents of the
\* clusters in another file's chain: what two files have in common is only the directory.
OthersUntouched ==
  [][Calm =>
       LET old == {u \in Listed(View, data) : u.name # call.name}
       IN /\ old = {u \in Listed(View', data') : u.name # call.name}
          /\ \A u \in old : \A c \in ChainOf(View, u.first) : View'[c] = View[c] /\ data'[c] = data[c]]_xvars

\* A file that was closed since it was written is on the disk: what the page has changed and the
\* disk does not have yet is about other files.
ClosedOnDisk ==
  Calm => /\ Listed(fat, data) = Listed(View, data)
          /\ \A u \in Listed(View, data) :
               safe[u.name] # None => \A c \in ChainOf(View, u.first) : fat[c] = View[c]

\* "Xbox can turn off any time": whenever it does, the files that were closed are on the disk.
ClosedSurvives == Calm => \A f \in Names : safe[f] # None => Holds(fat, data, f, safe[f])

\* Every call returns, on a full volume too, if allocations on larger volumes have not taken the
\* index beyond this one.
CallsEnd == pc # "idle" ~> pc = "idle"

=============================================================================
