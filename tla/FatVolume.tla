------------------------------ MODULE FatVolume ------------------------------
(***************************************************************************)
(* A FAT volume mounted by the I/O manager: storage/core/manager.c and     *)
(* transaction.c over storage/fat/driver.c, named.c and mutation.c.        *)
(*                                                                         *)
(* A call runs to its end before the next one starts, but it writes the    *)
(* disk one sector at a time: every write and every flush is a step of its *)
(* own that may fail, and the machine may stop between any two of them and *)
(* be started again.  A call that is refused and changes nothing is no     *)
(* step.  An open file stands for the manager's slot and the driver's.     *)
(***************************************************************************)
EXTENDS FatDisk

CONSTANTS
  FileSlots,            \* 1 .. n: IOMGR_MAX_FILES and FAT_NAMED_FILE_SLOTS
  MaxSectors,           \* IOMGR_TRANSACTION_MAX_SECTORS
  Values, Times,        \* what is written to files and to their dates
  Attributes,           \* subset of BOOLEAN: read-only files may be created
  MountModes,           \* subset of BOOLEAN: mounts that allow writing
  InterruptTruncation   \* the machine may stop while a file is cut to nothing

ASSUME VolumeAssumption ==
  /\ FileSlots \subseteq Nat \ {0} /\ MaxSectors \in Nat
  /\ Values \subseteq Nat /\ Times \subseteq Nat
  /\ Attributes \subseteq BOOLEAN /\ MountModes \subseteq BOOLEAN
  /\ InterruptTruncation \in BOOLEAN

VARIABLES
  disk,    \* [Lbas -> sector]
  volume,  \* the mounted volume: the manager's slot and the driver's
  files,   \* [FileSlots -> open file]
  op,      \* the mutation in progress
  damage,  \* history: "none", "torn" by an interruption, "unknown" after a
           \* rollback that failed, "landed" after a write that was reported
           \* as failed had reached the disk, "stale" after a write through
           \* an open file whose file is gone
  stale    \* history: the open files whose file was created over or moved
           \* to another directory since

history == <<damage, stale>>
vars    == <<disk, volume, files, op, damage, stale>>

NoVolume == [state |-> "free", writable |-> FALSE, hint |-> 2,
             known |-> FALSE, free |-> 0]

Closed == [live |-> FALSE, pos |-> NoPos, first |-> 0, size |-> 0, time |-> 0,
           writable |-> FALSE, cursorValid |-> FALSE, cursor |-> 0, index |-> 0]

(* No mutation.  zero: clusters to clear before the commit; writes: the    *)
(* mutation cache; before: what stage read; n: the next sector; h, file:   *)
(* the open file to publish on success; delta: change of the free count;   *)
(* history: the entry that other open files lose and the failed write.     *)
NoOp == [step |-> "idle", zero |-> <<>>, writes |-> <<>>, before |-> <<>>, n |-> 0,
         restored |-> TRUE, h |-> 0, file |-> Closed, delta |-> 0, truncates |-> FALSE,
         detaches |-> NoPos, failed |-> 0]

Init ==
  /\ disk = Formatted
  /\ volume = NoVolume
  /\ files = [h \in FileSlots |-> Closed]
  /\ op = NoOp
  /\ damage = "none"
  /\ stale = {}

Idle     == op.step = "idle"
Ready    == volume.state = "live" /\ Idle       \* resolve_volume
Writable == Ready /\ volume.writable

-----------------------------------------------------------------------------
(* The volume. *)

(* A mounted volume searches from its first cluster and has not counted    *)
(* what is free.                                                           *)
Mounted(w) == [NoVolume EXCEPT !.state = "live", !.writable = w,
                               !.hint = 2, !.known = FALSE]

Mount ==
  /\ Idle /\ volume.state = "free"
  /\ \E w \in MountModes : volume' = Mounted(w)
  /\ UNCHANGED <<disk, files, op, history>>

Unmount ==
  /\ Ready /\ \A h \in FileSlots : ~files[h].live
  /\ volume' = NoVolume
  /\ UNCHANGED <<disk, files, op, history>>

(* query_space counts the free entries once and trusts the count later. *)
QuerySpace ==
  /\ Ready /\ ~volume.known
  /\ \A c \in Clusters : FatEntry(disk, c) # Corrupt
  /\ volume' = [volume EXCEPT !.known = TRUE,
                  !.free = Cardinality({c \in Clusters : FatEntry(disk, c) = Free})]
  /\ UNCHANGED <<disk, files, op, history>>

(* fat_driver_adjust_free_clusters. *)
Adjusted(v, delta) ==
  IF ~v.known THEN v
  ELSE IF v.free + delta \in 0 .. ClusterCount THEN [v EXCEPT !.free = @ + delta]
  ELSE [v EXCEPT !.known = FALSE]

-----------------------------------------------------------------------------
(* Open files. *)

NextSlot == IF \E h \in FileSlots : ~files[h].live
              THEN Min({h \in FileSlots : ~files[h].live}) ELSE 0

(* The open file for entry e at position p. *)
Opened(p, e) ==
  [Closed EXCEPT !.live = TRUE, !.pos = p, !.first = e.first, !.size = e.size,
     !.time = e.time, !.cursorValid = e.first # 0, !.cursor = e.first]

Open ==
  /\ Ready /\ NextSlot # 0
  /\ \E path \in Paths :
       LET p == LookUp(disk, path)
           e == At(disk, p)
       IN  /\ p # NoPos /\ e.tag = "file"
           /\ e.size # 0 => e.first \in Clusters
           /\ files' = [files EXCEPT ![NextSlot] = Opened(p, e)]
  /\ UNCHANGED <<disk, volume, op, history>>

Close ==
  /\ Ready
  /\ \E h \in FileSlots :
       /\ files[h].live /\ files' = [files EXCEPT ![h] = Closed]
       /\ stale' = stale \ {h}
  /\ UNCHANGED <<disk, volume, op, damage>>

(* Where a walk to the i-th cluster starts: at the cursor if that is not   *)
(* past it, else at the file's first cluster.                              *)
Start(f, i) == IF f.cursorValid /\ f.index <= i
                 THEN [cluster |-> f.cursor, index |-> f.index]
                 ELSE [cluster |-> f.first, index |-> 0]

Read ==
  /\ Ready
  /\ \E h \in FileSlots : \E i \in 0 .. files[h].size - 1 :
       LET f == files[h]
           s == Start(f, i)
           c == Nth(disk, s.cluster, i - s.index)
       IN  /\ f.live /\ c \in Clusters
           /\ files' = [files EXCEPT ![h].cursorValid = TRUE,
                          ![h].cursor = c, ![h].index = i]
  /\ UNCHANGED <<disk, volume, op, history>>

-----------------------------------------------------------------------------
(* The mutations: each prepares its sectors from what it reads and hands   *)
(* them to the commit below.                                               *)

Begin(o) == op' = [o EXCEPT !.step = IF o.zero = <<>> THEN "stage" ELSE "zero", !.n = 1]

Hint(allocation) == volume' = [volume EXCEPT !.hint = allocation.hint]

NewFile(p) == [Closed EXCEPT !.live = TRUE, !.pos = p, !.writable = TRUE]

(* create_file on a name that exists: its clusters are freed and its entry *)
(* is written afresh, the table sectors first.  s is what the scan of the  *)
(* name's directory found.  Nobody asks whether the file is open.          *)
Truncate(path, s, ro) ==
  LET p == s.pos
      e == At(disk, p)
      writes == WithEntry(WithChainFreed(<<>>, disk, e.first), disk, p,
                          Dirent("file", Last(path), 0, ro))
  IN  /\ Writable /\ NextSlot # 0 /\ s.ok /\ s.found
      /\ e.tag = "file" /\ ~e.ro
      /\ e.first # 0 => ChainEnd(disk, e.first) = Eoc
      /\ Begin([NoOp EXCEPT !.writes = writes, !.h = NextSlot, !.file = NewFile(p),
                  !.delta = Len(Chain(disk, e.first)), !.truncates = e.first # 0,
                  !.detaches = p])
      /\ UNCHANGED <<disk, volume, files, history>>

(* On a new name, in an entry the directory can reuse. *)
CreateInPlace(path, s, ro) ==
  /\ Writable /\ NextSlot # 0 /\ s.ok /\ ~s.found /\ s.free # NoPos
  /\ Begin([NoOp EXCEPT
              !.writes = WithEntry(<<>>, disk, s.free,
                                   Dirent("file", Last(path), 0, ro)),
              !.h = NextSlot, !.file = NewFile(s.free)])
  /\ UNCHANGED <<disk, volume, files, history>>

(* The sectors that append cluster x to the chain that ends in last. *)
WithLink(cache, d, last, x) == WithFat(WithFat(cache, d, x, Eoc), d, last, x)

(* On a new name, in a cluster added to a full subdirectory. *)
CreateExtending(path, s, ro) ==
  LET a == FreeFrom(disk, volume.hint, 1)
      x == a.clusters[1]
      d == Zeroed(disk, {x})
  IN  /\ Writable /\ NextSlot # 0
      /\ s.ok /\ ~s.found /\ s.free = NoPos /\ s.dir # 0
      /\ a.ok /\ Hint(a)
      /\ Begin([NoOp EXCEPT !.zero = <<x>>,
                  !.writes = WithEntry(WithLink(<<>>, d, s.last, x), d, <<Data(x), 1>>,
                                       Dirent("file", Last(path), 0, ro)),
                  !.h = NextSlot, !.file = NewFile(<<Data(x), 1>>), !.delta = -1])
      /\ UNCHANGED <<disk, files, history>>

(* The data sector, the table entries that link a new cluster to the one   *)
(* before it, 0 being none, and the file's directory entry, in this order. *)
Written(d, f, i, v, c, isNew, before) ==
  LET data  == Put(<<>>, Data(c), [Blank EXCEPT !.data = v])
      table == IF ~isNew THEN data
               ELSE IF before = 0 THEN WithFat(data, d, c, Eoc)
               ELSE WithLink(data, d, before, c)
      first == IF f.first = 0 THEN c ELSE f.first
      size  == Max({f.size, i + 1})
  IN  [NoOp EXCEPT
         !.writes = WithEntry(table, d, f.pos,
                      [At(d, f.pos) EXCEPT !.first = first, !.size = size]),
         !.file = [f EXCEPT !.first = first, !.size = size, !.cursorValid = TRUE,
                     !.cursor = c, !.index = i]]

(* Where the i-th sector of a file lies: its cluster, or Eoc when one has  *)
(* to be added behind the cluster before; anything else is refused.        *)
Target(f, i) ==
  IF f.first = 0 THEN [cluster |-> IF f.size = 0 THEN Eoc ELSE Corrupt, before |-> 0]
  ELSE LET s == Start(f, i)
           n == i - s.index
           c == Nth(disk, s.cluster, n)
           b == Nth(disk, s.cluster, n - 1)
       IN  IF c = Eoc /\ i = f.size /\ b \in Clusters
             THEN [cluster |-> Eoc, before |-> b]
             ELSE [cluster |-> IF c = Eoc THEN Corrupt ELSE c, before |-> 0]

(* An open file is written as it was when it was last used, whatever has   *)
(* become of its entry.                                                    *)
WritesThrough(h) ==
  /\ damage' = IF h \in stale THEN "stale" ELSE damage
  /\ UNCHANGED stale

Overwrite(h, i, v) ==
  LET f == files[h]
      t == Target(f, i)
  IN  /\ Writable /\ f.live /\ f.writable
      /\ t.cluster \in Clusters
      /\ Begin([Written(disk, f, i, v, t.cluster, FALSE, 0) EXCEPT !.h = h])
      /\ WritesThrough(h) /\ UNCHANGED <<disk, volume, files>>

Extend(h, i, v) ==
  LET f == files[h]
      t == Target(f, i)
      a == FreeFrom(disk, volume.hint, 1)
      x == a.clusters[1]
  IN  /\ Writable /\ f.live /\ f.writable
      /\ t.cluster = Eoc /\ a.ok /\ Hint(a)
      /\ Begin([Written(Zeroed(disk, {x}), f, i, v, x, TRUE, t.before)
                  EXCEPT !.h = h, !.zero = <<x>>, !.delta = -1])
      /\ WritesThrough(h) /\ UNCHANGED <<disk, files>>

(* set_file_info: the entry must still be the one that was opened. *)
SetModified(h, t) ==
  LET f == files[h]
      e == At(disk, f.pos)
  IN  /\ Writable /\ f.live /\ f.writable
      /\ e.tag = "file" /\ e.first = f.first /\ e.size = f.size
      /\ Begin([NoOp EXCEPT
                  !.writes = WithEntry(<<>>, disk, f.pos, [e EXCEPT !.time = t]),
                  !.h = h, !.file = [f EXCEPT !.time = t]])
      /\ WritesThrough(h) /\ UNCHANGED <<disk, volume, files>>

WithDirectory(cache, d, dir, child) ==
  WithEntry(WithEntry(cache, d, <<Data(child), 1>>, Dirent("dir", ".", child, FALSE)),
            d, <<Data(child), 2>>, Dirent("dir", "..", dir, FALSE))

(* create_directory: one cluster for the new directory and, when its       *)
(* parent is full, one to extend the parent.                               *)
MakeDirectory(path, s) ==
  LET grow  == s.free = NoPos
      a     == FreeFrom(disk, volume.hint, IF grow THEN 2 ELSE 1)
      child == a.clusters[1]
      x     == a.clusters[2]
      d     == Zeroed(disk, Range(a.clusters))
      own   == WithFat(<<>>, d, child, Eoc)
      table == IF grow THEN WithLink(own, d, s.last, x) ELSE own
  IN  /\ Writable /\ s.ok /\ ~s.found
      /\ grow => s.dir # 0
      /\ a.ok /\ Hint(a)
      /\ Begin([NoOp EXCEPT !.zero = a.clusters, !.delta = -Len(a.clusters),
                  !.writes = WithEntry(WithDirectory(table, d, s.dir, child), d,
                               IF grow THEN <<Data(x), 1>> ELSE s.free,
                               Dirent("dir", Last(path), child, FALSE))])
      /\ UNCHANGED <<disk, files, history>>

(* Fault: a file that moves keeps its old entry. *)
RenameCopies(s, t, new) ==
  LET e == At(disk, s.pos)
      moved == [e EXCEPT !.name = Last(new)]
  IN  /\ Writable /\ s.ok /\ s.found /\ t.ok /\ ~t.found /\ e.tag = "file"
      /\ s.dir # t.dir /\ t.free # NoPos
      /\ Begin([NoOp EXCEPT !.writes = WithEntry(<<>>, disk, t.free, moved)])
      /\ UNCHANGED <<disk, volume, files, history>>

(* rename: in its directory an entry only changes its name; a file moves   *)
(* to another directory when that has an entry to reuse.                   *)
Rename(s, t, new) ==
  LET p == s.pos
      e == At(disk, p)
      moved == [e EXCEPT !.name = Last(new)]
  IN  /\ Writable /\ s.ok /\ s.found /\ t.ok /\ ~t.found
      /\ IF s.dir = t.dir
           THEN Begin([NoOp EXCEPT !.writes = WithEntry(<<>>, disk, p, moved)])
           ELSE /\ e.tag = "file" /\ t.free # NoPos
                /\ Begin([NoOp EXCEPT !.detaches = p, !.writes =
                     WithEntry(WithEntry(<<>>, disk, p, Deleted), disk, t.free, moved)])
      /\ UNCHANGED <<disk, volume, files, history>>

-----------------------------------------------------------------------------
(* The device.  A write that is reported as failed left the sector alone,  *)
(* or reached it before the wait or the flush behind it failed.            *)

WriteOk(l, sector) == disk' = [disk EXCEPT ![l] = sector]

WriteFails(l, sector) == UNCHANGED disk \/ WriteOk(l, sector)

(* The call returns an error; what it changed on the disk was free space. *)
Return == op' = NoOp

ZeroWrite ==
  /\ op.step = "zero"
  /\ LET l == Data(op.zero[op.n]) IN
     \/ /\ WriteOk(l, Blank)
        /\ op' = IF op.n = Len(op.zero) THEN [op EXCEPT !.step = "sync"]
                 ELSE [op EXCEPT !.n = @ + 1]
     \/ WriteFails(l, Blank) /\ Return
  /\ UNCHANGED <<volume, files, history>>

ZeroFlush ==
  /\ op.step = "sync"
  /\ op' = [op EXCEPT !.step = "stage"] \/ Return
  /\ UNCHANGED <<disk, volume, files, history>>

(* Fault: the transaction's table is not checked for room. *)
StageUnbounded ==
  /\ op.step = "stage"
  /\ op' = [op EXCEPT !.step = "write", !.n = 1,
              !.before = [i \in DOMAIN op.writes |-> disk[op.writes[i].lba]]]
  /\ UNCHANGED <<disk, volume, files, history>>

(* commit_cache: begin, then stage every sector, which reads what it has   *)
(* to put back.  A sector too many or one that cannot be read aborts.      *)
Stage ==
  /\ op.step = "stage"
  /\ \/ /\ Len(op.writes) <= MaxSectors
        /\ op' = [op EXCEPT !.step = "write", !.n = 1,
                    !.before = [i \in DOMAIN op.writes |-> disk[op.writes[i].lba]]]
     \/ Return
  /\ UNCHANGED <<disk, volume, files, history>>

(* Fault: the rollback starts one sector too low. *)
CommitWriteUndoShort ==
  /\ op.step = "write"
  /\ LET w == op.writes[op.n] IN
     \/ /\ WriteOk(w.lba, w.after) /\ UNCHANGED damage
        /\ op' = IF op.n = Len(op.writes) THEN [op EXCEPT !.step = "flush"]
                 ELSE [op EXCEPT !.n = @ + 1]
     \/ /\ WriteFails(w.lba, w.after)
        /\ damage' = IF disk' = disk THEN damage ELSE "landed"
        /\ op' = [op EXCEPT !.step = "undo", !.failed = op.n,
                              !.n = IF @ > 2 THEN @ - 2 ELSE 0]
  /\ UNCHANGED <<volume, files, stale>>

(* The sectors in order; at the first that fails the ones before it are    *)
(* rolled back, and not the failed one itself.                             *)
CommitWrite ==
  /\ op.step = "write"
  /\ LET w == op.writes[op.n] IN
     \/ /\ WriteOk(w.lba, w.after) /\ UNCHANGED damage
        /\ op' = IF op.n = Len(op.writes) THEN [op EXCEPT !.step = "flush"]
                 ELSE [op EXCEPT !.n = @ + 1]
     \/ /\ WriteFails(w.lba, w.after)
        /\ damage' = IF disk' = disk THEN damage ELSE "landed"
        /\ op' = [op EXCEPT !.step = "undo", !.failed = op.n, !.n = @ - 1]
  /\ UNCHANGED <<volume, files, stale>>

(* The open files of an entry that was created over or moved away. *)
Detached == {h \in FileSlots : files[h].live /\ files[h].pos = op.detaches}

(* Fault: a write does not publish the new size of its file. *)
CommitFlushOldFile ==
  /\ op.step = "flush"
  /\ \/ /\ Return
        /\ volume' = Adjusted(volume, op.delta) /\ stale' = stale \cup Detached
        /\ files' = IF op.h = 0 \/ files[op.h].live THEN files
                    ELSE [files EXCEPT ![op.h] = op.file]
     \/ op' = [op EXCEPT !.step = "undo"] /\ UNCHANGED <<volume, files, stale>>
  /\ UNCHANGED <<disk, damage>>

(* The flush that succeeds makes the mutation final; the driver then       *)
(* adjusts its free count and publishes the open file.                     *)
CommitFlush ==
  /\ op.step = "flush"
  /\ \/ /\ Return
        /\ volume' = Adjusted(volume, op.delta) /\ stale' = stale \cup Detached
        /\ files' = IF op.h = 0 THEN files ELSE [files EXCEPT ![op.h] = op.file]
     \/ op' = [op EXCEPT !.step = "undo"] /\ UNCHANGED <<volume, files, stale>>
  /\ UNCHANGED <<disk, damage>>

(* rollback: the sectors written, last first, then a flush. *)
UndoWrite ==
  /\ op.step = "undo" /\ op.n > 0
  /\ LET l == op.writes[op.n].lba
         sector == op.before[op.n]
     IN \/ /\ WriteOk(l, sector)
           /\ op' = [op EXCEPT !.n = @ - 1] /\ UNCHANGED damage
        \/ /\ WriteFails(l, sector)
           /\ op' = [op EXCEPT !.n = @ - 1, !.restored = FALSE]
           /\ damage' = "unknown"
  /\ UNCHANGED <<volume, files, stale>>

(* Whatever could not be put back quarantines transaction and volume. *)
UndoFlush ==
  /\ op.step = "undo" /\ op.n = 0
  /\ \/ op.restored /\ Return /\ UNCHANGED <<volume, damage>>
     \/ /\ op' = [op EXCEPT !.step = "lost"]
        /\ volume' = [volume EXCEPT !.state = "quarantined"]
        /\ damage' = "unknown"
  /\ UNCHANGED <<disk, files, stale>>

-----------------------------------------------------------------------------
Committing == op.step \in {"write", "flush", "undo"}

(* The machine stops and starts again with what is on the disk. *)
Interrupt ==
  /\ volume.state # "free"
  /\ InterruptTruncation \/ ~(op.truncates /\ Committing)
  /\ volume' = NoVolume
  /\ files' = [h \in FileSlots |-> Closed]
  /\ op' = NoOp
  /\ damage' = IF damage = "none" /\ Committing THEN "torn" ELSE damage
  /\ stale' = {}
  /\ UNCHANGED disk

Mutate ==
  \/ \E path \in Paths :
       LET s == Find(disk, path) IN
       \/ \E ro \in Attributes : \/ Truncate(path, s, ro)
                                 \/ CreateInPlace(path, s, ro)
                                 \/ CreateExtending(path, s, ro)
       \/ MakeDirectory(path, s)
       \/ \E new \in Paths : Rename(s, Find(disk, new), new)
  \/ \E h \in FileSlots : \/ \E i \in 0 .. files[h].size, v \in Values :
                               Overwrite(h, i, v) \/ Extend(h, i, v)
                          \/ \E t \in Times : SetModified(h, t)

Next ==
  \/ Mount \/ Unmount \/ QuerySpace
  \/ Open \/ Close \/ Read
  \/ Writable /\ Mutate
  \/ ZeroWrite \/ ZeroFlush \/ Stage \/ CommitWrite \/ CommitFlush
  \/ UndoWrite \/ UndoFlush
  \/ Interrupt

Spec == Init /\ [][Next]_vars

-----------------------------------------------------------------------------
(* Properties. *)

Entries == [tag : {"end", "deleted", "file", "dir"}, name : {Last(p) : p \in Paths} \cup {"", ".", ".."},
            first : Clusters \cup {0}, size : 0 .. ClusterCount, ro : BOOLEAN,
            time : Times \cup {0}]

SectorType(l, x) ==
  CASE l[1] = "fat"  -> \A c \in DOMAIN x : x[c] \in Clusters \cup {Free, Eoc}
    [] l[1] = "root" -> \A i \in 1 .. RootEntries : x.ents[i] \in Entries
    [] l[1] = "data" -> /\ x.data \in Values \cup {0}
                        /\ \A i \in 1 .. DirEntries : x.ents[i] \in Entries

(* Every sector holds what its place on the disk is for, and the mutation  *)
(* in progress stays inside the transaction's fixed table.                 *)
TypeOK ==
  /\ DOMAIN disk = Lbas /\ \A l \in Lbas : SectorType(l, disk[l])
  /\ volume.state \in {"free", "live", "quarantined"}
  /\ volume.hint \in Clusters /\ volume.free \in 0 .. ClusterCount
  /\ damage \in {"none", "torn", "unknown", "landed", "stale"}
  /\ stale \subseteq {h \in FileSlots : files[h].live}
  /\ Committing => /\ Len(op.writes) <= MaxSectors /\ op.n \in 0 .. Len(op.writes)
                   /\ \A i \in DOMAIN op.writes :
                        SectorType(op.writes[i].lba, op.writes[i].after)

(* Everything that has a name on disk d, with its entry and its clusters. *)
Named(d, path, p) == [path |-> path, pos |-> p, entry |-> At(d, p),
                      chain |-> Chain(d, At(d, p).first)]
Tree(d) == {Named(d, x[1], x[2]) :
              x \in {y \in {<<p, Resolve(d, p)>> : p \in Paths} : y[2] # NoPos}}

(* "On-disk mutations update both FATs and use an order that cannot create *)
(* a cross-linked live file after interruption": no two names share a      *)
(* cluster, whenever the machine was stopped, as long as no rollback has   *)
(* failed, no write landed that was reported as failed (QuarantineHolds)   *)
(* and nobody wrote through an open file whose file is gone.               *)
NoCrossLink ==
  Idle /\ damage \in {"none", "torn"} =>
    LET tree == Tree(disk) IN
    \A x, y \in tree : x.path # y.path => Range(x.chain) \cap Range(y.chain) = {}

(* Nothing is cross-linked, and without such an interruption the volume is *)
(* sound: the copies of the table agree, a chain is as long as its file,   *)
(* every cluster in use belongs to a name, and the remembered free count   *)
(* is the true one.                                                        *)
Sound ==
  /\ NoCrossLink
  /\ Idle /\ damage = "none" =>
      LET tree == Tree(disk)
          used == {c \in Clusters : FatEntry(disk, c) # Free}
      IN  /\ \A c \in Clusters : FatEntry(disk, c) # Corrupt
          /\ \A x \in tree :
               /\ x.entry.first # 0 => ChainEnd(disk, x.entry.first) = Eoc
               /\ x.entry.tag = "file" => Len(x.chain) = x.entry.size
          /\ used = UNION {Range(x.chain) : x \in tree}
          /\ volume.known => volume.free = ClusterCount - Cardinality(used)

(* HandlesFollow: an open file still is the file it was opened on, while   *)
(* that file grows, is renamed and others are created, moved and cut: the  *)
(* entry it will update is that file's, with the size and the first        *)
(* cluster it will write there, and its cursor lies on the file's chain.   *)
(* The files that create_file and rename take away from under it, without  *)
(* a check of their own, are the only ones it may lose (stale).            *)
HandlesFollow ==
  Idle /\ damage = "none" =>
    \A h \in FileSlots \ stale : files[h].live =>
      LET f == files[h]
          e == At(disk, f.pos)
      IN  /\ e.tag = "file"
          /\ f.writable => f.first = e.first /\ f.size = e.size
          /\ f.size <= e.size /\ f.first \in {0, e.first}
          /\ f.cursorValid => Nth(disk, e.first, f.index) = f.cursor

(* The rollback of this step ends with the volume in use. *)
RolledBack == op.step = "undo" /\ op'.step = "idle" /\ volume'.state = "live"

(* QuarantineHolds: "enter a sticky poisoned state if rollback cannot      *)
(* prove restoration" (docs/CODING_STYLE.md:75): a commit that fails and   *)
(* leaves the volume in use has put every sector of the transaction back.  *)
QuarantineHolds ==
  [][RolledBack =>
       \A i \in DOMAIN op.writes : disk'[op.writes[i].lba] = op.before[i]]_vars

(* Quarantines: what rollback and quarantine do keep.  The sectors a       *)
(* rollback leaves behind are the old ones, but for the one whose write    *)
(* was reported as failed and had landed; a volume that is quarantined, or *)
(* mounted read-only, is not written; and once a sector could not be put   *)
(* back the volume stays in use no longer than the rollback.               *)
Quarantines ==
  [][/\ disk' # disk => volume.state = "live" /\ volume.writable
     /\ damage' = "unknown" /\ volume'.state = "live" => op'.step = "undo"
     /\ RolledBack =>
          \A i \in DOMAIN op.writes :
            \/ disk'[op.writes[i].lba] = op.before[i]
            \/ i = op.failed /\ damage = "landed"]_vars

-----------------------------------------------------------------------------
(* The promise to the callers. *)

Content(d, e) ==
  [i \in 1 .. e.size |-> LET c == Nth(d, e.first, i - 1)
                         IN  IF c \in Clusters THEN d[Data(c)].data ELSE -1]

Node(d, e) ==
  IF e.tag = "dir" THEN [kind |-> "dir"]
  ELSE [kind |-> "file", content |-> Content(d, e), ro |-> e.ro, time |-> e.time]

(* What the callers see of disk d and open files fs between two calls;     *)
(* the open files gone have lost their file.                               *)
Visible(d, fs, gone, lost) ==
  LET tree == IF lost THEN {} ELSE Tree(d)
      named(path) == {x \in tree : x.path = path}
      opened(h) == {x \in tree : x.pos = fs[h].pos}
  IN  [store |-> [path \in Paths |-> IF named(path) = {} THEN [kind |-> "none"]
                                     ELSE Node(d, (CHOOSE x \in named(path) : TRUE).entry)],
       open  |-> [h \in FileSlots |-> IF lost \/ ~fs[h].live THEN <<>>
                                      ELSE IF h \in gone THEN <<"">>
                                      ELSE IF opened(h) = {} THEN <<"nothing">>
                                      ELSE (CHOOSE x \in opened(h) : TRUE).path],
       lost  |-> lost]
=============================================================================
