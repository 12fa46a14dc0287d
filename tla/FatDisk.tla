------------------------------- MODULE FatDisk -------------------------------
(***************************************************************************)
(* What storage/fat reads out of a FAT volume and how it prepares the      *)
(* sectors of a mutation: the table entries and their mirror copies, the   *)
(* cluster chains, the directory scan, the search for free clusters and    *)
(* the mutation cache.  One cluster is one sector; a sector holds either   *)
(* table entries, directory entries or one value of file data, and it is   *)
(* the unit the block device reads and writes.                             *)
(***************************************************************************)
EXTENDS Integers, Sequences, SequencesExt, FiniteSetsExt

CONSTANTS
  Paths,             \* paths of one 8.3 name or, in a subdirectory, of two
  ClusterCount,      \* layout.data_clusters
  Copies,            \* layout.fat_count
  EntriesPerSector,  \* table entries in one sector
  RootEntries,       \* directory entries of the fixed root
  DirEntries         \* directory entries in one sector of a subdirectory

ASSUME DiskAssumption ==
  /\ \A p \in Paths : Len(p) \in 1 .. 2 /\ \A i \in DOMAIN p : p[i] \notin {"", ".", ".."}
  /\ {ClusterCount, Copies, EntriesPerSector, RootEntries} \subseteq Nat \ {0}
  /\ DirEntries \in Nat /\ DirEntries >= 2

Clusters == 2 .. ClusterCount + 1

(* Table values: a cluster, or one of these. *)
Free    == 0
Eoc     == -1
Corrupt == -2    \* no value: the copies differ, or a chain runs into a free entry

SectorOf(c)  == c \div EntriesPerSector
FatLba(k, s) == <<"fat", k, s>>
Root         == <<"root", 0, 0>>
Data(c)      == <<"data", c, 0>>

Lbas == {FatLba(k, SectorOf(c)) : k \in 1 .. Copies, c \in Clusters}
          \cup {Root} \cup {Data(c) : c \in Clusters}

Dirent(tag, name, first, ro) ==
  [tag |-> tag, name |-> name, first |-> first, size |-> 0, ro |-> ro, time |-> 0]
End     == Dirent("end", "", 0, FALSE)
Deleted == Dirent("deleted", "", 0, FALSE)

Blank == [ents |-> [i \in 1 .. DirEntries |-> End], data |-> 0]

(* A freshly formatted volume. *)
Formatted ==
  [l \in Lbas |->
     CASE l[1] = "fat"  -> [c \in {x \in Clusters : SectorOf(x) = l[3]} |-> Free]
       [] l[1] = "root" -> [ents |-> [i \in 1 .. RootEntries |-> End], data |-> 0]
       [] l[1] = "data" -> Blank]

-----------------------------------------------------------------------------
(* The table and the chains. *)

FatEntry(d, c) ==
  LET value == d[FatLba(1, SectorOf(c))][c]
  IN  IF \A k \in 2 .. Copies : d[FatLba(k, SectorOf(c))][c] = value
        THEN value ELSE Corrupt

NextCluster(d, c) == LET e == FatEntry(d, c) IN IF e = Free THEN Corrupt ELSE e

(* The clusters from c on and, behind them, the way the chain ended; a     *)
(* cycle is followed for as many steps as the volume has clusters.         *)
Walk(d, c) ==
  LET w[n \in 0 .. ClusterCount] ==
        IF n = 0 THEN <<c>>
        ELSE LET x == w[n - 1] IN
             IF Last(x) \in Clusters THEN Append(x, NextCluster(d, Last(x))) ELSE x
  IN  w[ClusterCount]

Chain(d, c)    == Front(Walk(d, c))
ChainEnd(d, c) == Last(Walk(d, c))

(* The n-th cluster after c, or the way the chain ended before it. *)
Nth(d, c, n) == LET w == Walk(d, c) IN IF n < Len(w) THEN w[n + 1] ELSE Last(w)

(* The n clusters find_free_clusters takes when it starts at the hint: the *)
(* first free ones in cyclic order, every entry on the way being readable. *)
FreeFrom(d, hint, n) ==
  LET cyclic(k) == ((hint - 2 + k) % ClusterCount) + 2
      free  == {k \in 0 .. ClusterCount - 1 : FatEntry(d, cyclic(k)) = Free}
      taken == {k \in free : Cardinality({j \in free : j <= k}) <= n}
      found == /\ Cardinality(taken) = n
               /\ \A k \in 0 .. Max(taken) : FatEntry(d, cyclic(k)) # Corrupt
      after == cyclic(Max(taken) + 1)
  IN  IF found
        THEN [ok |-> TRUE, hint |-> after,
              clusters |-> [i \in 1 .. n |->
                cyclic(CHOOSE k \in taken :
                         Cardinality({j \in taken : j <= k}) = i)]]
        ELSE [ok |-> FALSE, hint |-> hint, clusters |-> <<>>]

-----------------------------------------------------------------------------
(* Directories.  A directory is 0, the fixed root, or its first cluster;  *)
(* a position is the sector of an entry and its index in it.              *)

NoPos == <<Root, 0>>

Positions(d, dir) ==
  IF dir = 0 THEN [i \in 1 .. RootEntries |-> <<Root, i>>]
  ELSE LET chain == Chain(d, dir) IN
       [k \in 1 .. Len(chain) * DirEntries |->
          <<Data(chain[((k - 1) \div DirEntries) + 1]), ((k - 1) % DirEntries) + 1>>]

At(d, p) == d[p[1]].ents[p[2]]

(* scan_directory stops at the name or at the first entry never used. *)
Stops(d, ps, name) ==
  {k \in DOMAIN ps : LET e == At(d, ps[k]) IN
     e.tag = "end" \/ (e.tag \in {"file", "dir"} /\ e.name = name)}

(* The entries it has read, up to its first stop or the last of all. *)
Prefix(ps, stops) == IF stops = {} THEN ps ELSE SubSeq(ps, 1, Min(stops))

Reusable(d, read) == {k \in DOMAIN read : At(d, read[k]).tag \in {"end", "deleted"}}

(* What a scan that read these entries of the directory at positions ps    *)
(* found; it remembers the first entry it could reuse and the last cluster *)
(* it read.                                                                *)
Scanned(d, dir, ps, read, stopped, whole) ==
  LET found == stopped /\ At(d, Last(read)).tag # "end"
      free  == Reusable(d, read)
  IN  [dir      |-> dir,
       ok       |-> stopped \/ whole,
       readable |-> Len(read) < Len(ps) \/ whole,
       found    |-> found,
       pos      |-> IF found THEN Last(read) ELSE NoPos,
       free     |-> IF free # {} THEN read[Min(free)] ELSE NoPos,
       last     |-> IF dir = 0 THEN 0 ELSE Last(Chain(d, dir))]

Scan(d, dir, name) ==
  LET ps    == Positions(d, dir)
      stops == Stops(d, ps, name)
  IN  Scanned(d, dir, ps, Prefix(ps, stops), stops # {},
              dir = 0 \/ ChainEnd(d, dir) = Eoc)

(* The directory that scan s found, Corrupt if it found none. *)
Subdirectory(d, s) ==
  IF s.ok /\ s.found /\ At(d, s.pos).tag = "dir" /\ At(d, s.pos).first \in Clusters
    THEN At(d, s.pos).first ELSE Corrupt

(* The directory a path's last component lives in. *)
Parent(d, path) == IF Len(path) = 1 THEN 0 ELSE Subdirectory(d, Scan(d, 0, path[1]))

(* resolve_parent and scan_directory on a path. *)
Find(d, path) ==
  LET dir == Parent(d, path) IN
  IF dir # Corrupt THEN Scan(d, dir, Last(path))
  ELSE [dir |-> Corrupt, ok |-> FALSE, readable |-> FALSE, found |-> FALSE,
        pos |-> NoPos, free |-> NoPos, last |-> 0]

(* The position of the entry a path names, NoPos if it names none. *)
Resolve(d, path) == Find(d, path).pos

(* The same for the lookups of named.c, whose iterator moves on to the     *)
(* next sector before it hands out the last entry of the one it read.      *)
LookUp(d, path) == LET s == Find(d, path) IN IF s.readable THEN s.pos ELSE NoPos

-----------------------------------------------------------------------------
(* The mutation cache: the sectors to write, in the order first touched.  *)

Cached(cache, d, l) ==
  IF \E i \in DOMAIN cache : cache[i].lba = l
    THEN cache[CHOOSE i \in DOMAIN cache : cache[i].lba = l].after
    ELSE d[l]

Put(cache, l, sector) ==
  IF \E i \in DOMAIN cache : cache[i].lba = l
    THEN [i \in DOMAIN cache |->
            IF cache[i].lba = l THEN [lba |-> l, after |-> sector] ELSE cache[i]]
    ELSE Append(cache, [lba |-> l, after |-> sector])

(* An entry is changed in every copy of the table. *)
WithFat(cache, d, c, value) ==
  FoldLeft(LAMBDA acc, k :
             LET l == FatLba(k, SectorOf(c))
             IN  Put(acc, l, [Cached(acc, d, l) EXCEPT ![c] = value]),
           cache, [k \in 1 .. Copies |-> k])

WithChainFreed(cache, d, first) ==
  FoldLeft(LAMBDA acc, c : WithFat(acc, d, c, Free), cache, Chain(d, first))

WithEntry(cache, d, p, entry) ==
  Put(cache, p[1], [Cached(cache, d, p[1]) EXCEPT !.ents[p[2]] = entry])

Zeroed(d, cs) == [l \in DOMAIN d |-> IF \E c \in cs : l = Data(c) THEN Blank ELSE d[l]]
=============================================================================
