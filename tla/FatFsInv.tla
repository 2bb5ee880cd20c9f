------------------------------ MODULE FatFsInv ------------------------------
(* The inductive invariant behind FatConsistent: what a call may rely on   *)
(* about the window, the FAT, the directories and the file objects, as     *)
(* long as no disk access has failed.                                      *)
EXTENDS FatFs

FatArea == FatBase..FatBase + FatSize - 1           \* the first FAT
Tables == FatBase + NFats * FatSize..FsInfo - 1     \* the root and the clusters
FatLink == {0} \union Cluster \union {EOC}
MayBeNone == {0} \union Cluster

EntryOk(e) ==
  /\ "kind" \in DOMAIN e
  /\ e.kind = "entry" => /\ {"clst", "size"} \subseteq DOMAIN e
                         /\ e.clst \in MayBeNone /\ e.size \in Nat
TableOk(t) == DOMAIN t = 1..SS /\ \A i \in 1..SS : EntryOk(t[i])

(* The disk: no write but one of its own kind has met a FAT or a table.    *)
DiskOk(d) ==
  /\ DOMAIN d = FatBase..FsInfo
  /\ \A s \in FatArea : d[s] \in [0..PerFat - 1 -> FatLink]
  /\ \A s \in Tables : TableOk(d[s])

(* The window is on no second FAT, and dirty only where it is on a sector. *)
WinOk(v) ==
  /\ v.winsect \in {0} \union FatArea \union Tables
  /\ v.wflag \in BOOLEAN /\ (v.wflag => v.winsect # 0)
  /\ v.winsect \in FatArea => /\ v.win \in [0..PerFat - 1 -> FatLink]
                              /\ v.wflag \/ v.win = v.disk[v.winsect]
  /\ v.winsect \in Tables => TableOk(v.win)
CopiesOk(v) ==
  NFats = 2 => \A s \in FatArea :
    (s = v.winsect /\ v.wflag) \/ v.disk[s] = v.disk[s + FatSize]
InfoOk(v) == v.last \in Nat /\ v.free \in Nat \union {Unknown} /\ v.fsi \in BOOLEAN
FreeSet(v) == {c \in Cluster : Fat(v, c) = 0}
CountOk(v) == v.free # Unknown => v.free = Cardinality(FreeSet(v))

BaseOk(v) == DiskOk(v.disk) /\ WinOk(v) /\ CopiesOk(v) /\ InfoOk(v)
VolOk(v) == BaseOk(v) /\ CountOk(v)

(* A directory object, and one that points to an entry: its sector is that *)
(* of its index in its cluster, or in the root of FAT16.                   *)
DjOk(d) ==
  d \in [sclust : MayBeNone, clust : MayBeNone, sect : Nat, index : Nat,
         lfn_idx : Nat, entry : BOOLEAN]
Points(d) ==
  \/ d.clust \in Cluster /\ d.sect = Clust2Sect(d.clust) + ((d.index \div SS) % CSize)
  \/ /\ d.clust = 0 /\ ~Fat32 /\ d.index < NRoot
     /\ d.sect = DirBase + d.index \div SS

(* A file object: its dirty sector is one of a cluster, its pointer within *)
(* the file and, but at the start, in the cluster it says.                 *)
FileFields ==
  {"open", "flag", "sclust", "fsize", "fptr", "clust", "dsect", "buf", "dirsect", "slot"}
FileOk(f) ==
  /\ FileFields \subseteq DOMAIN f
  /\ f.sclust \in MayBeNone /\ f.fsize \in Nat /\ f.fptr \in Nat
  /\ f.dsect \in {0} \union Tables /\ TableOk(f.buf)
  /\ f.dirsect \in Tables /\ f.slot \in 1..SS
  /\ "ERROR" \notin f.flag => /\ f.fptr <= f.fsize
                              /\ f.fptr > 0 => f.clust \in Cluster
FilOk(f) == f.open \in BOOLEAN /\ (f.open => FileOk(f))

FatInv ==
  /\ fil \in [Handle -> {fil[h] : h \in Handle}]
  /\ DOMAIN list = DOMAIN NotListing /\ list.on \in BOOLEAN
  /\ ~lost => /\ IF vol.mounted THEN VolOk(vol) ELSE vol = OffLine(Formatted)
              /\ \A h \in Handle : FilOk(fil[h]) /\ (fil[h].open => vol.mounted)
              /\ list.on => vol.mounted /\ DjOk(list.dj) /\ Points(list.dj)
=============================================================================
