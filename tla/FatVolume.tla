----------------------------- MODULE FatVolume -----------------------------
(* A FAT volume as ff.c handles it: the sector window, the FAT, cluster    *)
(* chains.  A call into FatFs is one step of the program (nothing runs     *)
(* beside it), but each of its disk accesses can be the one that fails, or *)
(* the last before the power goes, so the operators below pass a record m  *)
(* along in the order of the code:                                         *)
(*   disk            sector -> content, what survives a power loss         *)
(*   win, winsect, wflag, last, free, fsi   the FATFS object               *)
(*   fuse, dead      which access fails; whether all later ones fail too   *)
(*   res, val        what the last call returned                           *)
(*   dj, fp, out     the directory object, the file object and the bytes   *)
(*                   of the call under way                                 *)
EXTENDS Integers, Sequences, FiniteSets, Loop

CONSTANTS
  Fat32,        \* FAT32 (root directory in a chain, FSInfo) or FAT16
  NFats,        \* copies of the FAT
  FatSize,      \* sectors of one FAT
  PerFat,       \* entries of a sector of the FAT
  CSize,        \* sectors per cluster
  SS,           \* directory entries per sector; a byte of a file stands
                \* for as many bytes as an entry has
  NRoot,        \* directory entries of the root of FAT16
  NClusters,    \* clusters of the data area
  FileLimit     \* bytes a file has less than: 4 GB

ASSUME VolumeAssumption ==
  /\ Fat32 \in BOOLEAN /\ NFats \in {1, 2}
  /\ {FatSize, PerFat, SS, NClusters, FileLimit} \subseteq Nat \ {0}
  /\ CSize \in {1, 2, 4, 8, 16, 32, 64, 128}
  /\ NRoot \in Nat /\ NRoot % SS = 0 /\ (NRoot = 0 <=> Fat32)
  /\ FatSize * PerFat >= NClusters + 2

NFatEnt == NClusters + 2
FatBase == 1
DataBase == FatBase + NFats * FatSize + NRoot \div SS
DirBase == IF Fat32 THEN 2 ELSE FatBase + NFats * FatSize
FsInfo == DataBase + NClusters * CSize
Cluster == 2..NFatEnt - 1

EOC == NFatEnt          \* 0x0FFFFFFF: the last cluster of a chain
DiskErr == EOC + 1      \* 0xFFFFFFFF as a cluster number: the disk failed
Unknown == -1           \* 0xFFFFFFFF as the number of free clusters

Ok(m) == [m EXCEPT !.res = "OK"]
Fail(m, r) == [m EXCEPT !.res = r]

(* What follows a call only when it has returned FR_OK.                    *)
Then(m, Rest(_)) == IF m.res = "OK" THEN Rest(m) ELSE m
After(m, Rest(_)) == Rest(m)      \* ... and what follows it in any case

(* A loop has the record in x.m.  It ends with the result of a call, goes  *)
(* on only when a call has returned FR_OK, or would go on for ever, on a   *)
(* chain that is a ring.                                                   *)
Stop(x, m) == [x EXCEPT !.m = m, !.on = FALSE]
Onward(x, m) == [x EXCEPT !.m = m, !.on = m.res = "OK"]
OnOk(x, m, Rest(_)) == IF m.res = "OK" THEN Rest(m) ELSE Stop(x, m)
Result(x) == IF x.on THEN Fail(x.m, "INT_ERR") ELSE x.m

(* Every access to the disk burns the fuse.                                *)
Fails(m) == m.fuse = 1 \/ (m.fuse = 0 /\ m.dead)
Burnt(m) == [m EXCEPT !.fuse = IF @ = 0 THEN 0 ELSE @ - 1]
Access(m) == IF Fails(m) THEN Fail(Burnt(m), "DISK_ERR") ELSE Ok(Burnt(m))
DiskWrite(m, s, c) == Then(Access(m), LAMBDA a : [a EXCEPT !.disk[s] = c])

(* move_window: write the dirty window back, to the other FAT too (without *)
(* looking whether that succeeds), and load the sector asked for.          *)
Reflect_first(m) == m             \* mutant: only the first FAT is written
Reflect(m) ==
  IF m.winsect < FatBase + FatSize /\ NFats = 2
  THEN Ok(DiskWrite(m, m.winsect + FatSize, m.win)) ELSE m
WriteBack(m) ==
  IF m.wflag
  THEN Then(DiskWrite(m, m.winsect, m.win),
            LAMBDA w : Reflect([w EXCEPT !.wflag = FALSE]))
  ELSE Ok(m)
Load(m, s) ==
  Then(Access(m), LAMBDA a : [a EXCEPT !.win = a.disk[s], !.winsect = s])
MoveWindow(m, s) ==
  IF m.winsect = s THEN Ok(m)
  ELSE Then(WriteBack(m), LAMBDA w : IF s = 0 THEN w ELSE Load(w, s))

(* sync: the window, the FSInfo sector of FAT32 (in the window, its write  *)
(* unchecked), and whatever the drive still has under way.                 *)
Info(m) == [free |-> m.free, last |-> m.last]
SyncInfo(m) ==
  IF Fat32 /\ m.fsi
  THEN [DiskWrite([m EXCEPT !.winsect = 0, !.win = Info(m)], FsInfo, Info(m))
          EXCEPT !.fsi = FALSE]
  ELSE m
Sync(m) == Then(MoveWindow(m, 0), LAMBDA w : Access(SyncInfo(w)))

Clust2Sect(c) == IF c \in Cluster THEN (c - 2) * CSize + DataBase ELSE 0

(* get_fat of FAT16 and FAT32 (a twelve bit entry of FAT12 may lie in two  *)
(* sectors): 1 for a cluster that is none, DiskErr when the disk failed.   *)
FatSect(c) == FatBase + c \div PerFat
GetFat(m, c) ==
  IF c \notin Cluster THEN [m EXCEPT !.val = 1]
  ELSE After(MoveWindow(m, FatSect(c)), LAMBDA w :
         [w EXCEPT !.val = IF w.res = "OK" THEN w.win[c % PerFat] ELSE DiskErr])

(* put_fat: marks the window dirty even when it could not be moved.        *)
PutFat(m, c, x) ==
  IF c \notin Cluster THEN Fail(m, "INT_ERR")
  ELSE Then([MoveWindow(m, FatSect(c)) EXCEPT !.wflag = TRUE], LAMBDA w :
         [w EXCEPT !.win[c % PerFat] = x])

Counted(m, n) ==
  IF m.free = Unknown THEN m ELSE [m EXCEPT !.free = @ + n, !.fsi = TRUE]

(* What the caller makes of a cluster number that stands for an error.     *)
Trouble(v) == CASE v = 1 -> "INT_ERR" [] v = DiskErr -> "DISK_ERR" [] OTHER -> "OK"

(* remove_chain: free the chain from its head on, to its end or to a       *)
(* cluster that is free already.                                           *)
FreeOne(x) ==
  IF x.c >= NFatEnt THEN Stop(x, Ok(x.m))
  ELSE After(GetFat(x.m, x.c), LAMBDA g :
         IF g.val = 0 THEN Stop(x, Ok(g))
         ELSE IF Trouble(g.val) # "OK" THEN Stop(x, Fail(g, Trouble(g.val)))
         ELSE OnOk(x, PutFat(g, x.c, 0), LAMBDA p :
                [x EXCEPT !.m = Counted(p, 1), !.c = g.val]))
FreeFrom(m, c) == Result(While(FreeOne, [on |-> TRUE, m |-> m, c |-> c], NClusters + 1))
RemoveChain(m, c) ==
  IF c \in Cluster THEN FreeFrom(m, c) ELSE Fail(m, "INT_ERR")

(* create_chain: val is the next cluster of the chain, or a new one linked *)
(* behind c (0: a new chain); 0 when the volume is full.                   *)
NextToTry(c) == IF c + 1 >= NFatEnt THEN 2 ELSE c + 1
TryNext(x) ==                     \* the cluster after x.c, round to x.start
  LET n == NextToTry(x.c)
  IN IF x.c + 1 >= NFatEnt /\ n > x.start THEN Stop(x, [x.m EXCEPT !.val = 0])
     ELSE After(GetFat(x.m, n), LAMBDA g :
            IF g.val = 0 THEN Stop(x, [g EXCEPT !.val = n])
            ELSE IF g.val \in {1, DiskErr} THEN Stop(x, g)
            ELSE IF n = x.start THEN Stop(x, [g EXCEPT !.val = 0])
            ELSE [x EXCEPT !.m = g, !.c = n])
FindFree(m, start) ==             \* val: a cluster that is free, or 0
  LET x == While(TryNext, [on |-> TRUE, m |-> m, c |-> start, start |-> start], NClusters + 1)
  IN IF x.on THEN [x.m EXCEPT !.val = 0] ELSE x.m

Linked(m, c, n) ==
  Then(PutFat(m, n, EOC), LAMBDA k : IF c = 0 THEN k ELSE PutFat(k, c, n))
Link(m, c, n) ==
  After(Linked(m, c, n), LAMBDA l :
    IF l.res = "OK" THEN [Counted(l, -1) EXCEPT !.last = n, !.val = n]
    ELSE [l EXCEPT !.val = IF l.res = "DISK_ERR" THEN DiskErr ELSE 1])

Allocate(m, c, start) ==
  After(FindFree(m, start), LAMBDA f :
    IF f.val \in Cluster THEN Link(f, c, f.val) ELSE f)

Hint(m) == IF m.last = 0 \/ m.last >= NFatEnt THEN 1 ELSE m.last
CreateChain_blind(m, c) ==        \* mutant: a chain is stretched unlooked
  Allocate(m, c, IF c = 0 THEN Hint(m) ELSE c)
CreateChain(m, c) ==
  After(IF c = 0 THEN [m EXCEPT !.val = EOC] ELSE GetFat(m, c), LAMBDA g :
    IF g.val < 2 THEN [g EXCEPT !.val = 1]
    ELSE IF g.val \in Cluster THEN g             \* followed already
    ELSE Allocate(g, c, IF c = 0 THEN Hint(g) ELSE c))
                                  \* the end of the chain, or a disk error

(* f_getfree: count the free clusters unless the number is known.  The     *)
(* number is kept even when the disk failed in the middle.                 *)
CountOne(x) ==                    \* counts in val
  IF x.c = NFatEnt THEN Stop(x, Ok(x.m))
  ELSE OnOk(x, MoveWindow(x.m, FatSect(x.c)), LAMBDA w :
         [x EXCEPT !.m = [w EXCEPT !.val = @ + (IF w.win[x.c % PerFat] = 0 THEN 1 ELSE 0)],
                   !.c = @ + 1])
CountFree(m) == Result(While(CountOne, [on |-> TRUE, m |-> [m EXCEPT !.val = 0], c |-> 2],
                             NClusters + 1))
GetFree(m) ==
  IF m.free \in 0..NClusters THEN [Ok(m) EXCEPT !.val = m.free]
  ELSE After(CountFree(m), LAMBDA n :
         [n EXCEPT !.free = n.val, !.fsi = Fat32])

(* chk_mounted on a drive that is not mounted: the boot record and FSInfo  *)
(* are read (the geometry is that of the constants).                       *)
Forgotten(m) == [m EXCEPT !.winsect = 0, !.win = <<>>, !.wflag = FALSE,
                          !.free = Unknown, !.last = 0, !.fsi = FALSE]
ReadInfo(m) ==
  After(Access(m), LAMBDA a :
    IF Fat32 /\ a.res = "OK"
    THEN [a EXCEPT !.free = a.disk[FsInfo].free, !.last = a.disk[FsInfo].last]
    ELSE Ok(a))
Mount(m) == Then(Access(m), LAMBDA a :
              IF Fat32 THEN ReadInfo(Forgotten(a)) ELSE Forgotten(a))

------------------------------------------------------------------------------
(* The FAT as the program sees it: the disk under the window.              *)
Seen(m, s) == IF s = m.winsect THEN m.win ELSE m.disk[s]
Fat(m, c) == Seen(m, FatSect(c))[c % PerFat]

ChainOf(m, c) ==                  \* the chain from c, cut off at a loop
  LET Follow[n \in 0..NClusters, x \in 0..DiskErr] ==
        IF n = 0 \/ x \notin Cluster THEN <<>> ELSE <<x>> \o Follow[n - 1, Fat(m, x)]
  IN Follow[NClusters, c]
=============================================================================
