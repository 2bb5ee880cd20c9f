------------------------------ MODULE FatDir ------------------------------
(* Directories of a FAT volume: the directory object m.dj, the search for  *)
(* a name, its registration and removal, paths.                            *)
(*                                                                         *)
(* A name takes Slots[n] consecutive entries: Slots[n] - 1 of them hold    *)
(* its long form, the last one is the entry proper with the short form.    *)
(* A name that does not fit the short form shares its stem with others and *)
(* gets a number, so that the short forms differ.                          *)
EXTENDS FatVolume

CONSTANTS
  Names,        \* the names of files and directories
  Slots,        \* entries a name takes
  Stem          \* name -> the short form, numbers left out

ASSUME NamesAssumption == Slots \in [Names -> Nat \ {0}]

Lossy(n) == Slots[n] > 1
Short(n, k) == <<Stem[n], k>>

Blank == [kind |-> "blank"]       \* zeroes, in a file too
Deleted == [kind |-> "deleted"]
Long(n, k, sum) == [kind |-> "long", name |-> n, ord |-> k,
                    top |-> k = Slots[n] - 1, sum |-> sum]
Entry(sfn, attr, c, size) ==
  [kind |-> "entry", sfn |-> sfn, attr |-> attr, ro |-> FALSE, clst |-> c, size |-> size]
Dot(k, c) == [kind |-> k, clst |-> c]

NoLong == 65535         \* 0xFFFF in lfn_idx
OutOfStep == 255        \* 0xFF in ord

(* The entry the directory object points to, in the window.                *)
Here(m) == m.win[(m.dj.index % SS) + 1]
Put(m, e) == [m EXCEPT !.win[(m.dj.index % SS) + 1] = e, !.wflag = TRUE]
Cleared == [i \in 1..SS |-> Blank]
PerCluster == SS * CSize

(* dir_sdi: point the directory object to an index.                        *)
Placed(m, c, s) == Ok([m EXCEPT !.dj.clust = c, !.dj.sect = s])
WalkOne(x) ==                     \* x.idx entries behind the cluster x.c
  IF x.idx < PerCluster
  THEN Stop(x, Placed(x.m, x.c, Clust2Sect(x.c) + x.idx \div SS))
  ELSE After(GetFat(x.m, x.c), LAMBDA g :
         IF g.val = DiskErr THEN Stop(x, Fail(g, "DISK_ERR"))
         ELSE IF g.val \notin Cluster THEN Stop(x, Fail(g, "INT_ERR"))
         ELSE [x EXCEPT !.m = g, !.c = g.val, !.idx = @ - PerCluster])
Walk(m, c, idx) ==
  Result(While(WalkOne, [on |-> TRUE, m |-> m, c |-> c, idx |-> idx],
               (idx \div PerCluster) + 1))
DirSdi(m, idx) ==
  LET d == [m EXCEPT !.dj.index = idx]
      c == IF m.dj.sclust = 0 /\ Fat32 THEN DirBase ELSE m.dj.sclust
  IN IF m.dj.sclust = 1 \/ m.dj.sclust >= NFatEnt THEN Fail(d, "INT_ERR")
     ELSE IF c # 0 THEN Walk(d, c, idx)
     ELSE IF idx < NRoot THEN Placed(d, 0, DirBase + idx \div SS)
     ELSE Fail([d EXCEPT !.dj.clust = 0], "INT_ERR")

(* dir_next: the next index; at the end of a table that may be stretched a *)
(* new cluster is linked first and filled with blank entries then.         *)
FillOne(x) ==                     \* x.n sectors are left, from the window's on
  IF x.n = 0 THEN Stop(x, Ok([x.m EXCEPT !.winsect = @ - CSize]))
  ELSE After(MoveWindow([x.m EXCEPT !.wflag = TRUE], 0), LAMBDA w :
         IF w.res = "OK" THEN [x EXCEPT !.m = [w EXCEPT !.winsect = @ + 1], !.n = @ - 1]
         ELSE Stop(x, Fail(w, "DISK_ERR")))
Fill(m) == Result(While(FillOne, [on |-> TRUE, m |-> m, n |-> CSize], CSize + 1))
Cleaned(m, c) ==
  Then(MoveWindow(m, 0), LAMBDA w :
    Fill([w EXCEPT !.win = Cleared, !.winsect = Clust2Sect(c)]))
Stretched(m) ==
  After(CreateChain(m, m.dj.clust), LAMBDA n :
    IF n.val = 0 THEN Fail(n, "DENIED")
    ELSE IF Trouble(n.val) # "OK" THEN Fail(n, Trouble(n.val))
    ELSE [Cleaned(n, n.val) EXCEPT !.val = n.val])
NextCluster(m, stretch) ==
  After(GetFat(m, m.dj.clust), LAMBDA g :
    IF g.val \in {0, 1} THEN Fail(g, "INT_ERR")
    ELSE IF g.val = DiskErr THEN Fail(g, "DISK_ERR")
    ELSE IF g.val \in Cluster THEN Ok(g)
    ELSE IF stretch THEN Stretched(g)
    ELSE Fail(g, "NO_FILE"))
MaxIndex == 65535       \* the next one is 0, as a WORD
DirNext(m, stretch) ==
  LET i == m.dj.index + 1
      d == [m EXCEPT !.dj.sect = @ + 1]
      Arrived(x) == [x EXCEPT !.dj.index = i]
  IN IF m.dj.index = MaxIndex \/ m.dj.sect = 0 THEN Fail(m, "NO_FILE")
     ELSE IF i % SS # 0 THEN Ok(Arrived(m))
     ELSE IF m.dj.clust = 0
     THEN IF i >= NRoot THEN Fail(d, "NO_FILE") ELSE Ok(Arrived(d))
     ELSE IF (i \div SS) % CSize # 0 THEN Ok(Arrived(d))
     ELSE Then(NextCluster(d, stretch), LAMBDA x :
            Arrived([x EXCEPT !.dj.clust = x.val, !.dj.sect = Clust2Sect(x.val)]))

(* dir_find and dir_read step through the table with the order number ord  *)
(* expected of the next long entry and the sum that ties it to its short   *)
(* form (here the short form itself).  No table has more entries than the  *)
(* root of FAT16 and the clusters together.                             *)
MaxEntries == NRoot + NClusters * PerCluster
Passed(x, ord) == [x EXCEPT !.ord = ord]
LongSeen(x, e, fits) ==
  LET o == IF e.top THEN e.ord ELSE x.ord
      s == IF e.top THEN e.sum ELSE x.sum
  IN [x EXCEPT !.m = IF e.top THEN [@ EXCEPT !.dj.lfn_idx = x.m.dj.index] ELSE @,
               !.ord = IF e.ord = o /\ e.sum = s /\ fits THEN o - 1 ELSE OutOfStep,
               !.sum = s]
NoLongForm(m) == [m EXCEPT !.dj.lfn_idx = NoLong]

(* dir_find: lfn is the long form asked for ("" for none), sfn the short   *)
(* one (<<>> when the name has none without a number).                       *)
Compared(x, e) ==
  CASE e.kind = "blank" -> Stop(x, Fail(x.m, "NO_FILE"))
    [] e.kind = "deleted" -> Passed(x, OutOfStep)
    [] e.kind = "long" -> IF x.lfn = "" THEN x ELSE LongSeen(x, e, e.name = x.lfn)
    [] e.kind = "entry" /\ x.ord = 0 /\ x.sum = e.sfn -> Stop(x, x.m)
    [] OTHER ->
         IF e.kind = "entry" /\ e.sfn = x.sfn THEN Stop(x, NoLongForm(x.m))
         ELSE [Passed(x, OutOfStep) EXCEPT !.m = NoLongForm(@)]
FindOne(x) ==
  OnOk(x, MoveWindow(x.m, x.m.dj.sect), LAMBDA w :
    After(Compared([x EXCEPT !.m = w], Here(w)), LAMBDA c :
      IF c.on THEN Onward(c, DirNext(c.m, FALSE)) ELSE c))
FindFrom(m, lfn, sfn) ==
  Result(While(FindOne, [on |-> TRUE, m |-> m, lfn |-> lfn, sfn |-> sfn,
                         ord |-> OutOfStep, sum |-> <<>>], MaxEntries))
DirFind(m, lfn, sfn) == Then(DirSdi(m, 0), LAMBDA d : FindFrom(d, lfn, sfn))

(* dir_read: the next entry that is a file or directory, lfn_idx where its *)
(* long form begins.                                                       *)
Told(x, e) ==
  CASE e.kind = "blank" -> Stop(x, Fail(x.m, "NO_FILE"))
    [] e.kind = "long" -> LongSeen(x, e, TRUE)
    [] e.kind = "entry" ->
         Stop(x, IF x.ord = 0 /\ x.sum = e.sfn THEN x.m ELSE NoLongForm(x.m))
    [] OTHER -> Passed(x, OutOfStep)
ReadOne(x) ==
  IF x.m.dj.sect = 0 THEN Stop(x, Fail(x.m, "NO_FILE"))
  ELSE OnOk(x, MoveWindow(x.m, x.m.dj.sect), LAMBDA w :
         After(Told([x EXCEPT !.m = w], Here(w)), LAMBDA t :
           IF t.on THEN Onward(t, DirNext(t.m, FALSE)) ELSE t))
ReadFrom(m) ==
  Result(While(ReadOne, [on |-> TRUE, m |-> m, ord |-> OutOfStep, sum |-> <<>>], MaxEntries))
DirRead(m) ==
  After(ReadFrom(m), LAMBDA r :
    IF r.res = "OK" THEN r ELSE [r EXCEPT !.dj.sect = 0])

(* dir_register: a number for the short form, room for all entries of the  *)
(* name (the table may grow), the long entries in descending order, the    *)
(* entry proper.                                                           *)
MaxNumber == 99
TryNumber(x) ==
  IF x.k > MaxNumber THEN Stop(x, Fail(x.m, "DENIED"))
  ELSE After(DirFind(x.m, "", Short(x.n, x.k)), LAMBDA f :
         IF f.res = "OK" THEN [x EXCEPT !.m = f, !.k = @ + 1]
         ELSE Stop(x, IF f.res = "NO_FILE" THEN Ok([f EXCEPT !.val = x.k]) ELSE f))
Numbered(m, n) ==                 \* val: the number
  Result(While(TryNumber, [on |-> TRUE, m |-> m, n |-> n, k |-> 1], MaxEntries + 1))
                                  \* a number that is taken is an entry's

ReserveOne(x) ==
  OnOk(x, MoveWindow(x.m, x.m.dj.sect), LAMBDA w :
    LET blank == Here(w).kind \in {"blank", "deleted"}
        n == IF blank THEN x.have + 1 ELSE 0
        f == IF blank /\ x.have = 0 THEN w.dj.index ELSE x.first
    IN IF n = x.need THEN Stop(x, [w EXCEPT !.val = f])
       ELSE Onward([x EXCEPT !.have = n, !.first = f], DirNext(w, TRUE)))
Reserve(m, need) ==               \* val: the index of the first one
  Result(While(ReserveOne, [on |-> TRUE, m |-> m, need |-> need, have |-> 0, first |-> 0],
               MaxEntries))

PutLongOne(x) ==
  IF x.k = 0 THEN Stop(x, Ok(x.m))
  ELSE OnOk(x, MoveWindow(x.m, x.m.dj.sect), LAMBDA w :
         Onward([x EXCEPT !.k = @ - 1], DirNext(Put(w, Long(x.n, x.k, x.sum)), FALSE)))
PutLong(m, n, sum) ==
  Result(While(PutLongOne, [on |-> TRUE, m |-> m, n |-> n, k |-> Slots[n] - 1, sum |-> sum],
               Slots[n]))

Registered(m, n, sfn) ==
  LET Room(x) == Then(DirSdi(x, 0), LAMBDA d : Reserve(d, Slots[n]))
      Longs(x) == IF Lossy(n)
                  THEN Then(DirSdi(x, x.val), LAMBDA d : PutLong(d, n, sfn))
                  ELSE x
      Proper(x) == Then(MoveWindow(x, x.dj.sect), LAMBDA w :
                     Put(w, Entry(sfn, "file", 0, 0)))
  IN Then(Then(Room(m), Longs), Proper)
DirRegister(m, n) ==
  Then(IF Lossy(n) THEN Numbered(m, n) ELSE Ok([m EXCEPT !.val = 0]),
       LAMBDA k : Registered(k, n, Short(n, k.val)))

(* dir_remove: every entry of the name, from the first of its long form to *)
(* the entry proper.                                                       *)
DeleteOne(x) ==
  OnOk(x, MoveWindow(x.m, x.m.dj.sect), LAMBDA w :
    IF w.dj.index >= x.last THEN Stop(x, Put(w, Deleted))
    ELSE Onward(x, DirNext(Put(w, Deleted), FALSE)))
DeleteTo(m, last) ==
  Result(While(DeleteOne, [on |-> TRUE, m |-> m, last |-> last], MaxEntries))
DirRemove(m) ==
  LET i == m.dj.index
      first == IF m.dj.lfn_idx = NoLong THEN i ELSE m.dj.lfn_idx
  IN After(Then(DirSdi(m, first), LAMBDA d : DeleteTo(d, i)), LAMBDA r :
       IF r.res = "NO_FILE" THEN Fail(r, "INT_ERR") ELSE r)

(* follow_path: from the root along the names of a path; the path without  *)
(* names is the root itself, which has no entry.                           *)
NoDir == [sclust |-> 0, clust |-> 0, sect |-> 0, index |-> 0, lfn_idx |-> NoLong,
          entry |-> FALSE]
FollowOne(x) ==
  LET n == Head(x.path)
      last == Len(x.path) = 1
  IN After(DirFind(x.m, n, IF Lossy(n) THEN <<>> ELSE Short(n, 0)), LAMBDA f :
       IF f.res = "NO_FILE" THEN Stop(x, Fail(f, IF last THEN "NO_FILE" ELSE "NO_PATH"))
       ELSE IF f.res # "OK" \/ last THEN Stop(x, [f EXCEPT !.dj.entry = TRUE])
       ELSE IF Here(f).attr # "dir" THEN Stop(x, Fail(f, "NO_PATH"))
       ELSE [x EXCEPT !.m = [f EXCEPT !.dj.sclust = Here(f).clst], !.path = Tail(@)])
FollowFrom(m, path) ==
  Result(While(FollowOne, [on |-> TRUE, m |-> m, path |-> path], Len(path)))
FollowPath(m, path) ==
  LET d == [m EXCEPT !.dj = [@ EXCEPT !.sclust = 0]]
  IN IF path = <<>> THEN [DirSdi(d, 0) EXCEPT !.dj.entry = FALSE]
     ELSE FollowFrom(d, path)
=============================================================================
