------------------------------ MODULE FatFile ------------------------------
(* The calls of ff.c that take a file object or a path, each as one        *)
(* operator on the record of FatVolume: m.fp is the file object of the     *)
(* call, m.out what it has read.                                           *)
EXTENDS FatDir, SequencesExt

Min2(a, b) == IF a < b THEN a ELSE b
BytesPerCluster == CSize * SS

(* A file object: flag holds the access mode and FA__WRITTEN, FA__DIRTY    *)
(* and FA__ERROR; buf is the sector dsect; dirsect and slot lead to the    *)
(* entry of the file.                                                      *)
NoFil == [open |-> FALSE]
Fil(flag, e, sect, slot) ==
  [open |-> TRUE, flag |-> flag, sclust |-> e.clst, fsize |-> e.size, fptr |-> 0,
   clust |-> 0, dsect |-> 0, buf |-> Cleared, dirsect |-> sect, slot |-> slot]

Marked(m, f) == [m EXCEPT !.fp.flag = @ \union {f}]
Unmarked(m, f) == [m EXCEPT !.fp.flag = @ \ {f}]
Abort(m, r) == Fail(Marked(m, "ERROR"), r)
OrAbort(m) == IF m.res = "OK" THEN m ELSE Abort(m, m.res)

(* The sector cache of the file object.                                    *)
FlushBuf(m) ==
  IF "DIRTY" \in m.fp.flag
  THEN Then(DiskWrite(m, m.fp.dsect, m.fp.buf), LAMBDA w : Unmarked(w, "DIRTY"))
  ELSE Ok(m)
LoadBuf(m, s) == Then(Access(m), LAMBDA a : [a EXCEPT !.fp.buf = a.disk[s]])
Advanced(m, n) == [m EXCEPT !.fp.fptr = @ + n]

AtSector(m) == m.fp.fptr % SS = 0
SectOf(m) == (m.fp.fptr \div SS) % CSize          \* csect
Contiguous(m, n) == Min2(n \div SS, CSize - SectOf(m))    \* cc

(* f_open: the entry is found or made; with the create modes the file is   *)
(* cut to nothing, its chain freed, and its first cluster is the hint for  *)
(* the next allocation.                                                    *)
Creating == {"ALWAYS", "CREATE", "NEW"}           \* FA_OPEN_, FA_CREATE_ALWAYS, ...
Emptied(m) ==
  LET e == Here(m)
      cut == Put(m, Entry(e.sfn, "file", 0, 0))
      s == m.winsect
  IN IF e.clst = 0 THEN Ok(cut)
     ELSE Then(RemoveChain(cut, e.clst), LAMBDA r :
            MoveWindow([r EXCEPT !.last = e.clst - 1], s))
Opened(m, access) ==
  [m EXCEPT !.fp = Fil(access, Here(m), m.winsect, (m.dj.index % SS) + 1)]
OpenFound(m, mode, access) ==
  LET e == Here(m)
  IN IF mode \in Creating /\ (e.ro \/ e.attr = "dir") THEN Fail(m, "DENIED")
     ELSE IF mode = "NEW" THEN Fail(m, "EXIST")
     ELSE IF mode = "CREATE"
     THEN Then(Emptied(m), LAMBDA x : Opened(x, access \union {"WRITTEN"}))
     ELSE IF mode \notin Creating /\ e.attr = "dir" THEN Fail(m, "NO_FILE")
     ELSE IF mode \notin Creating /\ e.ro /\ "WRITE" \in access THEN Fail(m, "DENIED")
     ELSE Opened(m, access)
FOpen(m, path, mode, access) ==
  After(FollowPath(m, path), LAMBDA f :
    IF f.res = "OK"
    THEN IF f.dj.entry THEN OpenFound(f, mode, access) ELSE Fail(f, "INVALID_NAME")
    ELSE IF f.res = "NO_FILE" /\ mode \in Creating
    THEN Then(DirRegister(f, Last(path)), LAMBDA r :
           Then(Emptied(r), LAMBDA x : Opened(x, access \union {"WRITTEN"})))
    ELSE f)

(* f_read: whole sectors directly, the rest through the cache.             *)
SectorsOf(m, s, n) ==             \* a dirty sector comes from the cache
  LET Sector(k) == IF "DIRTY" \in m.fp.flag /\ m.fp.dsect = k THEN m.fp.buf ELSE m.disk[k]
  IN [i \in 1..SS * n |-> Sector(s + (i - 1) \div SS)[((i - 1) % SS) + 1]]

ReadCluster(m) ==                 \* m.fp.clust, or the error of the chain
  After(IF SectOf(m) # 0 THEN [m EXCEPT !.val = m.fp.clust]
        ELSE IF m.fp.fptr = 0 THEN [m EXCEPT !.val = m.fp.sclust]
        ELSE GetFat(m, m.fp.clust), LAMBDA g :
    IF g.val < 2 THEN Abort(g, "INT_ERR")
    ELSE IF g.val = DiskErr THEN Abort(g, "DISK_ERR")
    ELSE IF g.val = EOC THEN Abort([g EXCEPT !.fp.clust = EOC], "INT_ERR")
    ELSE Ok([g EXCEPT !.fp.clust = g.val]))
CacheForRead(m, s) ==
  LET filled == IF m.fp.dsect = s THEN Ok(m)
                ELSE Then(FlushBuf(m), LAMBDA b : LoadBuf(b, s))
  IN Then(OrAbort(filled), LAMBDA b : [b EXCEPT !.fp.dsect = s])

Taken(x, m, n, bytes) ==          \* rcnt bytes are copied
  [x EXCEPT !.m = Advanced([m EXCEPT !.out = @ \o bytes], n), !.btr = @ - n]
FromCache(x, m) ==
  LET o == m.fp.fptr % SS
      n == Min2(SS - o, x.btr)
  IN Taken(x, m, n, SubSeq(m.fp.buf, o + 1, o + n))
FromSector(x, m) ==
  LET s == Clust2Sect(m.fp.clust) + SectOf(m)
      cc == Contiguous(m, x.btr)
  IN IF cc > 0
     THEN OnOk(x, OrAbort(Access(m)), LAMBDA a : Taken(x, a, SS * cc, SectorsOf(a, s, cc)))
     ELSE OnOk(x, CacheForRead(m, s), LAMBDA a : FromCache(x, a))
ReadSome(x) ==
  IF x.btr = 0 THEN Stop(x, Ok(x.m))
  ELSE IF AtSector(x.m) THEN OnOk(x, ReadCluster(x.m), LAMBDA g : FromSector(x, g))
  ELSE FromCache(x, x.m)
ReadOn(m, btr) == Result(While(ReadSome, [on |-> TRUE, m |-> m, btr |-> btr], btr + 1))
FRead(m, btr) ==
  IF "ERROR" \in m.fp.flag THEN Fail(m, "INT_ERR")
  ELSE IF "READ" \notin m.fp.flag THEN Fail(m, "DENIED")
  ELSE ReadOn(m, Min2(btr, m.fp.fsize - m.fp.fptr))

(* f_write: the chain grows when the pointer leaves it; a full volume ends *)
(* the call early, without an error.                                       *)
WriteCluster(m) ==                \* val 0: no room
  After(IF SectOf(m) # 0 THEN [m EXCEPT !.val = m.fp.clust]
        ELSE IF m.fp.fptr # 0 THEN CreateChain(m, m.fp.clust)
        ELSE IF m.fp.sclust # 0 THEN [m EXCEPT !.val = m.fp.sclust]
        ELSE After(CreateChain(m, 0), LAMBDA c : [c EXCEPT !.fp.sclust = c.val]),
    LAMBDA g :
      IF g.val = 0 THEN Ok(g)
      ELSE IF Trouble(g.val) # "OK" THEN Abort(g, Trouble(g.val))
      ELSE OrAbort(FlushBuf([g EXCEPT !.fp.clust = g.val])))
WriteSectors(m, s, n, bytes) ==   \* the cache must not go stale
  LET cached == m.fp.dsect \in s..s + n - 1
      From(k) == SubSeq(bytes, SS * k + 1, SS * (k + 1))
      w == Then(Access(m), LAMBDA a :
             [a EXCEPT !.disk = [k \in DOMAIN @ |->
                                   IF k \in s..s + n - 1 THEN From(k - s) ELSE @[k]]])
  IN Then(OrAbort(w), LAMBDA a :
       IF cached THEN Unmarked([a EXCEPT !.fp.buf = From(a.fp.dsect - s)], "DIRTY")
       ELSE a)
CacheForWrite(m, s) ==
  LET filled == IF m.fp.dsect # s /\ m.fp.fptr < m.fp.fsize THEN LoadBuf(m, s) ELSE Ok(m)
  IN Then(OrAbort(filled), LAMBDA b : [b EXCEPT !.fp.dsect = s])

Written(m) ==
  Ok(Marked([m EXCEPT !.fp.fsize = IF m.fp.fptr > @ THEN m.fp.fptr ELSE @], "WRITTEN"))
Given(x, m, n) ==                 \* wcnt bytes are copied
  [x EXCEPT !.m = Advanced(m, n), !.w = SubSeq(@, n + 1, Len(@))]
IntoCache(x, m) ==
  LET o == m.fp.fptr % SS
      n == Min2(SS - o, Len(x.w))
  IN Given(x, Marked([m EXCEPT !.fp.buf = [i \in 1..SS |->
                        IF i \in o + 1..o + n THEN x.w[i - o] ELSE @[i]]], "DIRTY"), n)
IntoSector(x, m) ==
  LET s == Clust2Sect(m.fp.clust) + SectOf(m)
      cc == Contiguous(m, Len(x.w))
  IN IF m.val = 0 THEN Stop(x, m)
     ELSE IF cc > 0
     THEN OnOk(x, WriteSectors(m, s, cc, x.w), LAMBDA a : Given(x, a, SS * cc))
     ELSE OnOk(x, CacheForWrite(m, s), LAMBDA a : IntoCache(x, a))
WriteSome(x) ==
  IF x.w = <<>> THEN Stop(x, Ok(x.m))
  ELSE IF AtSector(x.m) THEN OnOk(x, WriteCluster(x.m), LAMBDA g : IntoSector(x, g))
  ELSE IntoCache(x, x.m)
WriteOn(m, w) ==
  Then(While(WriteSome, [on |-> TRUE, m |-> m, w |-> w], Len(w) + 1).m, Written)
FWrite(m, w) ==
  IF "ERROR" \in m.fp.flag THEN Fail(m, "INT_ERR")
  ELSE IF "WRITE" \notin m.fp.flag THEN Fail(m, "DENIED")
  ELSE WriteOn(m, IF m.fp.fsize + Len(w) >= FileLimit THEN <<>> ELSE w)

(* f_sync and f_close: cache, entry, window, drive.                        *)
UpdateEntry(m) ==
  LET e == m.win[m.fp.slot]
  IN Unmarked([m EXCEPT !.win[m.fp.slot] =
                 [e EXCEPT !.size = m.fp.fsize, !.clst = m.fp.sclust],
               !.wflag = TRUE], "WRITTEN")
FSync(m) ==
  IF "WRITTEN" \notin m.fp.flag THEN Ok(m)
  ELSE Then(FlushBuf(m), LAMBDA b :
         Then(MoveWindow(b, b.fp.dirsect), LAMBDA w : Sync(UpdateEntry(w))))
FClose(m) == Then(FSync(m), LAMBDA s : [s EXCEPT !.fp = NoFil])

(* f_lseek: from the cluster of the pointer or from the first; a file      *)
(* opened for writing grows, as far as the volume has room.                *)
SeekOne(x) ==
  LET writes == "WRITE" \in x.m.fp.flag
  IN IF x.ofs <= BytesPerCluster THEN Stop(x, Ok([x.m EXCEPT !.val = x.ofs]))
     ELSE After(IF writes THEN CreateChain(x.m, x.c) ELSE GetFat(x.m, x.c), LAMBDA g :
       IF writes /\ g.val = 0 THEN Stop(x, Ok([g EXCEPT !.val = BytesPerCluster]))
       ELSE IF g.val = DiskErr THEN Stop(x, Abort(g, "DISK_ERR"))
       ELSE IF g.val \notin Cluster THEN Stop(x, Abort(g, "INT_ERR"))
       ELSE [x EXCEPT !.m = [g EXCEPT !.fp.clust = g.val, !.fp.fptr = @ + BytesPerCluster],
                      !.c = g.val, !.ofs = @ - BytesPerCluster])
SeekOn(m, c, ofs) ==              \* val: what is left within the last cluster
  Result(While(SeekOne, [on |-> TRUE, m |-> m, c |-> c, ofs |-> ofs],
               (ofs \div BytesPerCluster) + 1))
SeekChain(m, c, ofs) ==           \* val: the sector to cache, 0 for none
  IF c = 0 THEN Ok([m EXCEPT !.val = 0])
  ELSE Then(SeekOn(m, c, ofs), LAMBDA x :
         Advanced([x EXCEPT !.val = IF x.val % SS = 0 THEN 0
                                    ELSE Clust2Sect(x.fp.clust) + x.val \div SS], x.val))
SeekFirst(m) ==                   \* the first cluster of the file
  IF m.fp.sclust # 0 THEN Ok([m EXCEPT !.fp.clust = m.fp.sclust])
  ELSE After(CreateChain(m, 0), LAMBDA g :
         IF Trouble(g.val) # "OK" THEN Abort(g, Trouble(g.val))
         ELSE Ok([g EXCEPT !.fp.sclust = g.val, !.fp.clust = g.val]))
Sought(m, ofs) ==
  LET was == m.fp.fptr
      base == ((was - 1) \div BytesPerCluster) * BytesPerCluster
      rewound == [m EXCEPT !.fp.fptr = 0, !.val = 0]
  IN IF ofs = 0 THEN Ok(rewound)
     ELSE IF was > 0 /\ (ofs - 1) \div BytesPerCluster >= (was - 1) \div BytesPerCluster
     THEN SeekChain([m EXCEPT !.fp.fptr = base], m.fp.clust, ofs - base)
     ELSE Then(SeekFirst(rewound), LAMBDA x : SeekChain(x, x.fp.clust, ofs))
SeekCache_drops(m) ==             \* mutant: a dirty sector is not written back
  IF m.fp.fptr % SS = 0 \/ m.val = m.fp.dsect THEN m
  ELSE Then(OrAbort(LoadBuf(m, m.val)), LAMBDA b : [b EXCEPT !.fp.dsect = m.val])
SeekCache(m) ==
  IF m.fp.fptr % SS = 0 \/ m.val = m.fp.dsect THEN m
  ELSE Then(OrAbort(Then(FlushBuf(m), LAMBDA b : LoadBuf(b, m.val))),
            LAMBDA b : [b EXCEPT !.fp.dsect = m.val])
Grown(m) == IF m.fp.fptr > m.fp.fsize
            THEN Marked([m EXCEPT !.fp.fsize = m.fp.fptr], "WRITTEN") ELSE m
FLseek(m, ofs) ==
  IF "ERROR" \in m.fp.flag THEN Fail(m, "INT_ERR")
  ELSE Then(Then(Sought(m, IF "WRITE" \in m.fp.flag THEN ofs ELSE Min2(ofs, m.fp.fsize)),
                 SeekCache), Grown)

(* f_unlink: a directory only when it is empty; the entry goes before the  *)
(* chain.                                                                  *)
Emptiness(m, c) ==                \* OK when nothing but the dots is in it
  After([Then(DirSdi([m EXCEPT !.dj.sclust = c], 2), DirRead) EXCEPT !.dj = m.dj],
    LAMBDA r : CASE r.res = "OK" -> Fail(r, "DENIED")
                 [] r.res = "NO_FILE" -> Ok(r)
                 [] OTHER -> r)
Removable(m) ==
  LET e == Here(m)
  IN IF e.ro THEN Fail(m, "DENIED")
     ELSE IF e.attr # "dir" THEN m
     ELSE IF e.clst < 2 THEN Fail(m, "INT_ERR")
     ELSE Emptiness(m, e.clst)
FUnlink_chain(m, path) ==         \* mutant: the chain goes before the entry
  Then(FollowPath(m, path), LAMBDA f :
    LET c == Here(f).clst
        freed(x) == Then(IF c = 0 THEN x ELSE RemoveChain(x, c),
                         LAMBDA r : MoveWindow(r, x.winsect))
    IN Then(Then(Then(Removable(f), freed), DirRemove), Sync))
FUnlink(m, path) ==
  Then(FollowPath(m, path), LAMBDA f :
    LET c == Here(f).clst
    IN Then(Then(Removable(f), DirRemove), LAMBDA r :
         Then(IF c = 0 THEN r ELSE RemoveChain(r, c), Sync)))

(* f_mkdir: a cluster, flushed FAT, the dots and blank entries, and only   *)
(* then the entry in the parent; the cluster is freed when that fails.     *)
PutDotsOne(x) ==                  \* x.n sectors are left, from x.s on
  IF x.n = 0 THEN Stop(x, Ok(x.m))
  ELSE OnOk(x, MoveWindow([x.m EXCEPT !.winsect = x.s, !.wflag = TRUE], 0), LAMBDA w :
         [x EXCEPT !.m = [w EXCEPT !.win = Cleared], !.s = @ + 1, !.n = @ - 1])
PutDots(m, s) ==
  Result(While(PutDotsOne, [on |-> TRUE, m |-> m, s |-> s, n |-> CSize], CSize + 1))
ParentOf(m) == IF Fat32 /\ m.dj.sclust = DirBase THEN 0 ELSE m.dj.sclust
Dots(m, c) ==
  [k \in 1..SS |-> CASE k = 1 -> Dot("dot", c)
                         [] k = 2 -> Dot("dotdot", ParentOf(m))
                         [] OTHER -> Blank]
Announced(m, c) == Put(m, [Here(m) EXCEPT !.attr = "dir", !.clst = c])
MakeTable(m, c, n) ==
  LET dots == Then(MoveWindow(m, 0), LAMBDA w :
                PutDots([w EXCEPT !.win = Dots(w, c)], Clust2Sect(c)))
  IN After(Then(dots, LAMBDA d : DirRegister(d, n)), LAMBDA r :
       IF r.res = "OK" THEN Sync(Announced(r, c)) ELSE Fail(RemoveChain(r, c), r.res))
NewTable(m, n) ==
  After(CreateChain(m, 0), LAMBDA g :
    IF g.val \in Cluster THEN MakeTable(Ok(g), g.val, n)
    ELSE Fail(g, IF g.val = 0 THEN "DENIED" ELSE Trouble(g.val)))
FMkdir(m, path) ==
  After(FollowPath(m, path), LAMBDA f :
    CASE f.res = "OK" -> Fail(f, "EXIST")
      [] f.res = "NO_FILE" -> NewTable(f, Last(path))
      [] OTHER -> f)

(* f_rename: the new entry with the old one's contents, the new parent in  *)
(* the dots of a directory that moves, and only then the old entry goes.   *)
ToParent(m, old, e) ==
  IF e.attr # "dir" \/ old.sclust = m.dj.sclust THEN m
  ELSE IF Clust2Sect(e.clst) = 0 THEN Fail(m, "INT_ERR")
  ELSE Then(MoveWindow(m, Clust2Sect(e.clst)), LAMBDA w :
         IF w.win[2].kind = "dotdot"
         THEN [w EXCEPT !.win[2] = Dot("dotdot", ParentOf(w)), !.wflag = TRUE] ELSE w)
FRename_old_first(m, from, to) == \* mutant: the old entry goes first
  Then(FollowPath(m, from), LAMBDA o :
    LET e == Here(o)
        Register(x, dj) == Then(DirRegister([x EXCEPT !.dj = dj], Last(to)),
                                LAMBDA r : Put(r, [e EXCEPT !.sfn = Here(r).sfn]))
    IN After(FollowPath(o, to), LAMBDA f :
         IF f.res # "NO_FILE" THEN f
         ELSE Then(Then(DirRemove([f EXCEPT !.dj = o.dj]),
                        LAMBDA x : Register(x, f.dj)), Sync)))
FRename(m, from, to) ==
  Then(FollowPath(m, from), LAMBDA o :
    LET e == Here(o)
        Moved(x) == Put(x, [e EXCEPT !.sfn = Here(x).sfn])
        Renamed(f) ==
          Then(Then(DirRegister(f, Last(to)), LAMBDA r : ToParent(Moved(r), o.dj, e)),
               LAMBDA r : Then(DirRemove([r EXCEPT !.dj = o.dj]), Sync))
    IN After(FollowPath(o, to), LAMBDA f :
         CASE f.res = "OK" -> Fail(f, "EXIST")
           [] f.res = "NO_FILE" -> Renamed(f)
           [] OTHER -> f))

(* f_chmod, with the read-only bit; f_utime is the same but for the field. *)
FChmod(m, path, ro) ==
  Then(FollowPath(m, path), LAMBDA f :
    IF f.dj.entry THEN Sync(Put(f, [Here(f) EXCEPT !.ro = ro]))
    ELSE Fail(f, "INVALID_NAME"))

(* f_opendir and f_readdir; val is the short form of what was listed.      *)
FOpendir(m, path) ==
  After(Then(FollowPath(m, path), LAMBDA f :
          IF ~f.dj.entry THEN DirSdi(f, 0)
          ELSE IF Here(f).attr = "dir"
          THEN DirSdi([f EXCEPT !.dj.sclust = Here(f).clst], 0)
          ELSE Fail(f, "NO_PATH")),
        LAMBDA r : IF r.res = "NO_FILE" THEN Fail(r, "NO_PATH") ELSE r)
Shown(m, sfn) == [m EXCEPT !.val = sfn]
Ended(m, sfn) == Shown(Ok([m EXCEPT !.dj.sect = 0]), sfn)
Stepped_last(m, sfn) ==           \* mutant: the last entry of a full table is lost
  After(DirNext(m, FALSE), LAMBDA n :
    IF n.res = "NO_FILE" THEN Ended(n, <<>>)
    ELSE Shown(n, IF n.res = "OK" THEN sfn ELSE <<>>))
Stepped(m, sfn) ==
  After(DirNext(m, FALSE), LAMBDA n :
    IF n.res = "NO_FILE" THEN Ended(n, sfn)
    ELSE Shown(n, IF n.res = "OK" THEN sfn ELSE <<>>))
FReaddir(m) ==
  After(DirRead(m), LAMBDA r :
    CASE r.res = "OK" -> Stepped(r, Here(r).sfn)
      [] r.res = "NO_FILE" -> Ended(r, <<>>)
      [] OTHER -> Shown(r, <<>>))
=============================================================================
