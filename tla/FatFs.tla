------------------------------- MODULE FatFs -------------------------------
(* FatFs as its callers see it: every call of ff.c on a mounted volume, in *)
(* any order a program may use, and the loss of power at any disk access.  *)
EXTENDS FatFile

CONSTANTS
  Handle,       \* file objects of the program
  Path,         \* paths of files
  Folder,       \* paths of directories below the root
  MaxMoves,     \* bound: calls of f_write and f_lseek
  MaxPaths,     \* bound: calls with a path that may change the volume
  WriteLens, ReadLens, Offsets,   \* bounds: arguments of the calls
  Modes, Accesses,                \* bounds: how files are opened
  Listed,       \* bound: the directories that are listed
  Uses,         \* bound: the other calls this program makes
  Fuses,        \* bound: which disk access of a call fails, counted from 1,
  Dead,         \* and whether the power is gone with it, for BOOLEAN values
  NoPath

ASSUME CallsAssumption ==
  /\ Path \union Folder \subseteq Seq(Names) \ {<<>>}
  /\ WriteLens \union ReadLens \subseteq Nat /\ Offsets \subseteq 0..FileLimit - 1
  /\ Fuses \subseteq Nat \ {0} /\ Dead \subseteq BOOLEAN

VARIABLES
  vol,          \* the disk and the FATFS object
  fil,          \* handle -> file object
  path,         \* handle -> the path it was opened with
  io,           \* the bytes of the last read or write
  moves,        \* calls of f_write and f_lseek so far; makes every byte unique
  calls,        \* calls with a path so far
  cut,          \* the call in which the power was lost, "none" so far
  list,         \* the directory object, what it has listed, what has stayed
  tree,         \* what the volume holds: path -> entry in its directory
  files         \* and file -> bytes

vars == <<vol, fil, path, io, moves, calls, cut, list, tree, files>>

lost == cut # "none"
NoFault == [fuse |-> 0, dead |-> FALSE]
Faults == {NoFault} \union (IF lost \/ list.on THEN {} ELSE [fuse : Fuses, dead : Dead])

(* The call's view of the volume, mounted first when it is not.            *)
View(f, fp, dj) ==
  [disk |-> vol.disk, win |-> vol.win, winsect |-> vol.winsect, wflag |-> vol.wflag,
   last |-> vol.last, free |-> vol.free, fsi |-> vol.fsi,
   fuse |-> f.fuse, dead |-> f.dead, res |-> "OK", val |-> 0,
   dj |-> dj, fp |-> fp, out |-> <<>>]
Checked(f) ==
  After(View(f, NoFil, NoDir), LAMBDA m : IF vol.mounted THEN m ELSE Mount(m))
OnPath(f, Op(_)) == Then(Checked(f), Op)
OnFil(f, h, Op(_)) == Op(View(f, fil[h], NoDir))

Kept(f, m) ==                     \* a mount that fails leaves the volume unmounted
  [disk |-> m.disk, win |-> m.win, winsect |-> m.winsect, wflag |-> m.wflag,
   last |-> m.last, free |-> m.free, fsi |-> m.fsi, mounted |-> Checked(f).res = "OK"]
OffLine(d) ==
  [disk |-> d, win |-> <<>>, winsect |-> 0, wflag |-> FALSE,
   last |-> 0, free |-> Unknown, fsi |-> FALSE, mounted |-> FALSE]

NotListing == [on |-> FALSE, of |-> <<>>, dj |-> NoDir, seen |-> <<>>, stay |-> {}]

(* A call that ran to its end, and one in which the power went.            *)
Dark(f, m, call) ==
  /\ m.fuse = 0 /\ f.dead
  /\ vol' = OffLine(m.disk)
  /\ cut' = call
  /\ fil' = [h \in Handle |-> NoFil]
  /\ path' = [h \in Handle |-> NoPath]
  /\ list' = NotListing
  /\ UNCHANGED io
Returns(f, m) == m.fuse = 0 /\ ~f.dead /\ vol' = Kept(f, m) /\ UNCHANGED cut

------------------------------------------------------------------------------
(* The directories as they are, window over disk.                          *)
Entries(v, c) ==                    \* the entries of the directory at cluster c
  LET chain == ChainOf(v, IF c = 0 /\ Fat32 THEN DirBase ELSE c)
      sectors == IF c = 0 /\ ~Fat32
                 THEN [k \in 1..NRoot \div SS |-> DirBase + k - 1]
                 ELSE [k \in 1..Len(chain) * CSize |->
                         Clust2Sect(chain[((k - 1) \div CSize) + 1]) + ((k - 1) % CSize)]
  IN FlattenSeq([k \in DOMAIN sectors |-> Seen(v, sectors[k])])
Live(s) == {k \in DOMAIN s : s[k].kind = "entry" /\ \A j \in 1..k : s[j].kind # "blank"}
HasName(s, k, n) ==
  IF Lossy(n) THEN /\ k >= Slots[n]
                   /\ \A j \in 1..Slots[n] - 1 : s[k - j] = Long(n, j, s[k].sfn)
  ELSE s[k].sfn = Short(n, 0)
Found(s, n) == {k \in Live(s) : HasName(s, k, n)}

Within(v, d, n) ==                \* the entry of a name in the directory d, or Blank
  IF d.kind # "entry" \/ d.attr # "dir" THEN Blank
  ELSE LET s == Entries(v, d.clst)
           found == Found(s, n)
       IN IF found = {} THEN Blank ELSE s[CHOOSE k \in found : TRUE]
EntryAt(v, p) ==                  \* of a path, from the root on
  LET upto[k \in 0..Len(p)] ==
        IF k = 0 THEN Entry(<<>>, "dir", 0, 0) ELSE Within(v, upto[k - 1], p[k])
  IN upto[Len(p)]
Tree(v) == [p \in Path \union Folder |-> EntryAt(v, p)]
At(p) == tree[p]

WritersOf(f) == {h \in Handle : f[h].open /\ "WRITE" \in f[h].flag}
OpenHandles == {h \in Handle : fil[h].open}
Writers == WritersOf(fil)
WriterOf(p) == {h \in Writers : path[h] = p}

(* A file is what its writer sees of it, or else what its entry says.      *)
Bytes(v, c, size, Sector(_)) ==
  LET chain == ChainOf(v, c)
      At0(i) == LET s == Clust2Sect(chain[(i \div BytesPerCluster) + 1])
                         + (i % BytesPerCluster) \div SS
                IN Sector(s)[(i % SS) + 1]
  IN [i \in 1..size |-> At0(i - 1)]
Contents(v, f, who, e) ==
  IF who # {}
  THEN LET o == f[CHOOSE h \in who : TRUE]
           Cached(s) == IF "DIRTY" \in o.flag /\ o.dsect = s THEN o.buf ELSE v.disk[s]
       IN Bytes(v, o.sclust, o.fsize, Cached)
  ELSE Bytes(v, e.clst, e.size, LAMBDA s : v.disk[s])
Stored(v, t, f, on) ==
  [p \in {q \in Path : t[q].kind = "entry" /\ t[q].attr = "file"} |->
     Contents(v, f, {h \in WritersOf(f) : on[h] = p}, t[p])]

Store == INSTANCE FileStore WITH
  at <- [h \in Handle |-> IF fil[h].open
                          THEN [path |-> path[h], pos |-> fil[h].fptr] ELSE NoPath],
  writer <- Writers

------------------------------------------------------------------------------
(* What a program may do: FatFs is built without file locks (_FS_SHARE 0), *)
(* so a file that is written is opened once, and an open one is neither    *)
(* removed nor renamed.  After a power loss the volume is only looked at.  *)
InUse(p) == \E h \in OpenHandles : path[h] = p
Changes == ~lost
Counts(p, n) ==                   \* bounds the calls of a behaviour
  /\ calls + p <= MaxPaths /\ calls' = calls + p
  /\ moves + n <= MaxMoves /\ moves' = moves + n

(* The listing keeps what has stayed since it began (NotListing: of one at *)
(* its end, only what the last call has shown).                            *)
Stay(q) == list' = [list EXCEPT !.stay = IF list.on THEN @ \ {q} ELSE @]

Open(h, p, mode, access) ==
  /\ ~fil[h].open
  /\ Changes /\ ("WRITE" \in access => ~InUse(p))
  /\ mode # "EXISTING" => "WRITE" \in access
  /\ WriterOf(p) = {}
  /\ Counts(1, 0)
  /\ \E f \in Faults :
     \E m \in {OnPath(f, LAMBDA c : FOpen(c, p, mode, access))} :
       \/ Dark(f, m, IF mode = "CREATE" THEN "overwrite" ELSE "other")
       \/ /\ Returns(f, m)
          /\ fil' = [fil EXCEPT ![h] = m.fp]
          /\ path' = [path EXCEPT ![h] = IF m.fp.open THEN p ELSE NoPath]
          /\ UNCHANGED <<io, list>>

OfFil(h, n, Op(_)) ==             \* a call on an open file, without data
  /\ fil[h].open
  /\ Counts(0, n)
  /\ \E f \in Faults : \E m \in {OnFil(f, h, Op)} :
       \/ Dark(f, m, "other")
       \/ /\ Returns(f, m)
          /\ fil' = [fil EXCEPT ![h] = m.fp]
          /\ path' = [path EXCEPT ![h] = IF m.fp.open THEN @ ELSE NoPath]
          /\ UNCHANGED <<io, list>>

Read(h, n) ==
  /\ fil[h].open /\ "READ" \in fil[h].flag
  /\ Counts(0, 0)
  /\ \E f \in Faults : \E m \in {OnFil(f, h, LAMBDA v : FRead(v, n))} :
       \/ Dark(f, m, "other")
       \/ /\ Returns(f, m)
          /\ fil' = [fil EXCEPT ![h] = m.fp]
          /\ io' = m.out
          /\ UNCHANGED <<path, list>>

Stamped(n) == [i \in 1..n |-> [kind |-> "byte", of |-> <<moves, i>>]]
Write(h, n) ==
  /\ h \in Writers
  /\ Counts(0, 1)
  /\ \E f \in Faults : \E m \in {OnFil(f, h, LAMBDA v : FWrite(v, Stamped(n)))} :
       \/ Dark(f, m, "other")
       \/ /\ Returns(f, m)
          /\ fil' = [fil EXCEPT ![h] = m.fp]
          /\ io' = Stamped(n)
          /\ UNCHANGED <<path, list>>

Lseek(h, ofs) == OfFil(h, 1, LAMBDA v : FLseek(v, ofs))
SyncFile(h) == h \in Writers /\ OfFil(h, 0, FSync)
Close(h) == OfFil(h, 0, FClose)

OfPath(call, q, Op(_)) ==         \* a call on a path that may change the volume
  /\ Changes
  /\ Counts(1, 0)
  /\ \E f \in Faults : \E m \in {OnPath(f, Op)} :
       \/ Dark(f, m, call)
       \/ /\ Returns(f, m)
          /\ Stay(q)
          /\ UNCHANGED <<fil, path, io>>

Unlink(p) == ~InUse(p) /\ ~(list.on /\ list.of = p) /\ OfPath("unlink", p, LAMBDA c : FUnlink(c, p))
Mkdir(p) == OfPath("other", <<>>, LAMBDA c : FMkdir(c, p))
Rename(p, q) == "rename" \in Uses /\ p # q /\ ~InUse(p) /\ ~InUse(q) /\ OfPath("rename", p, LAMBDA c : FRename(c, p, q))
Chmod(p, ro) == "chmod" \in Uses /\ ~InUse(p) /\ OfPath("other", <<>>, LAMBDA c : FChmod(c, p, ro))

Getfree ==
  /\ "getfree" \in Uses
  /\ Counts(1, 0)
  /\ \E m \in {OnPath(NoFault, GetFree)} : Returns(NoFault, m)
  /\ UNCHANGED <<fil, path, io, list>>

Opendir(p) ==
  /\ p \in Listed /\ ~list.on
  /\ Counts(0, 0)
  /\ \E m \in {OnPath(NoFault, LAMBDA c : FOpendir(c, p))} :
       /\ Returns(NoFault, m) /\ m.res = "OK"
       /\ list' = [on |-> TRUE, of |-> p, dj |-> m.dj, seen |-> <<>>,
                   stay |-> {q \in Path \union Folder :
                               Front(q) = p /\ At(q).kind = "entry"}]
  /\ UNCHANGED <<fil, path, io>>
Readdir ==
  /\ list.on
  /\ Counts(0, 0)
  /\ \E r \in {FReaddir(View(NoFault, NoFil, list.dj))} :
       /\ Returns(NoFault, r)
       /\ LET told == IF r.val = <<>> THEN <<>> ELSE <<r.val>>
          IN list' = IF r.val = <<>> \/ r.dj.sect = 0
                     THEN [NotListing EXCEPT !.seen = told]
                     ELSE [list EXCEPT !.dj = r.dj, !.seen = @ \o told]
  /\ UNCHANGED <<fil, path, io>>

(* A freshly formatted volume that is not mounted yet.                     *)
FatSector(k) == [i \in 0..PerFat - 1 |->
                   LET c == k * PerFat + i
                   IN IF c < 2 \/ (Fat32 /\ c = DirBase) \/ c \notin Cluster THEN EOC ELSE 0]
Formatted ==
  LET Kind(s) ==
        CASE s < FatBase + NFats * FatSize -> FatSector((s - FatBase) % FatSize)
          [] s = FsInfo -> [free |-> NClusters - 1, last |-> 2]
          [] OTHER -> Cleared
  IN [s \in FatBase..FsInfo |-> Kind(s)]

Init ==
  /\ vol = OffLine(Formatted)
  /\ fil = [h \in Handle |-> NoFil]
  /\ path = [h \in Handle |-> NoPath]
  /\ io = <<>> /\ moves = 0 /\ calls = 0 /\ cut = "none"
  /\ list = NotListing
  /\ tree = Tree(vol)
  /\ files = Stored(vol, tree, fil, path)

FileCall(h) ==
  \/ \E p \in Path, mode \in Modes, access \in Accesses : Open(h, p, mode, access)
  \/ \E n \in ReadLens : Read(h, n)
  \/ \E n \in WriteLens : Write(h, n)
  \/ \E ofs \in Offsets : Lseek(h, ofs)
  \/ SyncFile(h)
  \/ Close(h)
PathCall ==
  \/ \E p \in Path \union Folder : Unlink(p)
  \/ \E p \in Folder : Mkdir(p)
  \/ \E p, q \in Path : Rename(p, q)
  \/ \E p \in Path, ro \in BOOLEAN : Chmod(p, ro)
  \/ Getfree
  \/ \E p \in Folder \union {<<>>} : Opendir(p)
  \/ Readdir
Next ==
  /\ (\E h \in Handle : FileCall(h)) \/ PathCall
  /\ tree' = Tree(vol')
  /\ files' = Stored(vol', tree', fil', path')

Spec == Init /\ [][Next]_vars

------------------------------------------------------------------------------
(* Every file's and folder's first cluster, as the program sees it.        *)
Objects == {p \in Path \union Folder : At(p).kind = "entry"}
FirstOf(p) == IF WriterOf(p) # {} THEN fil[CHOOSE h \in WriterOf(p) : TRUE].sclust
              ELSE At(p).clst
SizeOf(p) == IF WriterOf(p) # {} THEN fil[CHOOSE h \in WriterOf(p) : TRUE].fsize
             ELSE At(p).size
Chains == [p \in Objects |-> ChainOf(vol, FirstOf(p))]
RootClusters == IF Fat32 /\ vol.mounted THEN ToSet(ChainOf(vol, DirBase)) ELSE {}

(* A chain begins in the data area, ends with the end mark, visits no      *)
(* cluster twice and is long enough for the size of its file.              *)
Whole(c, p) ==
  IF FirstOf(p) = 0 THEN SizeOf(p) = 0
  ELSE /\ c # <<>> /\ IsInjective(c) /\ Fat(vol, Last(c)) = EOC
       /\ Len(c) * BytesPerCluster >= SizeOf(p)

(* No cluster belongs to two files, every chain is whole, and no cluster   *)
(* is lost: also on the disk as a power loss leaves it, but for clusters   *)
(* nobody owns and the two names of a file whose f_rename was cut off      *)
(* ("any interruption or error can cause cross-link", ff.c:3445).          *)
ChainsSound == \A chain \in {Chains}, root \in {RootClusters} :
  /\ \A p \in Objects : Whole(chain[p], p) /\ ToSet(chain[p]) \cap root = {}
  /\ \A p, q \in Objects : p # q /\ ~(cut = "rename" /\ FirstOf(p) = FirstOf(q)) =>
       ToSet(chain[p]) \cap ToSet(chain[q]) = {}
  /\ vol.mounted /\ ~lost =>
       {c \in Cluster : Fat(vol, c) # 0} = root \union UNION {ToSet(chain[p]) : p \in Objects}

(* The number of free clusters, when it is known, is right, although       *)
(* create_chain and remove_chain keep it without ever counting again, and  *)
(* the copies of the FAT agree but for the sector still in the window.     *)
FreeCountRight ==
  vol.free # Unknown => vol.free = Cardinality({c \in Cluster : Fat(vol, c) = 0})
CopiesAgree ==
  NFats = 2 => \A s \in FatBase..FatBase + FatSize - 1 :
    (s = vol.winsect /\ vol.wflag) \/ vol.disk[s] = vol.disk[s + FatSize]
FatConsistent == vol.mounted /\ ~lost => FreeCountRight /\ CopiesAgree

(* A listing that has come to its end has shown every file and folder that *)
(* was there all the time, and shown it once, whatever was made or removed *)
(* meanwhile.                                                              *)
ShortOf(p) == At(p).sfn
ListsAll == [][list.on /\ ~list'.on /\ cut' = "none" =>
  LET seen == list.seen \o list'.seen
  IN \A q \in list.stay : Cardinality({i \in DOMAIN seen : seen[i] = ShortOf(q)}) = 1]_vars

(* A call on an open file that does not report a failure changes no byte   *)
(* but those it was to write: create_chain tells a disk error from the end *)
(* of a chain ("0xFFFFFFFF:Disk error", ff.c:978).                         *)
KeepsTheRest == [][\A h \in OpenHandles :
  fil'[h].open /\ "ERROR" \notin fil'[h].flag =>
    LET p == path[h]
        moved == IF io' = io THEN {} ELSE fil[h].fptr + 1..fil'[h].fptr
    IN \A i \in DOMAIN files[p] \ moved : files'[p][i] = files[p][i]]_vars

(* FatFs implements the store of byte sequences, power loss included.      *)
StoresFiles == Store!Spec
=============================================================================
