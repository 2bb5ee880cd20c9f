---------------------------- MODULE FatFsProofs ----------------------------
(***************************************************************************)
(* The free count and the two FATs stay right, for every volume, whatever  *)
(* calls a program makes, with whatever arguments and in whatever order.   *)
(* The inductive invariant is FatInv; it is carried through the calls      *)
(* bottom up: each operator of FatVolume, FatDir and FatFile is shown to   *)
(* keep it when no access fails, the loops with the rule of LoopProofs.    *)
(***************************************************************************)
EXTENDS FatFsInv, TLAPS, FiniteSetTheorems, SequenceTheorems, WellFoundedInduction

(* A set of natural numbers has a least element, and so there is induction *)
(* over a set.                                                             *)
LEMMA LeastElement ==
  ASSUME NEW T, T \subseteq Nat, T # {}
  PROVE \E x \in T : \A y \in T : x <= y
<1>1. IsWellFoundedOn(OpToRel(<, Nat), Nat) BY NatLessThanWellFounded
<1>2. PICK x \in T : \A y \in T : ~(<<y, x>> \in OpToRel(<, Nat)) BY <1>1, WFMin
<1>3. \A y \in T : ~(y < x) BY <1>2 DEF OpToRel
<1> QED BY <1>3

LEMMA SetInduction ==
  ASSUME NEW T, 0 \in T, \A n \in Nat : n \in T => n + 1 \in T
  PROVE Nat \subseteq T
<1> DEFINE U == {n \in Nat : n \notin T}
<1> SUFFICES ASSUME U # {} PROVE FALSE OBVIOUS
<1>1. PICK x \in U : \A y \in U : x <= y BY LeastElement
<1>2. x # 0 OBVIOUS
<1>3. x - 1 \in Nat /\ x - 1 \notin U BY <1>1, <1>2
<1> QED BY <1>3

(* Numbers.                                                                *)
LEMMA DivMod ==
  ASSUME NEW a \in Nat, NEW n \in Nat \ {0}
  PROVE /\ a \div n \in Nat /\ a % n \in 0..n - 1 /\ a = n * (a \div n) + (a % n)
BY Z3

LEMMA DivModOf ==                 \* what a quotient and a remainder are
  ASSUME NEW n \in Nat \ {0}, NEW q \in Nat, NEW r \in 0..n - 1
  PROVE (n * q + r) \div n = q /\ (n * q + r) % n = r
<1> DEFINE a == n * q + r
           p == a \div n
           s == a % n
<1>1. a \in Nat BY Z3
<1>2. p \in Nat /\ s \in 0..n - 1 /\ a = n * p + s BY <1>1, DivMod
<1> HIDE DEF a, p, s
<1>3. n * q + r = n * p + s BY <1>2 DEF a
<1>4. p = q
  <2>1. CASE p < q
    <3>1. n * q >= n * (p + 1) BY <1>2, <2>1, Z3
    <3>2. n * (p + 1) = n * p + n BY <1>2, Z3
    <3> QED BY <3>1, <3>2, <1>2, <1>3
  <2>2. CASE p > q
    <3>1. n * p >= n * (q + 1) BY <1>2, <2>2, Z3
    <3>2. n * (q + 1) = n * q + n BY Z3
    <3> QED BY <3>1, <3>2, <1>2, <1>3
  <2> QED BY <2>1, <2>2, <1>2
<1>5. s = r BY <1>3, <1>4, <1>2
<1> QED BY <1>4, <1>5 DEF a, p, s

LEMMA Times ==                    \* products of natural numbers
  ASSUME NEW n \in Nat, NEW a \in Nat
  PROVE /\ n * a \in Nat /\ a * n = n * a /\ (a + 1) * n = a * n + n
        /\ \A b \in Nat : a <= b => a * n <= b * n
<1>1. n * a \in Nat /\ a * n = n * a /\ (a + 1) * n = a * n + n BY Z3
<1>2. ASSUME NEW b \in Nat, a <= b PROVE a * n <= b * n BY <1>2, Z3
<1> QED BY <1>1, <1>2

LEMMA Geometry ==
  /\ FatSize \in Nat \ {0} /\ PerFat \in Nat \ {0} /\ SS \in Nat \ {0}
  /\ NClusters \in Nat \ {0} /\ CSize \in Nat \ {0} /\ NFats \in {1, 2} /\ NRoot \in Nat
  /\ NRoot \div SS \in Nat /\ NRoot = SS * (NRoot \div SS)
  /\ FatSize * PerFat >= NClusters + 2 /\ (Fat32 => NRoot = 0) /\ Fat32 \in BOOLEAN
  /\ NClusters * CSize \in Nat /\ NFats * FatSize \in {FatSize, 2 * FatSize}
<1>1. /\ FatSize \in Nat \ {0} /\ PerFat \in Nat \ {0} /\ SS \in Nat \ {0}
      /\ NClusters \in Nat \ {0} /\ NFats \in {1, 2} /\ NRoot \in Nat
      /\ NRoot % SS = 0 /\ (Fat32 => NRoot = 0) /\ Fat32 \in BOOLEAN
      /\ FatSize * PerFat >= NClusters + 2
  BY VolumeAssumption DEF VolumeAssumption
<1>2. CSize \in Nat \ {0} BY VolumeAssumption DEF VolumeAssumption
<1>3. NRoot \div SS \in Nat /\ NRoot = SS * (NRoot \div SS)
  <2>1. /\ NRoot \div SS \in Nat /\ NRoot % SS \in 0..SS - 1
        /\ NRoot = SS * (NRoot \div SS) + (NRoot % SS)
    BY <1>1, DivMod
  <2> DEFINE n == SS * (NRoot \div SS)
  <2>2. n \in Nat BY <1>1, <2>1, Times
  <2> HIDE DEF n
  <2>3. NRoot = n BY <1>1, <2>1, <2>2 DEF n
  <2> QED BY <2>1, <2>3 DEF n
<1>4. NFats * FatSize \in {FatSize, 2 * FatSize} BY <1>1
<1>5. NClusters * CSize \in Nat BY <1>1, <1>2, Times
<1> QED BY <1>1, <1>2, <1>3, <1>4, <1>5

LEMMA Layout ==
  /\ DataBase \in Nat /\ FsInfo \in Nat /\ DirBase \in Nat /\ NFatEnt \in Nat
  /\ EOC \in Nat /\ DiskErr \in Nat
  /\ FatArea \subseteq DOMAIN [s \in FatBase..FsInfo |-> 0]
  /\ Tables \subseteq Nat \ {0} /\ FatArea \subseteq Nat \ {0}
  /\ \A s \in FatArea : s \notin Tables /\ s + FatSize \notin FatArea
                        /\ (NFats = 2 => s + FatSize \notin Tables)
  /\ Cluster = 2..NClusters + 1 /\ EOC = NClusters + 2 /\ DiskErr = NClusters + 3
  /\ FsInfo \notin Tables /\ FsInfo \notin FatArea
BY Geometry DEF DataBase, FsInfo, DirBase, NFatEnt, EOC, DiskErr, FatArea, Tables, FatBase, Cluster

LEMMA FatPlace ==                 \* the place of a cluster's entry in the FAT
  ASSUME NEW c \in Cluster
  PROVE /\ FatSect(c) \in FatArea /\ c % PerFat \in 0..PerFat - 1
        /\ \A d \in Cluster : d # c => FatSect(d) # FatSect(c) \/ d % PerFat # c % PerFat
<1>1. \A d \in Cluster : d \in Nat /\ d < FatSize * PerFat BY Geometry, Layout
<1>2. \A d \in Cluster : /\ d \div PerFat \in Nat /\ d % PerFat \in 0..PerFat - 1
                         /\ d = PerFat * (d \div PerFat) + (d % PerFat)
  BY <1>1, DivMod, Geometry
<1>3. c \div PerFat < FatSize
  <2> DEFINE q == c \div PerFat
             r == c % PerFat
  <2>1. q \in Nat /\ r \in Nat /\ c = PerFat * q + r /\ c < FatSize * PerFat BY <1>1, <1>2
  <2> HIDE DEF q, r
  <2>2. SUFFICES ASSUME q >= FatSize PROVE FALSE BY <2>1, Geometry DEF q
  <2>3. PerFat * q >= PerFat * FatSize BY <2>1, <2>2, Geometry, Z3
  <2>4. PerFat * FatSize = FatSize * PerFat BY Geometry, Z3
  <2> QED BY <2>1, <2>3, <2>4, Geometry
<1>4. FatSect(c) \in FatArea BY <1>2, <1>3, Geometry DEF FatSect, FatArea, FatBase
<1>5. ASSUME NEW d \in Cluster, FatSect(d) = FatSect(c), d % PerFat = c % PerFat PROVE d = c
  <2>1. d \div PerFat = c \div PerFat BY <1>2, <1>5, Geometry DEF FatSect, FatBase
  <2> QED BY <2>1, <1>2, <1>5
<1> QED BY <1>2, <1>4, <1>5

LEMMA ClusterPlace ==             \* a cluster's sectors
  ASSUME NEW c \in Cluster, NEW k \in 0..CSize - 1
  PROVE Clust2Sect(c) + k \in Tables /\ Clust2Sect(c) \in Nat
<1>1. c - 2 \in 0..NClusters - 1 BY Layout, Geometry
<1>2. (c - 2) * CSize \in Nat /\ (c - 2) * CSize + CSize <= NClusters * CSize
  <2> DEFINE a == c - 2
  <2>1. a \in Nat /\ a + 1 \in Nat /\ a + 1 <= NClusters BY <1>1, Geometry
  <2> HIDE DEF a
  <2>2. (a + 1) * CSize <= NClusters * CSize /\ (a + 1) * CSize = a * CSize + CSize
    BY <2>1, Times, Geometry
  <2>3. a * CSize \in Nat BY <2>1, Times, Geometry
  <2> QED BY <2>2, <2>3 DEF a
<1> DEFINE at == (c - 2) * CSize
           all == NClusters * CSize
<1>3. at \in Nat /\ all \in Nat /\ at + CSize <= all BY <1>2, Geometry
<1> HIDE DEF at, all
<1>4. Clust2Sect(c) = at + DataBase BY DEF Clust2Sect, at
<1>5. FsInfo = DataBase + all BY DEF FsInfo, all
<1>6. DataBase \in Nat /\ DataBase >= FatBase + NFats * FatSize BY Geometry DEF DataBase, FatBase
<1> QED BY <1>3, <1>4, <1>5, <1>6, Geometry DEF Tables, FatBase

(* The record of a call in which no access fails.                          *)
Fields == {"disk", "win", "winsect", "wflag", "last", "free", "fsi",
           "fuse", "dead", "res", "val", "dj", "fp", "out"}
Machine(m) == Fields \subseteq DOMAIN m /\ m.fuse = 0 /\ m.dead = FALSE
Base(m) == Machine(m) /\ BaseOk(m)
Good(m) == Machine(m) /\ VolOk(m)

(* What a step of a call leaves alone.                                     *)
SameInfo(m, w) == w.last = m.last /\ w.free = m.free /\ w.fsi = m.fsi
SameObjects(m, w) == w.dj = m.dj /\ w.fp = m.fp
SameVol(m, w) ==
  /\ w.disk = m.disk /\ w.win = m.win /\ w.winsect = m.winsect /\ w.wflag = m.wflag
  /\ SameInfo(m, w)
SameFat(m, w) == \A c \in Cluster : Fat(w, c) = Fat(m, c)

(* Nothing but the window moves.                                           *)
Moves(m, w) ==
  /\ Base(m) => Base(w)
  /\ SameFat(m, w) /\ SameInfo(m, w) /\ SameObjects(m, w)

LEMMA SameVolOk ==
  ASSUME NEW m, NEW w, SameVol(m, w)
  PROVE /\ BaseOk(w) = BaseOk(m) /\ CountOk(w) = CountOk(m) /\ VolOk(w) = VolOk(m)
        /\ \A c : Fat(w, c) = Fat(m, c)
<1> USE DEF SameVol, SameInfo
<1>1. \A c : Fat(w, c) = Fat(m, c) BY DEF Fat, Seen
<1>2. FreeSet(w) = FreeSet(m) BY <1>1 DEF FreeSet
<1>3. CountOk(w) = CountOk(m) BY <1>2 DEF CountOk
<1>4. BaseOk(w) = BaseOk(m) BY DEF BaseOk, WinOk, CopiesOk, InfoOk
<1> QED BY <1>1, <1>3, <1>4 DEF VolOk

LEMMA SameFatCount ==
  ASSUME NEW m, NEW w, SameFat(m, w), w.free = m.free
  PROVE CountOk(w) = CountOk(m)
<1>1. FreeSet(w) = FreeSet(m) BY DEF FreeSet, SameFat
<1> QED BY <1>1 DEF CountOk

LEMMA AccessOk ==
  ASSUME NEW m, Machine(m)
  PROVE /\ Machine(Access(m)) /\ SameVol(m, Access(m)) /\ SameObjects(m, Access(m))
        /\ Access(m).res = "OK" /\ Access(m).val = m.val /\ Access(m).out = m.out
BY DEF Machine, Fields, SameVol, SameInfo, SameObjects, Access, Fails, Burnt, Ok

Wrote(m, s, c, w) ==              \* a sector is written
  /\ Machine(w) /\ SameInfo(m, w) /\ SameObjects(m, w)
  /\ w.disk = [m.disk EXCEPT ![s] = c]
  /\ w.win = m.win /\ w.winsect = m.winsect /\ w.wflag = m.wflag
  /\ w.res = "OK" /\ w.val = m.val

LEMMA WriteOk ==
  ASSUME NEW m, NEW s, NEW c, Machine(m)
  PROVE Wrote(m, s, c, DiskWrite(m, s, c))
<1> DEFINE a == Access(m)
<1>1. /\ Machine(a) /\ SameVol(m, a) /\ SameObjects(m, a) /\ a.res = "OK" /\ a.val = m.val
  BY AccessOk
<1> HIDE DEF a
<1>2. DiskWrite(m, s, c) = [a EXCEPT !.disk[s] = c] BY <1>1 DEF DiskWrite, Then, a
<1> QED BY <1>1, <1>2 DEF Wrote, Machine, Fields, SameVol, SameInfo, SameObjects

LEMMA Sectors ==
  /\ FatArea \subseteq FatBase..FsInfo /\ Tables \subseteq FatBase..FsInfo
  /\ FsInfo \in FatBase..FsInfo
  /\ \A s \in FatArea : NFats = 2 => s + FatSize \in FatBase..FsInfo
  /\ \A s \in FatArea : s < FatBase + FatSize
  /\ \A s \in Tables : ~(s < FatBase + FatSize)
<1> DEFINE root == NRoot \div SS
           all == NClusters * CSize
           fats == NFats * FatSize
<1>1. root \in Nat /\ all \in Nat /\ fats \in {FatSize, 2 * FatSize}
      /\ (NFats = 2 => fats = 2 * FatSize) /\ FatSize \in Nat \ {0}
  BY Geometry
<1> HIDE DEF root, all, fats
<1>2. FsInfo = 1 + fats + root + all BY DEF FsInfo, DataBase, FatBase, root, all, fats
<1>3. Tables = 1 + fats..FsInfo - 1 BY DEF Tables, FatBase, fats
<1> QED BY <1>1, <1>2, <1>3 DEF FatArea, FatBase

(* What a table's sector holds, on the disk or in the window, is safe.     *)
Held(m, t) == m.winsect = t => m.wflag \/ m.win = m.disk[t]
Secures(m, w) == \A t \in Tables : Held(m, t) => Held(w, t) /\ Seen(w, t) = Seen(m, t)

(* A write changes one sector; the window, clean or on another one, stays. *)
LEMMA WriteBackOk ==
  ASSUME NEW m, Base(m)
  PROVE LET w == WriteBack(m)
        IN /\ Base(w) /\ SameFat(m, w) /\ SameInfo(m, w) /\ SameObjects(m, w)
           /\ w.res = "OK" /\ w.val = m.val /\ w.wflag = FALSE
           /\ w.win = m.win /\ w.winsect = m.winsect /\ Secures(m, w)
<1> DEFINE w == WriteBack(m)
<1>1. Machine(m) /\ DiskOk(m.disk) /\ WinOk(m) /\ CopiesOk(m) /\ InfoOk(m) BY DEF Base, BaseOk
<1>2. CASE ~m.wflag
  <2>1. w = Ok(m) BY <1>2 DEF WriteBack
  <2>2. Machine(w) /\ SameVol(m, w) /\ SameObjects(m, w) /\ w.res = "OK" /\ w.val = m.val
    BY <2>1, <1>1 DEF Ok, Machine, Fields, SameVol, SameInfo, SameObjects
  <2>3. w.wflag = FALSE BY <2>2, <1>1, <1>2 DEF WinOk, SameVol
  <2>4. Secures(m, w) BY <2>2 DEF SameVol, Secures, Held, Seen
  <2> QED BY <2>2, <2>3, <2>4, SameVolOk DEF Base, SameVol, SameFat
<1>3. CASE m.wflag
  <2> DEFINE s == m.winsect
             a == DiskWrite(m, s, m.win)
             b == [a EXCEPT !.wflag = FALSE]
             c == Ok(DiskWrite(b, b.winsect + FatSize, b.win))
  <2>1. s \in FatArea \/ s \in Tables BY <1>1, <1>3 DEF WinOk
  <2>2. /\ Machine(a) /\ SameInfo(m, a) /\ SameObjects(m, a)
        /\ a.disk = [m.disk EXCEPT ![s] = m.win] /\ a.win = m.win /\ a.winsect = s
        /\ a.res = "OK" /\ a.val = m.val
    <3>1. Wrote(m, s, m.win, a) BY <1>1, WriteOk
    <3> QED BY <3>1 DEF Wrote
  <2>3. w = Reflect(b) BY <1>3, <2>2 DEF WriteBack, Then
  <2> HIDE DEF a
  <2>4. /\ Machine(b) /\ SameInfo(m, b) /\ SameObjects(m, b)
        /\ b.disk = [m.disk EXCEPT ![s] = m.win] /\ b.win = m.win /\ b.winsect = s
        /\ b.res = "OK" /\ b.val = m.val /\ b.wflag = FALSE
    BY <2>2 DEF Machine, Fields, SameInfo, SameObjects
  <2> HIDE DEF b
  <2>5. /\ Machine(w) /\ SameInfo(m, w) /\ SameObjects(m, w)
        /\ w.win = m.win /\ w.winsect = s /\ w.res = "OK" /\ w.val = m.val /\ w.wflag = FALSE
        /\ w.disk = IF s < FatBase + FatSize /\ NFats = 2
                    THEN [b.disk EXCEPT ![s + FatSize] = m.win] ELSE b.disk
    <3>1. CASE s < FatBase + FatSize /\ NFats = 2
      <4> DEFINE d == DiskWrite(b, b.winsect + FatSize, b.win)
      <4>1. /\ Machine(d) /\ SameInfo(b, d) /\ SameObjects(b, d)
            /\ d.disk = [b.disk EXCEPT ![b.winsect + FatSize] = b.win] /\ d.win = b.win
            /\ d.winsect = b.winsect /\ d.wflag = b.wflag /\ d.val = b.val
        <5>1. Wrote(b, b.winsect + FatSize, b.win, d) BY <2>4, WriteOk
        <5> QED BY <5>1 DEF Wrote
      <4>2. w = Ok(d) BY <3>1, <2>3, <2>4 DEF Reflect
      <4> HIDE DEF d
      <4> QED BY <4>1, <4>2, <2>4, <3>1 DEF Ok, Machine, Fields, SameInfo, SameObjects
    <3>2. CASE ~(s < FatBase + FatSize /\ NFats = 2)
      <4>1. w = b BY <3>2, <2>3, <2>4 DEF Reflect
      <4> QED BY <4>1, <2>4, <3>2
    <3> QED BY <3>1, <3>2
  <2> HIDE DEF w, s
  <2> DEFINE m1 == m.win
  <2>6. DOMAIN w.disk = FatBase..FsInfo /\ DOMAIN m.disk = FatBase..FsInfo
    BY <2>5, <2>4, <1>1 DEF DiskOk
  <2>20. \A t \in FatBase..FsInfo : b.disk[t] = IF t = s THEN m.win ELSE m.disk[t]
    BY <2>4, <2>6
  <2>21. \A t \in FatBase..FsInfo : t # s + FatSize \/ NFats # 2 \/ s \in Tables =>
           w.disk[t] = b.disk[t]
    <3>1. DOMAIN b.disk = FatBase..FsInfo BY <2>4, <2>6
    <3>2. s \in Tables => ~(s < FatBase + FatSize) BY Sectors
    <3> QED BY <2>5, <3>1, <3>2
  <2>7. \A t \in FatArea : w.disk[t] = IF t = s THEN m.win ELSE m.disk[t]
    BY <2>20, <2>21, <2>1, Sectors, Layout
  <2>8. \A t \in Tables : w.disk[t] = IF t = s THEN m.win ELSE m.disk[t]
    BY <2>20, <2>21, <2>1, Sectors, Layout
  <2>9. (s \in FatArea => m.win \in [0..PerFat - 1 -> FatLink])
        /\ (s \in Tables => TableOk(m.win))
    BY <1>1 DEF WinOk, s
  <2>10. DiskOk(w.disk) BY <2>6, <2>7, <2>8, <2>9, <1>1 DEF DiskOk
  <2>11. WinOk(w) BY <2>5, <2>7, <2>9, <1>1 DEF WinOk, s
  <2>12. CopiesOk(w)
    <3> SUFFICES ASSUME NFats = 2, NEW t \in FatArea PROVE w.disk[t] = w.disk[t + FatSize]
      BY DEF CopiesOk
    <3>1. t + FatSize \in FatBase..FsInfo /\ t + FatSize \notin FatArea
      BY Sectors, Layout
    <3>2. t + FatSize \notin Tables BY Layout
    <3>3. CASE t = s
      BY <3>1, <3>2, <3>3, <2>4, <2>5, <2>6, <2>7, Sectors
    <3>4. CASE t # s
      <4>1. m.disk[t] = m.disk[t + FatSize] BY <3>4, <1>1 DEF CopiesOk, s
      <4>2. t + FatSize # s BY <2>1, <3>1, <3>2
      <4>3. s \in FatArea => t + FatSize # s + FatSize
        BY <3>4, Layout, Geometry
      <4>4. w.disk[t + FatSize] = m.disk[t + FatSize]
        BY <3>1, <2>1, <2>20, <2>21, <4>2, <4>3
      <4> QED BY <4>1, <4>4, <2>7, <3>4
    <3> QED BY <3>3, <3>4
  <2>13. InfoOk(w) BY <2>5, <1>1 DEF InfoOk, SameInfo
  <2>14. SameFat(m, w)
    <3> SUFFICES ASSUME NEW c1 \in Cluster PROVE Seen(w, FatSect(c1)) = Seen(m, FatSect(c1))
      BY DEF SameFat, Fat
    <3>1. FatSect(c1) \in FatArea BY FatPlace
    <3> QED BY <3>1, <2>5, <2>7 DEF Seen, s
  <2>15. Secures(m, w) BY <2>5, <2>8, <1>3 DEF Secures, Held, Seen, s
  <2> QED BY <2>5, <2>10, <2>11, <2>12, <2>13, <2>14, <2>15 DEF Base, BaseOk, w, s
<1>4. m.wflag \in BOOLEAN BY <1>1 DEF WinOk
<1> QED BY <1>2, <1>3, <1>4

(* The window on another sector.                                           *)
Places == {0} \union FatArea \union Tables
Moved(m, s, w) ==
  /\ Secures(m, w)
  /\ Base(w) /\ SameFat(m, w) /\ SameInfo(m, w) /\ SameObjects(m, w)
  /\ w.res = "OK" /\ w.val = m.val
  /\ s # 0 => w.winsect = s
  /\ s = 0 => w.wflag = FALSE /\ w.winsect = m.winsect /\ w.win = m.win

LEMMA LoadOk ==
  ASSUME NEW m, NEW s \in FatArea \union Tables, Base(m), m.wflag = FALSE
  PROVE Moved(m, s, Load(m, s))
<1> DEFINE a == Access(m)
           w == Load(m, s)
<1>1. Machine(m) /\ DiskOk(m.disk) /\ WinOk(m) /\ CopiesOk(m) /\ InfoOk(m) BY DEF Base, BaseOk
<1>2. /\ Machine(a) /\ SameVol(m, a) /\ SameObjects(m, a) /\ a.res = "OK" /\ a.val = m.val
  BY <1>1, AccessOk
<1> HIDE DEF a
<1>3. w = [a EXCEPT !.win = a.disk[s], !.winsect = s] BY <1>2 DEF Load, Then, a
<1> HIDE DEF w
<1>4. /\ Machine(w) /\ SameInfo(m, w) /\ SameObjects(m, w) /\ w.res = "OK" /\ w.val = m.val
      /\ w.disk = m.disk /\ w.win = m.disk[s] /\ w.winsect = s /\ w.wflag = FALSE
  BY <1>2, <1>3 DEF Machine, Fields, SameVol, SameInfo, SameObjects
<1>5. s # 0 /\ s \in Nat /\ (s \in FatArea => s \notin Tables) BY Layout
<1>6. WinOk(w) BY <1>1, <1>4, <1>5 DEF WinOk, DiskOk
<1>7. CopiesOk(w) BY <1>1, <1>4 DEF CopiesOk
<1>8. InfoOk(w) BY <1>1, <1>4 DEF InfoOk, SameInfo
<1>9. SameFat(m, w)
  <2> SUFFICES ASSUME NEW c \in Cluster PROVE Seen(w, FatSect(c)) = Seen(m, FatSect(c))
    BY DEF SameFat, Fat
  <2>1. FatSect(c) \in FatArea BY FatPlace
  <2> QED BY <2>1, <1>1, <1>4 DEF Seen, WinOk
<1>10. Secures(m, w) BY <1>4 DEF Secures, Held, Seen
<1> QED BY <1>1, <1>4, <1>5, <1>6, <1>7, <1>8, <1>9, <1>10 DEF Base, BaseOk, Moved, w

LEMMA MoveOk ==
  ASSUME NEW m, NEW s \in Places, Base(m)
  PROVE Moved(m, s, MoveWindow(m, s))
<1>1. Machine(m) /\ WinOk(m) BY DEF Base, BaseOk
<1>2. CASE m.winsect = s
  <2> DEFINE w == Ok(m)
  <2>1. MoveWindow(m, s) = w BY <1>2 DEF MoveWindow
  <2>2. /\ Machine(w) /\ SameVol(m, w) /\ SameObjects(m, w) /\ w.res = "OK" /\ w.val = m.val
    BY <1>1 DEF Ok, Machine, Fields, SameVol, SameInfo, SameObjects
  <2> HIDE DEF w
  <2>3. BaseOk(w) /\ SameFat(m, w) BY <2>2, SameVolOk DEF Base, SameFat
  <2>4. Secures(m, w) BY <2>2 DEF SameVol, Secures, Held, Seen
  <2> QED BY <1>1, <1>2, <2>1, <2>2, <2>3, <2>4 DEF Moved, Base, SameVol, WinOk
<1>3. CASE m.winsect # s
  <2> DEFINE w == WriteBack(m)
  <2>1. /\ Base(w) /\ SameFat(m, w) /\ SameInfo(m, w) /\ SameObjects(m, w)
        /\ w.res = "OK" /\ w.val = m.val /\ w.wflag = FALSE
        /\ w.win = m.win /\ w.winsect = m.winsect /\ Secures(m, w)
    BY WriteBackOk
  <2>2. MoveWindow(m, s) = IF s = 0 THEN w ELSE Load(w, s)
    BY <1>3, <2>1 DEF MoveWindow, Then
  <2> HIDE DEF w
  <2>3. CASE s = 0 BY <2>1, <2>2, <2>3 DEF Moved
  <2>4. CASE s # 0
    <3>1. Moved(w, s, Load(w, s)) BY <2>1, <2>4, LoadOk DEF Places
    <3>2. Secures(m, Load(w, s)) BY <2>1, <3>1 DEF Moved, Secures
    <3> QED BY <3>1, <3>2, <2>1, <2>2, <2>4 DEF Moved, SameFat, SameInfo, SameObjects
  <2> QED BY <2>3, <2>4
<1> QED BY <1>2, <1>3

(* The FSInfo sector is neither one of the FAT nor one of a table.         *)
LEMMA SyncOk ==
  ASSUME NEW m, Base(m)
  PROVE LET w == Sync(m)
        IN Base(w) /\ SameFat(m, w) /\ w.free = m.free /\ SameObjects(m, w) /\ w.res = "OK"
<1> DEFINE a == MoveWindow(m, 0)
           b == SyncInfo(a)
           w == Access(b)
<1>1. Moved(m, 0, a) BY MoveOk DEF Places
<1>2. Sync(m) = w BY <1>1 DEF Sync, Then, Moved
<1> HIDE DEF a
<1>3. Base(b) /\ SameFat(a, b) /\ b.free = a.free /\ SameObjects(a, b)
  <2>1. CASE Fat32 /\ a.fsi
    <3> DEFINE x == [a EXCEPT !.winsect = 0, !.win = Info(a)]
               y == DiskWrite(x, FsInfo, Info(a))
    <3>1. b = [y EXCEPT !.fsi = FALSE] BY <2>1 DEF SyncInfo
    <3>2. /\ Machine(a) /\ DiskOk(a.disk) /\ WinOk(a) /\ CopiesOk(a) /\ InfoOk(a)
          /\ a.wflag = FALSE
      BY <1>1 DEF Moved, Base, BaseOk
    <3>3. /\ Machine(x) /\ SameInfo(a, x) /\ SameObjects(a, x) /\ x.disk = a.disk
          /\ x.winsect = 0 /\ x.wflag = FALSE
      BY <3>2 DEF Machine, Fields, SameInfo, SameObjects
    <3>4. Wrote(x, FsInfo, Info(a), y) BY <3>3, WriteOk
    <3> HIDE DEF x, y
    <3>5. /\ Machine(b) /\ b.last = a.last /\ b.free = a.free /\ b.fsi = FALSE
          /\ SameObjects(a, b) /\ b.winsect = 0 /\ b.wflag = FALSE
          /\ b.disk = [a.disk EXCEPT ![FsInfo] = Info(a)]
      BY <3>1, <3>3, <3>4 DEF Wrote, Machine, Fields, SameInfo, SameObjects
    <3> HIDE DEF b
    <3>6. DiskOk(b.disk) BY <3>2, <3>5, Layout, Sectors DEF DiskOk
    <3>7. \A s \in FatArea : b.disk[s] = a.disk[s]
                             /\ (NFats = 2 => b.disk[s + FatSize] = a.disk[s + FatSize])
      <4> SUFFICES ASSUME NEW s \in FatArea
                   PROVE b.disk[s] = a.disk[s]
                         /\ (NFats = 2 => b.disk[s + FatSize] = a.disk[s + FatSize])
        OBVIOUS
      <4>1. s # FsInfo BY Layout
      <4>2. ASSUME NFats = 2 PROVE s + FatSize # FsInfo
        <5>1. FsInfo >= DataBase /\ DataBase >= FatBase + NFats * FatSize
          BY Geometry DEF FsInfo, DataBase, FatBase
        <5>2. s < FatBase + FatSize BY Sectors
        <5> QED BY <5>1, <5>2, <4>2, Geometry, Layout DEF FatBase
      <4> QED BY <4>1, <4>2, <3>5
    <3>8. WinOk(b) BY <3>5, Layout DEF WinOk
    <3>9. CopiesOk(b) BY <3>2, <3>5, <3>7 DEF CopiesOk
    <3>10. InfoOk(b) BY <3>2, <3>5 DEF InfoOk
    <3>11. SameFat(a, b)
      <4> SUFFICES ASSUME NEW c \in Cluster PROVE Seen(b, FatSect(c)) = Seen(a, FatSect(c))
        BY DEF SameFat, Fat
      <4>1. FatSect(c) \in FatArea /\ FatSect(c) # 0 BY FatPlace, Layout
      <4> QED BY <4>1, <3>2, <3>5, <3>7 DEF Seen, WinOk
    <3> QED BY <3>5, <3>6, <3>8, <3>9, <3>10, <3>11 DEF Base, BaseOk
  <2>2. CASE ~(Fat32 /\ a.fsi)
    <3>1. b = a BY <2>2 DEF SyncInfo
    <3> QED BY <3>1, <1>1 DEF Moved, SameFat, SameObjects
  <2> QED BY <2>1, <2>2
<1> HIDE DEF b
<1>4. Machine(w) /\ SameVol(b, w) /\ SameObjects(b, w) /\ w.res = "OK"
  BY <1>3, AccessOk DEF Base
<1> HIDE DEF w
<1>5. BaseOk(w) /\ SameFat(b, w) BY <1>3, <1>4, SameVolOk DEF Base, SameFat
<1> QED BY <1>1, <1>2, <1>3, <1>4, <1>5
       DEF Moved, Base, SameFat, SameObjects, SameVol, SameInfo

LEMMA FatIsLink ==
  ASSUME NEW m, Base(m), NEW c \in Cluster
  PROVE Fat(m, c) \in FatLink
<1>1. DiskOk(m.disk) /\ WinOk(m) BY DEF Base, BaseOk
<1>2. FatSect(c) \in FatArea /\ c % PerFat \in 0..PerFat - 1 BY FatPlace
<1> QED BY <1>1, <1>2 DEF Fat, Seen, DiskOk, WinOk

(* What get_fat returns.                                                   *)
GotFat(m, c, w) ==
  /\ Base(w) /\ SameFat(m, w) /\ SameInfo(m, w) /\ SameObjects(m, w)
  /\ c \in Cluster => w.val = Fat(m, c) /\ w.val \in FatLink /\ w.res = "OK"
  /\ c \notin Cluster => w.val = 1

LEMMA GetFatOk ==
  ASSUME NEW m, NEW c, Base(m)
  PROVE GotFat(m, c, GetFat(m, c))
<1>1. CASE c \notin Cluster
  <2> DEFINE w == [m EXCEPT !.val = 1]
  <2>1. GetFat(m, c) = w BY <1>1 DEF GetFat
  <2>2. /\ Machine(w) /\ SameVol(m, w) /\ SameObjects(m, w) /\ w.val = 1
    BY DEF Base, Machine, Fields, SameVol, SameInfo, SameObjects
  <2> HIDE DEF w
  <2> QED BY <1>1, <2>1, <2>2, SameVolOk DEF GotFat, Base, SameFat, SameVol
<1>2. CASE c \in Cluster
  <2> DEFINE a == MoveWindow(m, FatSect(c))
             w == [a EXCEPT !.val = a.win[c % PerFat]]
  <2>1. FatSect(c) \in FatArea /\ FatSect(c) # 0 BY <1>2, FatPlace, Layout
  <2>2. Moved(m, FatSect(c), a) BY <2>1, MoveOk DEF Places
  <2>3. GetFat(m, c) = w BY <1>2, <2>2 DEF GetFat, After, Moved
  <2> HIDE DEF a
  <2>4. Base(a) /\ a.winsect = FatSect(c) /\ a.res = "OK" BY <2>1, <2>2 DEF Moved
  <2>5. Machine(w) /\ SameVol(a, w) /\ SameObjects(a, w) /\ w.val = a.win[c % PerFat] /\ w.res = "OK"
    BY <2>4 DEF Base, Machine, Fields, SameVol, SameInfo, SameObjects
  <2>6. a.win[c % PerFat] = Fat(a, c) BY <2>4 DEF Fat, Seen
  <2> HIDE DEF w
  <2>7. BaseOk(w) /\ SameFat(a, w) BY <2>4, <2>5, SameVolOk DEF Base, SameFat
  <2>8. SameFat(m, w) /\ SameInfo(m, w) /\ SameObjects(m, w) /\ Fat(a, c) = Fat(m, c)
    BY <1>2, <2>2, <2>5, <2>7 DEF Moved, SameFat, SameInfo, SameObjects, SameVol
  <2> QED BY <1>2, <2>3, <2>5, <2>6, <2>7, <2>8, FatIsLink DEF GotFat, Base
<1> QED BY <1>1, <1>2

(* put_fat changes one entry of the FAT.                                   *)
PutOk(m, c, x, w) ==
  /\ Base(w) /\ SameInfo(m, w) /\ SameObjects(m, w) /\ w.res = "OK" /\ w.val = m.val
  /\ \A d \in Cluster : Fat(w, d) = IF d = c THEN x ELSE Fat(m, d)

LEMMA PutFatOk ==
  ASSUME NEW m, NEW c \in Cluster, NEW x \in FatLink, Base(m)
  PROVE PutOk(m, c, x, PutFat(m, c, x))
<1> DEFINE s == FatSect(c)
           i == c % PerFat
           a == MoveWindow(m, s)
           b == [a EXCEPT !.wflag = TRUE]
           w == [b EXCEPT !.win[i] = x]
<1>1. /\ s \in FatArea /\ s # 0 /\ i \in 0..PerFat - 1 /\ s \notin Tables
      /\ \A d \in Cluster : d # c => FatSect(d) # s \/ d % PerFat # i
      /\ \A d \in Cluster : FatSect(d) \in FatArea
  BY FatPlace, Layout
<1>2. Moved(m, s, a) BY <1>1, MoveOk DEF Places
<1>3. PutFat(m, c, x) = w
  <2>1. b.res = a.res /\ a.res = "OK" BY <1>2 DEF Moved
  <2> QED BY <2>1 DEF PutFat, Then
<1> HIDE DEF s, i, a
<1>4. /\ Machine(a) /\ DiskOk(a.disk) /\ WinOk(a) /\ CopiesOk(a) /\ InfoOk(a)
      /\ a.winsect = s /\ a.res = "OK" /\ a.val = m.val
  BY <1>1, <1>2 DEF Moved, Base, BaseOk
<1>5. a.win \in [0..PerFat - 1 -> FatLink] BY <1>1, <1>4 DEF WinOk
<1>6. /\ Machine(w) /\ SameInfo(a, w) /\ SameObjects(a, w) /\ w.res = "OK" /\ w.val = m.val
      /\ w.disk = a.disk /\ w.winsect = s /\ w.wflag = TRUE /\ w.win = [a.win EXCEPT ![i] = x]
  BY <1>4 DEF Machine, Fields, SameInfo, SameObjects
<1> HIDE DEF b, w
<1>7. w.win \in [0..PerFat - 1 -> FatLink] BY <1>1, <1>5, <1>6
<1>8. WinOk(w) BY <1>1, <1>6, <1>7 DEF WinOk
<1>9. CopiesOk(w) BY <1>4, <1>6 DEF CopiesOk
<1>10. InfoOk(w) BY <1>4, <1>6 DEF InfoOk, SameInfo
<1>11. ASSUME NEW d \in Cluster PROVE Fat(w, d) = IF d = c THEN x ELSE Fat(a, d)
  <2>1. CASE d = c
    <3>1. FatSect(d) = s /\ d % PerFat = i BY <2>1 DEF s, i
    <3> QED BY <2>1, <3>1, <1>1, <1>5, <1>6 DEF Fat, Seen
  <2>2. CASE d # c
    <3>1. CASE FatSect(d) # s BY <2>2, <3>1, <1>4, <1>6 DEF Fat, Seen
    <3>2. CASE FatSect(d) = s
      <4>1. d % PerFat # i BY <1>1, <2>2, <3>2
      <4> QED BY <2>2, <3>2, <4>1, <1>4, <1>6 DEF Fat, Seen
    <3> QED BY <3>1, <3>2
  <2> QED BY <2>1, <2>2
<1>12. SameInfo(m, w) /\ SameObjects(m, w) BY <1>2, <1>6 DEF Moved, SameInfo, SameObjects
<1>13. \A d \in Cluster : Fat(a, d) = Fat(m, d) BY <1>2 DEF Moved, SameFat
<1>14. DiskOk(w.disk) BY <1>4, <1>6
<1> QED BY <1>3, <1>6, <1>8, <1>9, <1>10, <1>11, <1>12, <1>13, <1>14
       DEF PutOk, Base, BaseOk

(* The number of free clusters follows the FAT.                            *)
LEMMA ClusterFinite ==
  /\ IsFiniteSet(Cluster) /\ Cardinality(Cluster) = NClusters
  /\ \A v : IsFiniteSet(FreeSet(v)) /\ Cardinality(FreeSet(v)) \in 0..NClusters
<1>1. Cluster = 2..NClusters + 1 /\ NClusters \in Nat BY Layout, Geometry
<1>2. IsFiniteSet(Cluster) /\ Cardinality(Cluster) = NClusters
  <2> DEFINE k == NClusters + 1
  <2>1. 2 \in Int /\ k \in Int /\ k >= 2 /\ k = NClusters + 1 BY <1>1, Geometry
  <2> HIDE DEF k
  <2>2. IsFiniteSet(2..k) /\ Cardinality(2..k) = k - 2 + 1
    BY <2>1, FS_Interval
  <2> QED BY <1>1, <2>1, <2>2
<1>3. ASSUME NEW v PROVE IsFiniteSet(FreeSet(v)) /\ Cardinality(FreeSet(v)) \in 0..NClusters
  <2>1. FreeSet(v) \subseteq Cluster BY DEF FreeSet
  <2>2. IsFiniteSet(FreeSet(v)) /\ Cardinality(FreeSet(v)) <= NClusters
    BY <1>2, <2>1, FS_Subset
  <2> QED BY <2>2, FS_CardinalityType, <1>1
<1> QED BY <1>2, <1>3

LEMMA OneFreed ==
  ASSUME NEW m, NEW w, NEW c \in Cluster, Fat(m, c) # 0,
         \A d \in Cluster : Fat(w, d) = IF d = c THEN 0 ELSE Fat(m, d)
  PROVE Cardinality(FreeSet(w)) = Cardinality(FreeSet(m)) + 1
<1>1. FreeSet(w) = FreeSet(m) \union {c} /\ c \notin FreeSet(m) BY DEF FreeSet
<1> QED BY <1>1, ClusterFinite, FS_AddElement

LEMMA OneTaken ==
  ASSUME NEW m, NEW w, NEW c \in Cluster, Fat(m, c) = 0, Fat(w, c) # 0,
         \A d \in Cluster : d # c => (Fat(w, d) = 0 <=> Fat(m, d) = 0)
  PROVE Cardinality(FreeSet(w)) = Cardinality(FreeSet(m)) - 1
<1>1. FreeSet(w) = FreeSet(m) \ {c} /\ c \in FreeSet(m) BY DEF FreeSet
<1> QED BY <1>1, ClusterFinite, FS_RemoveElement

LEMMA CountedOk ==
  ASSUME NEW m, NEW n \in {1, -1}, Base(m), m.free = Unknown \/ m.free + n \in Nat
  PROVE LET w == Counted(m, n)
        IN /\ Base(w) /\ SameFat(m, w) /\ SameObjects(m, w)
           /\ w.last = m.last /\ w.res = m.res /\ w.val = m.val
           /\ w.free = IF m.free = Unknown THEN Unknown ELSE m.free + n
<1> DEFINE w == Counted(m, n)
<1>1. Machine(m) /\ DiskOk(m.disk) /\ WinOk(m) /\ CopiesOk(m) /\ InfoOk(m) BY DEF Base, BaseOk
<1>2. /\ Machine(w) /\ w.disk = m.disk /\ w.win = m.win /\ w.winsect = m.winsect
      /\ w.wflag = m.wflag /\ SameObjects(m, w)
      /\ w.last = m.last /\ w.res = m.res /\ w.val = m.val /\ w.fsi \in BOOLEAN
      /\ w.free = IF m.free = Unknown THEN Unknown ELSE m.free + n
  BY <1>1 DEF Counted, Machine, Fields, SameObjects, InfoOk
<1> HIDE DEF w
<1>3. InfoOk(w) BY <1>1, <1>2 DEF InfoOk
<1>4. WinOk(w) /\ CopiesOk(w) /\ SameFat(m, w)
  BY <1>1, <1>2 DEF WinOk, CopiesOk, SameFat, Fat, Seen
<1> QED BY <1>1, <1>2, <1>3, <1>4 DEF Base, BaseOk, w

(* A call's result and its value are no part of the volume.                *)
Labelled(m, w) ==
  /\ Machine(w) /\ SameVol(m, w) /\ SameObjects(m, w)
  /\ (Base(m) => Base(w)) /\ (Good(m) => Good(w)) /\ SameFat(m, w)

LEMMA LabelOk ==
  ASSUME NEW m, NEW w, Machine(m), Machine(w), SameVol(m, w), SameObjects(m, w)
  PROVE Labelled(m, w)
BY SameVolOk DEF Labelled, Base, Good, SameFat

LEMMA FailOk ==
  ASSUME NEW m, NEW r, Machine(m)
  PROVE /\ Labelled(m, Fail(m, r)) /\ Fail(m, r).res = r /\ Fail(m, r).val = m.val
        /\ Labelled(m, Ok(m)) /\ Ok(m).res = "OK" /\ Ok(m).val = m.val
<1>1. /\ Machine(Fail(m, r)) /\ SameVol(m, Fail(m, r)) /\ SameObjects(m, Fail(m, r))
      /\ Fail(m, r).res = r /\ Fail(m, r).val = m.val
  BY DEF Fail, Machine, Fields, SameVol, SameInfo, SameObjects
<1>2. /\ Machine(Ok(m)) /\ SameVol(m, Ok(m)) /\ SameObjects(m, Ok(m))
      /\ Ok(m).res = "OK" /\ Ok(m).val = m.val
  BY DEF Ok, Machine, Fields, SameVol, SameInfo, SameObjects
<1> QED BY <1>1, <1>2, LabelOk

LEMMA ValOk ==
  ASSUME NEW m, NEW v, Machine(m)
  PROVE LET w == [m EXCEPT !.val = v]
        IN Labelled(m, w) /\ w.res = m.res /\ w.val = v
<1> DEFINE w == [m EXCEPT !.val = v]
<1>1. /\ Machine(w) /\ SameVol(m, w) /\ SameObjects(m, w) /\ w.res = m.res /\ w.val = v
  BY DEF Machine, Fields, SameVol, SameInfo, SameObjects
<1> HIDE DEF w
<1>2. Labelled(m, w) BY <1>1, LabelOk
<1> QED BY <1>1, <1>2 DEF w

(* A step of a call that leaves the volume right, the directory object and *)
(* the file object alone.                                                  *)
Runs(m, w) == Good(w) /\ SameObjects(m, w)

LEMMA MoveRuns ==
  ASSUME NEW m, NEW s \in Places, Good(m)
  PROVE Moved(m, s, MoveWindow(m, s)) /\ Runs(m, MoveWindow(m, s))
<1>1. Moved(m, s, MoveWindow(m, s)) BY MoveOk DEF Good, VolOk, Base
<1>2. CountOk(MoveWindow(m, s)) BY <1>1, SameFatCount DEF Moved, SameInfo, Good, VolOk
<1> QED BY <1>1, <1>2 DEF Moved, Runs, Good, VolOk, Base

LEMMA GetRuns ==
  ASSUME NEW m, NEW c, Good(m)
  PROVE GotFat(m, c, GetFat(m, c)) /\ Runs(m, GetFat(m, c))
<1>1. GotFat(m, c, GetFat(m, c)) BY GetFatOk DEF Good, VolOk, Base
<1>2. CountOk(GetFat(m, c)) BY <1>1, SameFatCount DEF GotFat, SameInfo, Good, VolOk
<1> QED BY <1>1, <1>2 DEF GotFat, Runs, Good, VolOk, Base

LEMMA SyncRuns ==
  ASSUME NEW m, Good(m)
  PROVE Runs(m, Sync(m)) /\ Sync(m).res = "OK"
<1>1. LET w == Sync(m)
      IN Base(w) /\ SameFat(m, w) /\ w.free = m.free /\ SameObjects(m, w) /\ w.res = "OK"
  BY SyncOk DEF Good, VolOk, Base
<1>2. CountOk(Sync(m)) BY <1>1, SameFatCount DEF Good, VolOk
<1> QED BY <1>1, <1>2 DEF Runs, Good, VolOk, Base

(* A cluster is freed, and counted.                                        *)
LEMMA FreedOne ==
  ASSUME NEW m, NEW c \in Cluster, Good(m), Fat(m, c) # 0
  PROVE LET p == PutFat(m, c, 0)
        IN p.res = "OK" /\ Runs(m, Counted(p, 1)) /\ Counted(p, 1).res = "OK"
<1> DEFINE p == PutFat(m, c, 0)
           w == Counted(p, 1)
<1>1. PutOk(m, c, 0, p) BY PutFatOk DEF Good, VolOk, Base, FatLink
<1> HIDE DEF p
<1>2. Base(p) /\ p.free = m.free /\ p.res = "OK" /\ SameObjects(m, p)
      /\ \A d \in Cluster : Fat(p, d) = IF d = c THEN 0 ELSE Fat(m, d)
  BY <1>1 DEF PutOk, SameInfo
<1>3. CountOk(m) /\ m.free \in Nat \union {Unknown}
  BY DEF Good, VolOk, BaseOk, InfoOk
<1>4. /\ Base(w) /\ SameFat(p, w) /\ SameObjects(p, w) /\ w.res = p.res
      /\ w.free = IF p.free = Unknown THEN Unknown ELSE p.free + 1
  BY <1>2, <1>3, CountedOk
<1> HIDE DEF w
<1>5. \A d \in Cluster : Fat(w, d) = IF d = c THEN 0 ELSE Fat(m, d)
  BY <1>2, <1>4 DEF SameFat
<1>6. Cardinality(FreeSet(w)) = Cardinality(FreeSet(m)) + 1 BY <1>5, OneFreed
<1>7. CountOk(w) BY <1>2, <1>3, <1>4, <1>6 DEF CountOk, Unknown
<1> QED BY <1>2, <1>4, <1>7 DEF Runs, Good, VolOk, Base, SameObjects, p, w

(* The variables of a loop that are there whatever the loop is.            *)
LoopOk(y) == {"on", "m"} \subseteq DOMAIN y /\ y.on \in BOOLEAN

LEMMA RunsOn ==
  ASSUME NEW m, NEW a, NEW b
  PROVE /\ Runs(m, a) /\ Runs(a, b) => Runs(m, b)
        /\ Runs(m, a) /\ Labelled(a, b) => Runs(m, b)
        /\ Good(m) => Runs(m, m)
BY DEF Runs, Labelled, SameObjects

LEMMA Stopped ==
  ASSUME NEW x, NEW m, LoopOk(x)
  PROVE LET y == Stop(x, m) IN LoopOk(y) /\ ~y.on /\ y.m = m
BY DEF Stop, LoopOk

LEMMA ResultOk ==
  ASSUME NEW m, NEW x, Runs(m, x.m)
  PROVE Runs(m, Result(x)) /\ (x.on => Result(x).res = "INT_ERR")
        /\ (~x.on => Result(x) = x.m)
<1>1. Labelled(x.m, Fail(x.m, "INT_ERR")) /\ Fail(x.m, "INT_ERR").res = "INT_ERR"
  BY FailOk DEF Runs, Good
<1> QED BY <1>1, RunsOn DEF Result

(* remove_chain.                                                           *)
FreeInv(p, k, y) == LoopOk(y) /\ "c" \in DOMAIN y /\ Runs(p, y.m)
FreeLoop == INSTANCE LoopProofs WITH Body <- FreeOne, Inv <- FreeInv

LEMMA FreeStep ==
  ASSUME NEW p, NEW k \in Nat, NEW x, FreeInv(p, k, x), x.on
  PROVE FreeInv(p, k + 1, FreeOne(x))
<1> DEFINE m == x.m
           g == GetFat(m, x.c)
           w == FreeOne(x)
<1>1. LoopOk(x) /\ "c" \in DOMAIN x /\ Runs(p, m) /\ Good(m) BY DEF FreeInv, Runs
<1>2. ASSUME NEW a, Runs(p, a), w = Stop(x, a) PROVE FreeInv(p, k + 1, w)
  BY <1>1, <1>2 DEF FreeInv, LoopOk, Stop
<1>3. CASE x.c >= NFatEnt
  <2>1. w = Stop(x, Ok(m)) BY <1>3 DEF FreeOne
  <2>2. Runs(p, Ok(m)) BY <1>1, FailOk, RunsOn DEF Good
  <2> QED BY <2>1, <2>2, <1>2
<1>4. CASE ~(x.c >= NFatEnt)
  <2>1. GotFat(m, x.c, g) /\ Runs(p, g) /\ Good(g) BY <1>1, GetRuns, RunsOn DEF Runs
  <2>2. w = IF g.val = 0 THEN Stop(x, Ok(g))
            ELSE IF Trouble(g.val) # "OK" THEN Stop(x, Fail(g, Trouble(g.val)))
            ELSE OnOk(x, PutFat(g, x.c, 0), LAMBDA p1 :
                   [x EXCEPT !.m = Counted(p1, 1), !.c = g.val])
    BY <1>4 DEF FreeOne, After
  <2> HIDE DEF g
  <2>3. CASE g.val = 0
    <3>1. Runs(p, Ok(g)) BY <2>1, FailOk, RunsOn DEF Good
    <3> QED BY <3>1, <2>2, <2>3, <1>2
  <2>4. CASE g.val # 0 /\ Trouble(g.val) # "OK"
    <3>1. Runs(p, Fail(g, Trouble(g.val))) BY <2>1, FailOk, RunsOn DEF Good
    <3> QED BY <3>1, <2>2, <2>4, <1>2
  <2>5. CASE g.val # 0 /\ Trouble(g.val) = "OK"
    <3> DEFINE q == PutFat(g, x.c, 0)
    <3>1. x.c \in Cluster BY <2>1, <2>5 DEF GotFat, Trouble
    <3>2. Fat(g, x.c) # 0 BY <2>1, <2>5, <3>1 DEF GotFat, SameFat
    <3>3. q.res = "OK" /\ Runs(g, Counted(q, 1)) BY <3>1, <3>2, <2>1, FreedOne
    <3>4. w = [x EXCEPT !.m = Counted(q, 1), !.c = g.val]
      BY <2>2, <2>5, <3>3 DEF OnOk
    <3> HIDE DEF q
    <3>5. Runs(p, Counted(q, 1)) BY <3>3, <2>1, RunsOn
    <3> QED BY <1>1, <3>4, <3>5 DEF FreeInv, LoopOk
  <2> QED BY <2>3, <2>4, <2>5
<1> QED BY <1>3, <1>4

LEMMA FreeFromRuns ==
  ASSUME NEW m, NEW c, Good(m)
  PROVE Runs(m, FreeFrom(m, c))
<1> DEFINE x == [on |-> TRUE, m |-> m, c |-> c]
           n == NClusters + 1
           y == While(FreeOne, x, n)
<1>1. FreeInv(m, 0, x) BY RunsOn DEF FreeInv, LoopOk
<1>2. ASSUME NEW k \in Nat, NEW z, FreeInv(m, k, z) PROVE FreeInv(m, k + 1, Round(FreeOne, z))
  BY <1>2, FreeStep DEF Round, FreeInv
<1>3. n \in Nat BY Geometry
<1> HIDE DEF x, n
<1>4. FreeInv(m, n, FreeLoop!While(FreeOne, x, n))
  BY <1>1, <1>2, <1>3, SetInduction, FreeLoop!WhileKeeps DEF Round, FreeLoop!Round
<1>5. FreeInv(m, n, y) BY <1>4 DEF While, FreeLoop!While, Round, FreeLoop!Round
<1> HIDE DEF y
<1>6. Runs(m, Result(y)) BY <1>5, ResultOk DEF FreeInv
<1> QED BY <1>6 DEF FreeFrom, x, n, y

LEMMA RemoveRuns ==
  ASSUME NEW m, NEW c, Good(m)
  PROVE Runs(m, RemoveChain(m, c))
<1>1. Runs(m, Fail(m, "INT_ERR")) BY FailOk, RunsOn DEF Good
<1> QED BY <1>1, FreeFromRuns DEF RemoveChain

LEMMA Links ==                    \* the numbers that are no cluster
  /\ {0, 1, EOC, DiskErr} \cap Cluster = {} /\ FatLink \cap {1, DiskErr} = {}
  /\ EOC # 0 /\ EOC # DiskErr /\ DiskErr # 0 /\ MayBeNone \subseteq FatLink
  /\ \A c \in Cluster : c \in Nat /\ c >= 2 /\ c < NFatEnt
  /\ EOC = NFatEnt /\ EOC >= 2 /\ NFatEnt \in Nat
BY Layout, Geometry DEF FatLink, MayBeNone, EOC

(* create_chain: the search for a free cluster.                            *)
NoneOrFree(m) == m.val \in MayBeNone /\ (m.val \in Cluster => Fat(m, m.val) = 0)
TryInv(p, k, y) ==
  /\ LoopOk(y) /\ {"c", "start"} \subseteq DOMAIN y
  /\ y.c \in 1..NFatEnt - 1
  /\ Runs(p, y.m) /\ SameFat(p, y.m) /\ y.m.last = p.last
  /\ y.on \/ NoneOrFree(y.m)
TryLoop == INSTANCE LoopProofs WITH Body <- TryNext, Inv <- TryInv

LEMMA TryStep ==
  ASSUME NEW p, NEW k \in Nat, NEW x, TryInv(p, k, x), x.on
  PROVE TryInv(p, k + 1, TryNext(x))
<1> DEFINE m == x.m
           n == NextToTry(x.c)
           g == GetFat(m, n)
           w == TryNext(x)
<1>1. /\ LoopOk(x) /\ {"c", "start"} \subseteq DOMAIN x /\ x.c \in 1..NFatEnt - 1
      /\ Runs(p, m) /\ SameFat(p, m) /\ m.last = p.last /\ Machine(m) /\ Good(m)
  BY DEF TryInv, Runs, Good
<1>2. n \in Cluster /\ n # 0 /\ n \in 1..NFatEnt - 1
  BY <1>1, Geometry, Layout DEF NextToTry, NFatEnt
<1>3. ASSUME NEW a, Runs(p, a), SameFat(p, a), a.last = p.last, NoneOrFree(a), w = Stop(x, a)
      PROVE TryInv(p, k + 1, w)
  BY <1>1, <1>3 DEF TryInv, LoopOk, Stop
<1>4. GotFat(m, n, g) /\ Runs(p, g) /\ SameFat(p, g) /\ g.last = p.last /\ Machine(g)
  <2>1. GotFat(m, n, g) /\ Runs(m, g) BY <1>1, GetRuns
  <2> QED BY <2>1, <1>1, RunsOn DEF GotFat, SameFat, SameInfo, Base
<1>5. w = IF x.c + 1 >= NFatEnt /\ n > x.start THEN Stop(x, [m EXCEPT !.val = 0])
          ELSE IF g.val = 0 THEN Stop(x, [g EXCEPT !.val = n])
          ELSE IF g.val \in {1, DiskErr} THEN Stop(x, g)
          ELSE IF n = x.start THEN Stop(x, [g EXCEPT !.val = 0])
          ELSE [x EXCEPT !.m = g, !.c = n]
  BY DEF TryNext, After
<1>6. ASSUME NEW a, NEW v \in MayBeNone, Runs(p, a), SameFat(p, a), a.last = p.last,
             v \in Cluster => Fat(a, v) = 0, w = Stop(x, [a EXCEPT !.val = v])
      PROVE TryInv(p, k + 1, w)
  <2> DEFINE b == [a EXCEPT !.val = v]
  <2>1. Labelled(a, b) /\ b.val = v BY <1>6, ValOk DEF Runs, Good
  <2>2. Runs(p, b) /\ SameFat(p, b) /\ b.last = p.last /\ NoneOrFree(b)
    BY <1>6, <2>1, RunsOn DEF Labelled, SameFat, SameVol, SameInfo, NoneOrFree
  <2> QED BY <2>2, <1>3, <1>6
<1>7. 0 \in MayBeNone /\ 0 \notin Cluster /\ n \in MayBeNone BY <1>2, Layout DEF MayBeNone
<1> HIDE DEF w, g, n
<1> SUFFICES TryInv(p, k + 1, w) BY DEF w
<1>8. CASE x.c + 1 >= NFatEnt /\ n > x.start BY <1>1, <1>5, <1>6, <1>7, <1>8
<1>9. CASE ~(x.c + 1 >= NFatEnt /\ n > x.start)
  <2>1. CASE g.val = 0
    <3>1. Fat(g, n) = 0 BY <1>2, <1>4, <2>1 DEF GotFat, SameFat
    <3> QED BY <3>1, <1>4, <1>5, <1>6, <1>7, <1>9, <2>1
  <2>2. CASE g.val # 0
    <3>1. g.val \notin {1, DiskErr} BY <1>2, <1>4, Links DEF GotFat
    <3>2. CASE n = x.start
      <4>1. w = Stop(x, [g EXCEPT !.val = 0]) BY <1>5, <1>9, <2>2, <3>1, <3>2
      <4> QED BY <4>1, <1>4, <1>6, <1>7
    <3>3. CASE n # x.start
      <4>1. w = [x EXCEPT !.m = g, !.c = n] BY <1>5, <1>9, <2>2, <3>1, <3>3
      <4>2. LoopOk(w) /\ {"c", "start"} \subseteq DOMAIN w /\ w.c = n /\ w.m = g /\ w.on
        BY <4>1, <1>1 DEF LoopOk
      <4> QED BY <4>2, <1>2, <1>4 DEF TryInv
    <3> QED BY <3>2, <3>3
  <2> QED BY <2>1, <2>2
<1> QED BY <1>8, <1>9

Free(m, w) ==                     \* a free cluster is found, or there is none
  Runs(m, w) /\ SameFat(m, w) /\ w.last = m.last /\ NoneOrFree(w)

LEMMA FindFreeOk ==
  ASSUME NEW m, NEW start \in 1..NFatEnt - 1, Good(m)
  PROVE Free(m, FindFree(m, start))
<1> DEFINE x == [on |-> TRUE, m |-> m, c |-> start, start |-> start]
           n == NClusters + 1
           y == While(TryNext, x, n)
<1>1. TryInv(m, 0, x) BY RunsOn DEF TryInv, LoopOk, SameFat
<1>2. ASSUME NEW k \in Nat, NEW z, TryInv(m, k, z) PROVE TryInv(m, k + 1, Round(TryNext, z))
  BY <1>2, TryStep DEF Round, TryInv
<1>3. n \in Nat BY Geometry
<1> HIDE DEF x, n
<1>4. TryInv(m, n, TryLoop!While(TryNext, x, n))
  BY <1>1, <1>2, <1>3, SetInduction, TryLoop!WhileKeeps DEF Round, TryLoop!Round
<1>5. TryInv(m, n, y) BY <1>4 DEF While, TryLoop!While, Round, TryLoop!Round
<1>6. FindFree(m, start) = IF y.on THEN [y.m EXCEPT !.val = 0] ELSE y.m
  BY DEF FindFree, x, n
<1> HIDE DEF y
<1>7. CASE y.on
  <2> DEFINE b == [y.m EXCEPT !.val = 0]
  <2>1. Labelled(y.m, b) /\ b.val = 0 BY <1>5, ValOk DEF TryInv, Runs, Good
  <2> HIDE DEF b
  <2>2. 0 \in MayBeNone /\ 0 \notin Cluster BY Layout DEF MayBeNone
  <2>3. Runs(m, b) /\ SameFat(m, b) /\ b.last = m.last
    BY <2>1, <1>5, RunsOn DEF TryInv, Labelled, SameFat, SameVol, SameInfo
  <2>4. FindFree(m, start) = b BY <1>6, <1>7 DEF b
  <2> QED BY <2>1, <2>2, <2>3, <2>4 DEF NoneOrFree, Free
<1>8. CASE ~y.on BY <1>5, <1>6, <1>8 DEF TryInv, Free
<1> QED BY <1>7, <1>8

(* A free cluster is taken, linked behind c, and counted.                  *)
LEMMA LinkOk ==
  ASSUME NEW m, NEW c \in MayBeNone, NEW n \in Cluster, Good(m), Fat(m, n) = 0,
         c \in Cluster => Fat(m, c) # 0
  PROVE Runs(m, Link(m, c, n)) /\ Link(m, c, n).val = n
<1> DEFINE k == PutFat(m, n, EOC)
           l == Linked(m, c, n)
           w == [Counted(l, -1) EXCEPT !.last = n, !.val = n]
<1>1. Base(m) /\ EOC \in FatLink /\ n \in FatLink /\ c # n /\ (c # 0 => c \in Cluster)
      /\ EOC # 0 /\ n # 0 /\ n \in Nat
  BY Links DEF Good, VolOk, Base, FatLink, MayBeNone
<1>2. PutOk(m, n, EOC, k) BY <1>1, PutFatOk
<1>3. /\ Base(l) /\ SameInfo(m, l) /\ SameObjects(m, l) /\ l.res = "OK"
      /\ Fat(l, n) # 0
      /\ \A d \in Cluster : d # n => (Fat(l, d) = 0 <=> Fat(m, d) = 0)
  <2>1. l = IF c = 0 THEN k ELSE PutFat(k, c, n) BY <1>2 DEF Linked, Then, PutOk
  <2> HIDE DEF k, l
  <2>2. CASE c = 0 BY <1>1, <1>2, <2>1, <2>2 DEF PutOk
  <2>3. CASE c # 0
    <3>4. Base(k) BY <1>2 DEF PutOk
    <3>1. PutOk(k, c, n, l) BY <3>4, <1>1, <2>1, <2>3, PutFatOk
    <3>2. /\ Base(l) /\ SameInfo(m, l) /\ SameObjects(m, l) /\ l.res = "OK"
      BY <1>2, <3>1 DEF PutOk, SameInfo, SameObjects
    <3>3. \A d \in Cluster : Fat(l, d) = IF d = c THEN n ELSE IF d = n THEN EOC ELSE Fat(m, d)
      BY <1>2, <3>1 DEF PutOk
    <3> QED BY <1>1, <3>2, <3>3, <2>3
  <2> QED BY <2>2, <2>3
<1>4. Link(m, c, n) = w BY <1>3 DEF Link, After
<1> HIDE DEF l
<1> DEFINE a == Counted(l, -1)
<1>5. Cardinality(FreeSet(l)) = Cardinality(FreeSet(m)) - 1
      /\ Cardinality(FreeSet(l)) \in Nat /\ Cardinality(FreeSet(m)) \in Nat
  BY <1>3, OneTaken, ClusterFinite
<1>6. CountOk(m) /\ l.free = m.free /\ m.free \in Nat \union {Unknown}
  BY <1>3 DEF Good, VolOk, BaseOk, InfoOk, SameInfo
<1>7. l.free = Unknown \/ l.free + -1 \in Nat BY <1>5, <1>6 DEF CountOk
<1>8. /\ Base(a) /\ SameFat(l, a) /\ SameObjects(l, a)
      /\ a.free = IF l.free = Unknown THEN Unknown ELSE l.free + -1
  BY <1>3, <1>7, CountedOk
<1> HIDE DEF a
<1>9. w = [a EXCEPT !.last = n, !.val = n] BY DEF a
<1> HIDE DEF w
<1>10. /\ Machine(w) /\ w.disk = a.disk /\ w.win = a.win /\ w.winsect = a.winsect
       /\ w.wflag = a.wflag /\ w.free = a.free /\ w.fsi = a.fsi /\ w.last = n
       /\ SameObjects(a, w) /\ w.val = n
  BY <1>8, <1>9 DEF Base, Machine, Fields, SameObjects
<1>11. BaseOk(w) /\ SameFat(a, w)
  BY <1>1, <1>8, <1>10
     DEF Base, BaseOk, WinOk, CopiesOk, InfoOk, SameFat, Fat, Seen
<1>12. CountOk(w)
  <2>1. FreeSet(w) = FreeSet(l) BY <1>8, <1>11 DEF SameFat, FreeSet
  <2> QED BY <2>1, <1>5, <1>6, <1>8, <1>10 DEF CountOk, Unknown
<1> QED BY <1>3, <1>4, <1>8, <1>10, <1>11, <1>12 DEF Runs, Good, VolOk, SameObjects

(* What create_chain returns: a cluster, 0 on a full volume, 1 when there  *)
(* is no chain to stretch.                                                 *)
Chained(m, c, w) ==
  Runs(m, w) /\ w.val \in {0, 1} \union Cluster /\ (c = 0 => w.val # 1)

LEMMA AllocateOk ==
  ASSUME NEW m, NEW c \in MayBeNone, NEW start \in 1..NFatEnt - 1, Good(m),
         c \in Cluster => Fat(m, c) # 0
  PROVE Runs(m, Allocate(m, c, start)) /\ Allocate(m, c, start).val \in MayBeNone
<1> DEFINE f == FindFree(m, start)
<1>1. Free(m, f) BY FindFreeOk
<1>2. Allocate(m, c, start) = IF f.val \in Cluster THEN Link(f, c, f.val) ELSE f
  BY DEF Allocate, After
<1> HIDE DEF f
<1>3. CASE f.val \in Cluster
  <2>1. Good(f) /\ Fat(f, f.val) = 0 /\ (c \in Cluster => Fat(f, c) # 0)
    BY <1>1, <1>3 DEF Free, Runs, NoneOrFree, SameFat
  <2>2. Runs(f, Link(f, c, f.val)) /\ Link(f, c, f.val).val = f.val BY <1>3, <2>1, LinkOk
  <2> QED BY <1>1, <1>2, <1>3, <2>2, RunsOn DEF Free, NoneOrFree
<1>4. CASE f.val \notin Cluster BY <1>1, <1>2, <1>4 DEF Free, NoneOrFree
<1> QED BY <1>3, <1>4

LEMMA CreateOk ==
  ASSUME NEW m, NEW c, Good(m)
  PROVE Chained(m, c, CreateChain(m, c))
<1> DEFINE g == IF c = 0 THEN [m EXCEPT !.val = EOC] ELSE GetFat(m, c)
           start == IF c = 0 THEN Hint(g) ELSE c
           w == CreateChain(m, c)
<1>1. w = IF g.val < 2 THEN [g EXCEPT !.val = 1]
          ELSE IF g.val \in Cluster THEN g
          ELSE Allocate(g, c, start)
  BY DEF CreateChain, After
<1>2. /\ Runs(m, g) /\ Machine(g) /\ Good(g)
      /\ c = 0 => g.val = EOC
      /\ c \in Cluster => g.val = Fat(g, c) /\ g.val \in FatLink
      /\ c # 0 /\ c \notin Cluster => g.val = 1
  <2>1. CASE c = 0
    <3>1. Labelled(m, g) /\ g.val = EOC BY <2>1, ValOk DEF Good
    <3> QED BY <2>1, <3>1, RunsOn, Links DEF Runs, Good
  <2>2. CASE c # 0
    <3>1. GotFat(m, c, g) /\ Runs(m, g) BY <2>2, GetRuns
    <3> QED BY <2>2, <3>1 DEF GotFat, Runs, Good, SameFat
  <2> QED BY <2>1, <2>2
<1> HIDE DEF g
<1>3. CASE g.val < 2
  <2>1. w = [g EXCEPT !.val = 1] BY <1>1, <1>3
  <2>2. Labelled(g, w) /\ w.val = 1 BY <1>2, <2>1, ValOk
  <2>3. c # 0 BY <1>2, <1>3, Links
  <2> QED BY <1>2, <2>2, <2>3, RunsOn DEF Chained
<1>4. CASE ~(g.val < 2) /\ g.val \in Cluster
  <2>1. w = g BY <1>1, <1>4
  <2> QED BY <1>2, <1>4, <2>1, Links DEF Chained
<1>5. CASE ~(g.val < 2) /\ g.val \notin Cluster
  <2>1. w = Allocate(g, c, start) BY <1>1, <1>5
  <2>2. c \in MayBeNone /\ (c \in Cluster => Fat(g, c) # 0)
    BY <1>2, <1>5 DEF MayBeNone
  <2>3. start \in 1..NFatEnt - 1
    <3>1. g.last \in Nat BY <1>2 DEF Good, VolOk, BaseOk, InfoOk
    <3> QED BY <2>2, <3>1, Layout, Geometry, Links DEF Hint, MayBeNone, NFatEnt
  <2> HIDE DEF start, w
  <2>4. Runs(g, w) /\ w.val \in MayBeNone BY <1>2, <2>1, <2>2, <2>3, AllocateOk
  <2> QED BY <1>2, <2>4, RunsOn, Links DEF Chained, MayBeNone, w
<1> QED BY <1>3, <1>4, <1>5

(* f_getfree: what is counted so far is what is free below x.c.            *)
FreeBelow(v, c) == {d \in Cluster : d < c /\ Fat(v, d) = 0}
CountInv(p, k, y) ==
  /\ LoopOk(y) /\ "c" \in DOMAIN y
  /\ Runs(p, y.m) /\ SameFat(p, y.m) /\ y.m.free = p.free
  /\ y.c \in 2..NFatEnt /\ y.m.val = Cardinality(FreeBelow(p, y.c))
  /\ y.on => y.c = k + 2
  /\ ~y.on => y.c = NFatEnt /\ y.m.res = "OK"
CountLoop == INSTANCE LoopProofs WITH Body <- CountOne, Inv <- CountInv

LEMMA BelowNext ==
  ASSUME NEW v, NEW c \in Cluster
  PROVE /\ IsFiniteSet(FreeBelow(v, c)) /\ Cardinality(FreeBelow(v, c)) \in Nat
        /\ Cardinality(FreeBelow(v, c + 1))
             = Cardinality(FreeBelow(v, c)) + (IF Fat(v, c) = 0 THEN 1 ELSE 0)
<1>1. FreeBelow(v, c) \subseteq Cluster BY DEF FreeBelow
<1>2. IsFiniteSet(FreeBelow(v, c)) /\ Cardinality(FreeBelow(v, c)) \in Nat
  BY <1>1, ClusterFinite, FS_Subset, FS_CardinalityType
<1>3. \A d \in Cluster : d \in Nat /\ c \in Nat BY Links
<1>4. CASE Fat(v, c) = 0
  <2>1. FreeBelow(v, c + 1) = FreeBelow(v, c) \union {c} /\ c \notin FreeBelow(v, c)
    BY <1>3, <1>4 DEF FreeBelow
  <2> QED BY <1>2, <1>4, <2>1, FS_AddElement
<1>5. CASE Fat(v, c) # 0
  <2>1. FreeBelow(v, c + 1) = FreeBelow(v, c) BY <1>3, <1>5 DEF FreeBelow
  <2> QED BY <1>2, <1>5, <2>1
<1> QED BY <1>2, <1>4, <1>5

LEMMA CountStep ==
  ASSUME NEW p, NEW k \in Nat, NEW x, CountInv(p, k, x), x.on
  PROVE CountInv(p, k + 1, CountOne(x))
<1> DEFINE m == x.m
           c == x.c
           b == MoveWindow(m, FatSect(c))
           v == b.val + (IF b.win[c % PerFat] = 0 THEN 1 ELSE 0)
           a == [b EXCEPT !.val = v]
           w == CountOne(x)
<1>1. /\ LoopOk(x) /\ "c" \in DOMAIN x /\ Runs(p, m) /\ SameFat(p, m) /\ m.free = p.free
      /\ c \in 2..NFatEnt /\ m.val = Cardinality(FreeBelow(p, c)) /\ c = k + 2
      /\ Good(m) /\ Machine(m)
  BY DEF CountInv, Runs, Good
<1>2. w = IF c = NFatEnt THEN Stop(x, Ok(m))
          ELSE OnOk(x, b, LAMBDA u :
                 [x EXCEPT !.m = [u EXCEPT !.val = @ + (IF u.win[x.c % PerFat] = 0 THEN 1 ELSE 0)],
                           !.c = @ + 1])
  BY DEF CountOne
<1> HIDE DEF w
<1> SUFFICES CountInv(p, k + 1, w) BY DEF w
<1>3. CASE c = NFatEnt
  <2>1. w = Stop(x, Ok(m)) BY <1>2, <1>3
  <2>2. Labelled(m, Ok(m)) /\ Ok(m).res = "OK" /\ Ok(m).val = m.val BY <1>1, FailOk
  <2>3. LoopOk(w) /\ "c" \in DOMAIN w /\ w.c = c /\ ~w.on /\ w.m = Ok(m)
    BY <2>1, <1>1 DEF Stop, LoopOk
  <2>4. Runs(p, w.m) /\ SameFat(p, w.m) /\ w.m.free = p.free /\ w.m.res = "OK" /\ w.m.val = m.val
    BY <2>2, <2>3, <1>1, RunsOn DEF Labelled, SameFat, SameVol, SameInfo
  <2> QED BY <2>3, <2>4, <1>1, <1>3 DEF CountInv
<1>4. CASE c # NFatEnt
  <2>1. c \in Cluster /\ c + 1 \in 2..NFatEnt BY <1>1, <1>4, Links DEF Cluster
  <2>2. FatSect(c) \in FatArea /\ FatSect(c) # 0 /\ FatSect(c) \in Places
    BY <2>1, FatPlace, Layout DEF Places
  <2>3. Moved(m, FatSect(c), b) /\ Runs(m, b) BY <1>1, <2>2, MoveRuns
  <2>4. b.res = "OK" /\ b.val = m.val /\ b.winsect = FatSect(c) /\ Machine(b)
    BY <2>2, <2>3 DEF Moved, Base
  <2> HIDE DEF b
  <2>5. w = [x EXCEPT !.m = a, !.c = c + 1] BY <1>1, <1>2, <1>4, <2>4 DEF OnOk, Machine, Fields
  <2>6. b.win[c % PerFat] = Fat(p, c)
    <3>1. b.win[c % PerFat] = Fat(b, c) BY <2>4 DEF Fat, Seen
    <3> QED BY <3>1, <2>1, <2>3, <1>1 DEF Moved, SameFat
  <2>7. Labelled(b, a) /\ a.val = v BY <2>4, ValOk
  <2>8. v = Cardinality(FreeBelow(p, c + 1)) BY <2>1, <2>4, <2>6, <1>1, BelowNext
  <2> HIDE DEF a, v
  <2>9. Runs(p, a) /\ SameFat(p, a) /\ a.free = p.free
    BY <2>3, <2>7, <1>1, RunsOn DEF Moved, Labelled, SameFat, SameVol, SameInfo
  <2>10. LoopOk(w) /\ "c" \in DOMAIN w /\ w.c = c + 1 /\ w.on /\ w.m = a
    BY <2>5, <1>1 DEF LoopOk
  <2> HIDE DEF c
  <2> QED BY <1>1, <2>1, <2>7, <2>8, <2>9, <2>10 DEF CountInv
<1> QED BY <1>3, <1>4

LEMMA CountFreeOk ==
  ASSUME NEW m, Good(m)
  PROVE LET w == CountFree(m)
        IN /\ Runs(m, w) /\ SameFat(m, w) /\ w.free = m.free /\ w.res = "OK"
           /\ w.val = Cardinality(FreeSet(m))
<1> DEFINE z == [m EXCEPT !.val = 0]
           x == [on |-> TRUE, m |-> z, c |-> 2]
           n == NClusters + 1
           y == While(CountOne, x, n)
<1>1. CountInv(m, 0, x)
  <2>1. Labelled(m, z) /\ z.val = 0 BY ValOk DEF Good
  <2>2. Cardinality(FreeBelow(m, 2)) = 0
    <3>1. FreeBelow(m, 2) = {} BY Links DEF FreeBelow
    <3> QED BY <3>1, FS_EmptySet
  <2>3. Runs(m, z) /\ SameFat(m, z) /\ z.free = m.free
    BY <2>1, RunsOn DEF Labelled, SameVol, SameInfo
  <2> HIDE DEF z
  <2> QED BY <2>1, <2>2, <2>3, Layout, Geometry DEF CountInv, LoopOk, NFatEnt
<1>2. ASSUME NEW k \in Nat, NEW u, CountInv(m, k, u), k < n PROVE CountInv(m, k + 1, Round(CountOne, u))
  <2>1. CASE u.on BY <1>2, <2>1, CountStep DEF Round
  <2>2. CASE ~u.on BY <1>2, <2>2 DEF Round, CountInv
  <2> QED BY <2>1, <2>2
<1>3. n \in Nat /\ n + 2 = NFatEnt + 1 BY Geometry DEF NFatEnt
<1>4. CountFree(m) = Result(y) BY DEF CountFree
<1> HIDE DEF x, n
<1>5. CountInv(m, n, CountLoop!While(CountOne, x, n))
  BY <1>1, <1>2, <1>3, SetInduction, CountLoop!WhileKeeps DEF Round, CountLoop!Round
<1>6. CountInv(m, n, y) BY <1>5 DEF While, CountLoop!While, Round, CountLoop!Round
<1> HIDE DEF y
<1>7. ~y.on BY <1>6, <1>3, Links DEF CountInv
<1>8. Result(y) = y.m BY <1>7 DEF Result
<1>9. FreeBelow(m, NFatEnt) = FreeSet(m) BY Links DEF FreeBelow, FreeSet
<1> QED BY <1>4, <1>6, <1>7, <1>8, <1>9 DEF CountInv

LEMMA GetFreeOk ==
  ASSUME NEW m, Good(m)
  PROVE Runs(m, GetFree(m))
<1>1. Machine(m) BY DEF Good
<1>2. CASE m.free \in 0..NClusters
  <2> DEFINE a == Ok(m)
             w == [a EXCEPT !.val = m.free]
  <2>1. Labelled(m, a) BY <1>1, FailOk
  <2>2. Labelled(a, w) BY <2>1, ValOk DEF Labelled
  <2>3. GetFree(m) = w BY <1>2 DEF GetFree
  <2> HIDE DEF a, w
  <2> QED BY <2>1, <2>2, <2>3, RunsOn
<1>3. CASE m.free \notin 0..NClusters
  <2> DEFINE n == CountFree(m)
             w == [n EXCEPT !.free = n.val, !.fsi = Fat32]
  <2>1. /\ Runs(m, n) /\ SameFat(m, n) /\ n.val = Cardinality(FreeSet(m))
    BY CountFreeOk
  <2>2. GetFree(m) = w BY <1>3 DEF GetFree, After
  <2> HIDE DEF n
  <2>3. /\ Machine(w) /\ w.disk = n.disk /\ w.win = n.win /\ w.winsect = n.winsect
        /\ w.wflag = n.wflag /\ w.last = n.last /\ w.free = n.val /\ w.fsi = Fat32
        /\ SameObjects(n, w)
    BY <2>1 DEF Runs, Good, Machine, Fields, SameObjects
  <2> HIDE DEF w
  <2>4. n.val \in Nat BY <2>1, ClusterFinite
  <2>5. BaseOk(w) /\ SameFat(n, w)
    BY <2>1, <2>3, <2>4, Geometry
       DEF Runs, Good, VolOk, BaseOk, WinOk, CopiesOk, InfoOk, SameFat, Fat, Seen
  <2>6. FreeSet(w) = FreeSet(m) BY <2>1, <2>5 DEF SameFat, FreeSet
  <2>7. CountOk(w) BY <2>1, <2>3, <2>6 DEF CountOk
  <2> QED BY <2>1, <2>2, <2>3, <2>5, <2>7 DEF Runs, Good, VolOk, SameObjects
<1> QED BY <1>2, <1>3

(* A freshly formatted volume.                                             *)
LEMMA ClearedOk == TableOk(Cleared)
BY DEF TableOk, Cleared, EntryOk, Blank

LEMMA FatSectorOk ==
  ASSUME NEW k \in Nat
  PROVE FatSector(k) \in [0..PerFat - 1 -> FatLink]
BY DEF FatSector, FatLink

LEMMA FormattedAt ==
  /\ DOMAIN Formatted = FatBase..FsInfo
  /\ \A k \in 0..FatSize - 1 : Formatted[FatBase + k] = FatSector(k)
  /\ NFats = 2 => \A k \in 0..FatSize - 1 : Formatted[FatBase + k + FatSize] = FatSector(k)
  /\ \A s \in Tables : Formatted[s] = Cleared
  /\ Fat32 => Formatted[FsInfo].free = NClusters - 1 /\ Formatted[FsInfo].last = 2
<1> DEFINE fats == NFats * FatSize
           Kind(s) ==
             CASE s < FatBase + fats -> FatSector((s - FatBase) % FatSize)
               [] s = FsInfo -> [free |-> NClusters - 1, last |-> 2]
               [] OTHER -> Cleared
<1>1. Formatted = [s \in FatBase..FsInfo |-> Kind(s)] BY DEF Formatted
<1>2. fats \in Nat /\ fats >= FatSize /\ (NFats = 2 => fats = 2 * FatSize) BY Geometry
<1>3. FsInfo >= FatBase + fats /\ FsInfo \in Nat BY Geometry, Layout DEF FsInfo, DataBase, FatBase
<1>4. Tables = FatBase + fats..FsInfo - 1 BY DEF Tables
<1> HIDE DEF fats
<1>5. ASSUME NEW k \in 0..FatSize - 1 PROVE Formatted[FatBase + k] = FatSector(k)
  <2> DEFINE s == FatBase + k
  <2>1. s \in FatBase..FsInfo /\ s < FatBase + fats /\ s - FatBase = k /\ s # FsInfo
    BY <1>2, <1>3, Geometry DEF FatBase
  <2>2. k % FatSize = k BY Geometry
  <2> HIDE DEF s
  <2>3. Formatted[s] = FatSector((s - FatBase) % FatSize) BY <1>1, <2>1
  <2> QED BY <2>1, <2>2, <2>3 DEF s
<1>6. ASSUME NFats = 2, NEW k \in 0..FatSize - 1
      PROVE Formatted[FatBase + k + FatSize] = FatSector(k)
  <2> DEFINE s == FatBase + k + FatSize
  <2>1. s \in FatBase..FsInfo /\ s < FatBase + fats /\ s - FatBase = FatSize * 1 + k /\ s # FsInfo
    BY <1>2, <1>3, <1>6, Geometry DEF FatBase
  <2>2. (FatSize * 1 + k) % FatSize = k BY DivModOf, Geometry
  <2> HIDE DEF s
  <2>3. Formatted[s] = FatSector((s - FatBase) % FatSize) BY <1>1, <2>1
  <2> QED BY <2>1, <2>2, <2>3 DEF s
<1>7. ASSUME NEW s \in Tables PROVE Formatted[s] = Cleared
  <2>1. s \in FatBase..FsInfo /\ ~(s < FatBase + fats) /\ s # FsInfo
    BY <1>2, <1>3, <1>4 DEF FatBase
  <2> QED BY <1>1, <2>1
<1>8. Formatted[FsInfo] = [free |-> NClusters - 1, last |-> 2]
  BY <1>1, <1>2, <1>3 DEF FatBase
<1>9. DOMAIN Formatted = FatBase..FsInfo BY <1>1
<1> QED BY <1>5, <1>6, <1>7, <1>8, <1>9

LEMMA FormattedOk ==
  /\ DiskOk(Formatted)
  /\ NFats = 2 => \A s \in FatArea : Formatted[s] = Formatted[s + FatSize]
  /\ \A c \in Cluster : Formatted[FatSect(c)][c % PerFat] = IF Fat32 /\ c = 2 THEN EOC ELSE 0
<1>1. ASSUME NEW s \in FatArea
      PROVE s - FatBase \in 0..FatSize - 1 /\ FatBase + (s - FatBase) = s
            /\ FatBase + (s - FatBase) + FatSize = s + FatSize
  BY Geometry DEF FatArea, FatBase
<1>2. \A s \in FatArea : Formatted[s] = FatSector(s - FatBase)
                         /\ (NFats = 2 => Formatted[s + FatSize] = FatSector(s - FatBase))
  BY <1>1, FormattedAt
<1>3. DiskOk(Formatted)
  BY <1>1, <1>2, FormattedAt, FatSectorOk, ClearedOk DEF DiskOk
<1>4. ASSUME NEW c \in Cluster
      PROVE Formatted[FatSect(c)][c % PerFat] = IF Fat32 /\ c = 2 THEN EOC ELSE 0
  <2>1. FatSect(c) \in FatArea /\ c % PerFat \in 0..PerFat - 1 BY FatPlace
  <2> DEFINE k == c \div PerFat
             r == c % PerFat
  <2>2. c \in Nat /\ c >= 2 /\ ~(c < 2) BY Links
  <2>3. k \in Nat /\ c = PerFat * k + r BY <2>2, DivMod, Geometry
  <2>4. FatSect(c) - FatBase = k BY <2>3 DEF FatSect, FatBase
  <2>5. PerFat * k = k * PerFat BY <2>3, Times, Geometry
  <2> HIDE DEF k, r
  <2>6. Formatted[FatSect(c)] = FatSector(k) BY <1>2, <2>1, <2>4
  <2>7. r \in 0..PerFat - 1 /\ k * PerFat + r = c BY <2>1, <2>3, <2>5 DEF r
  <2>8. FatSector(k)[r] = IF Fat32 /\ c = DirBase THEN EOC ELSE 0
    BY <2>2, <2>7 DEF FatSector
  <2> QED BY <2>6, <2>8 DEF DirBase, r
<1> QED BY <1>2, <1>3, <1>4

(* chk_mounted: the number of free clusters is unknown or that of FSInfo.  *)
LEMMA MountOk ==
  ASSUME NEW m, Machine(m), m.disk = Formatted
  PROVE Runs(m, Mount(m)) /\ Mount(m).res = "OK"
<1> DEFINE a == Access(m)
           b == Forgotten(a)
           w == Mount(m)
<1>1. Machine(a) /\ SameObjects(m, a) /\ a.disk = Formatted /\ a.res = "OK"
  BY AccessOk DEF SameVol
<1>2. w = IF Fat32 THEN ReadInfo(b) ELSE b BY <1>1 DEF Mount, Then
<1> HIDE DEF a, w
<1>3. /\ Machine(b) /\ SameObjects(m, b) /\ b.disk = Formatted /\ b.winsect = 0
      /\ b.wflag = FALSE /\ b.free = Unknown /\ b.last = 0 /\ b.fsi = FALSE /\ b.res = "OK"
  BY <1>1 DEF Forgotten, Machine, Fields, SameObjects
<1> HIDE DEF b
<1>4. /\ Machine(w) /\ SameObjects(m, w) /\ w.disk = Formatted /\ w.winsect = 0
      /\ w.wflag = FALSE /\ w.fsi = FALSE /\ w.last \in {0, 2}
      /\ w.free \in {Unknown, IF Fat32 THEN NClusters - 1 ELSE Unknown} /\ w.res = "OK"
  <2>1. CASE ~Fat32 BY <1>2, <1>3, <2>1
  <2>2. CASE Fat32
    <3> DEFINE c == Access(b)
    <3>1. Machine(c) /\ SameVol(b, c) /\ SameObjects(b, c) /\ c.res = "OK" BY <1>3, AccessOk
    <3>2. w = [c EXCEPT !.free = c.disk[FsInfo].free, !.last = c.disk[FsInfo].last]
      BY <1>2, <2>2, <3>1 DEF ReadInfo, After
    <3> HIDE DEF c
    <3>3. c.disk = Formatted /\ c.winsect = 0 /\ c.wflag = FALSE /\ c.fsi = FALSE
          /\ SameObjects(m, c)
      BY <1>3, <3>1 DEF SameVol, SameInfo, SameObjects
    <3>4. Formatted[FsInfo].free = NClusters - 1 /\ Formatted[FsInfo].last = 2
      BY <2>2, FormattedAt
    <3> QED BY <2>2, <3>1, <3>2, <3>3, <3>4 DEF Machine, Fields, SameObjects
  <2> QED BY <2>1, <2>2, Geometry
<1>5. BaseOk(w)
  <2>1. WinOk(w) BY <1>4, Layout DEF WinOk
  <2>2. CopiesOk(w) BY <1>4, FormattedOk DEF CopiesOk
  <2>4. NClusters - 1 \in Nat BY Geometry
  <2>5. w.free \in Nat \union {Unknown}
    <3>1. CASE Fat32 BY <1>4, <2>4, <3>1
    <3>2. CASE ~Fat32 BY <1>4, <3>2
    <3> QED BY <3>1, <3>2
  <2>6. w.last \in Nat BY <1>4
  <2>7. w.fsi \in BOOLEAN BY <1>4
  <2>3. InfoOk(w) BY <2>5, <2>6, <2>7 DEF InfoOk
  <2> QED BY <1>4, <2>1, <2>2, <2>3, FormattedOk DEF BaseOk
<1>6. CountOk(w)
  <2> SUFFICES ASSUME Fat32, w.free = NClusters - 1 PROVE Cardinality(FreeSet(w)) = NClusters - 1
    BY <1>4 DEF CountOk, Unknown
  <2>1. \A c \in Cluster : Fat(w, c) = IF c = 2 THEN EOC ELSE 0
    BY <1>4, FormattedOk, FatPlace, Layout DEF Fat, Seen
  <2>2. FreeSet(w) = Cluster \ {2} BY <2>1, Links DEF FreeSet
  <2>3. 2 \in Cluster BY Layout, Geometry
  <2> QED BY <2>2, <2>3, ClusterFinite, FS_RemoveElement
<1> QED BY <1>4, <1>5, <1>6 DEF Runs, Good, VolOk, w

(* Indices of entries.                                                     *)
LEMMA BelowProduct ==             \* a quotient of what is below a product
  ASSUME NEW n \in Nat \ {0}, NEW c \in Nat, NEW i \in Nat, i < n * c
  PROVE i \div n \in Nat /\ i \div n < c
<1> DEFINE a == i \div n
           b == i % n
<1>1. a \in Nat /\ b \in 0..n - 1 /\ i = n * a + b BY DivMod
<1> HIDE DEF a, b
<1>2. SUFFICES ASSUME a >= c PROVE FALSE BY <1>1 DEF a
<1>3. n * a >= n * c BY <1>1, <1>2, Z3
<1>4. n * a \in Nat /\ n * c \in Nat BY <1>1, Times
<1> DEFINE u == n * a
           v == n * c
<1>5. u \in Nat /\ v \in Nat /\ u >= v /\ i = u + b /\ i < v BY <1>1, <1>3, <1>4
<1> HIDE DEF u, v
<1> QED BY <1>1, <1>5

LEMMA EntriesOfCluster == PerCluster \in Nat \ {0}
<1>1. SS * CSize \in Nat BY Geometry, Times
<1>2. SS * CSize # 0 BY Geometry, Z3
<1> QED BY <1>1, <1>2 DEF PerCluster

LEMMA InCluster ==
  ASSUME NEW i \in Nat, NEW q \in Nat, i < PerCluster
  PROVE i \div SS \in 0..CSize - 1 /\ ((i + q * PerCluster) \div SS) % CSize = i \div SS
<1> DEFINE a == i \div SS
           b == i % SS
<1>0. SS \in Nat \ {0} /\ CSize \in Nat \ {0} BY Geometry
<1>1. a \in Nat /\ b \in 0..SS - 1 /\ i = SS * a + b BY <1>0, DivMod
<1>2. a < CSize BY <1>0, BelowProduct DEF PerCluster
<1> HIDE DEF a, b
<1>3. i + q * (SS * CSize) = SS * (CSize * q + a) + b
  <2>1. q * (SS * CSize) = SS * (CSize * q) BY <1>0, Z3
  <2>2. CSize * q \in Nat BY <1>0, Times
  <2> DEFINE u == CSize * q
  <2>3. SS * (u + a) = SS * u + SS * a BY <1>0, <1>1, <2>2, Z3
  <2>4. SS * u \in Nat /\ SS * a \in Nat BY <1>0, <1>1, <2>2, Times
  <2> QED BY <1>0, <1>1, <2>1, <2>2, <2>3, <2>4
<1>4. CSize * q + a \in Nat BY <1>0, <1>1, Times
<1>5. (i + q * PerCluster) \div SS = CSize * q + a
  <2> DEFINE t == CSize * q + a
  <2>1. t \in Nat BY <1>4
  <2> HIDE DEF t
  <2>2. (SS * t + b) \div SS = t BY <1>0, <1>1, <2>1, DivModOf
  <2> QED BY <1>3, <2>2 DEF t, PerCluster
<1>6. (CSize * q + a) % CSize = a BY <1>0, <1>1, <1>2, DivModOf
<1> QED BY <1>1, <1>2, <1>5, <1>6, <1>0 DEF a

(* A directory object that points to an entry points to a table's sector.  *)
LEMMA PointsTo ==
  ASSUME NEW d, DjOk(d), Points(d)
  PROVE d.sect \in Tables /\ d.sect # 0 /\ d.sect \in Places
<1>1. d.index \in Nat BY DEF DjOk
<1>2. CASE d.clust \in Cluster /\ d.sect = Clust2Sect(d.clust) + ((d.index \div SS) % CSize)
  <2>1. (d.index \div SS) % CSize \in 0..CSize - 1 BY <1>1, DivMod, Geometry
  <2> QED BY <1>2, <2>1, ClusterPlace, Layout DEF Places
<1>3. CASE d.clust = 0 /\ ~Fat32 /\ d.index < NRoot /\ d.sect = DirBase + d.index \div SS
  <2> DEFINE root == NRoot \div SS
             fats == NFats * FatSize
             all == NClusters * CSize
             i == d.index \div SS
  <2>1. i \in Nat /\ i < root
    <3>1. NRoot = SS * root /\ root \in Nat BY Geometry
    <3> QED BY <1>1, <1>3, <3>1, BelowProduct, Geometry
  <2>2. fats \in Nat /\ all \in Nat /\ root \in Nat BY Geometry
  <2>3. d.sect = 1 + fats + i BY <1>3 DEF DirBase, FatBase
  <2> HIDE DEF root, fats, all, i
  <2>4. Tables = 1 + fats..(1 + fats + root + all) - 1
    BY DEF Tables, FatBase, FsInfo, DataBase, root, fats, all
  <2> QED BY <2>1, <2>2, <2>3, <2>4 DEF Places
<1> QED BY <1>2, <1>3 DEF Points

LEMMA SlotOk ==
  ASSUME NEW d, DjOk(d)
  PROVE (d.index % SS) + 1 \in 1..SS
<1>1. d.index \in Nat BY DEF DjOk
<1>2. d.index % SS \in 0..SS - 1 BY <1>1, DivMod, Geometry
<1> QED BY <1>2, Geometry

(* The window on a table, whatever it holds.                               *)
LEMMA TableWindow ==
  ASSUME NEW m, NEW w, Good(m), m.winsect \in Tables \/ m.wflag = FALSE,
         Machine(w), w.disk = m.disk, SameInfo(m, w), w.winsect \in Tables,
         w.wflag \in BOOLEAN, TableOk(w.win)
  PROVE Good(w) /\ SameFat(m, w)
<1>1. DiskOk(m.disk) /\ WinOk(m) /\ CopiesOk(m) /\ InfoOk(m) /\ CountOk(m)
  BY DEF Good, VolOk, BaseOk
<1>2. w.winsect \notin FatArea /\ w.winsect # 0 /\ (m.winsect \in FatArea => m.wflag = FALSE)
  BY Layout
<1>3. WinOk(w) BY <1>2 DEF WinOk
<1>4. CopiesOk(w) BY <1>1, <1>2 DEF CopiesOk
<1>5. InfoOk(w) BY <1>1 DEF InfoOk, SameInfo
<1>6. SameFat(m, w)
  <2> SUFFICES ASSUME NEW c \in Cluster PROVE Seen(w, FatSect(c)) = Seen(m, FatSect(c))
    BY DEF SameFat, Fat
  <2>1. FatSect(c) \in FatArea BY FatPlace
  <2> QED BY <2>1, <1>1, <1>2 DEF Seen, WinOk
<1>7. CountOk(w) BY <1>1, <1>6, SameFatCount DEF SameInfo
<1> QED BY <1>1, <1>3, <1>4, <1>5, <1>6, <1>7 DEF Good, VolOk, BaseOk

(* An entry is written into the window.                                    *)
SetEntry(m, i, e) == [m EXCEPT !.win[i] = e, !.wflag = TRUE]
EntryPut(m, i, e, w) ==
  /\ Runs(m, w) /\ SameFat(m, w) /\ w.winsect = m.winsect /\ w.res = m.res
  /\ w.val = m.val /\ (i \in 1..SS => w.win[i] = e)

LEMMA EntryWritten ==
  ASSUME NEW m, NEW i, NEW e, Good(m), m.winsect \in Tables, EntryOk(e)
  PROVE EntryPut(m, i, e, SetEntry(m, i, e))
<1> DEFINE w == SetEntry(m, i, e)
<1>1. TableOk(m.win) BY DEF Good, VolOk, BaseOk, WinOk
<1>2. /\ Machine(w) /\ w.disk = m.disk /\ SameInfo(m, w) /\ w.winsect = m.winsect
      /\ w.wflag = TRUE /\ w.win = [m.win EXCEPT ![i] = e] /\ SameObjects(m, w)
      /\ w.res = m.res /\ w.val = m.val
  BY DEF Good, Machine, Fields, SameInfo, SameObjects, SetEntry
<1> HIDE DEF w
<1>3. TableOk(w.win) BY <1>1, <1>2 DEF TableOk
<1>4. Good(w) /\ SameFat(m, w) BY <1>2, <1>3, TableWindow
<1> QED BY <1>1, <1>2, <1>4 DEF Runs, TableOk, EntryPut, w

(* The window is on the entry the directory object points to.              *)
OnEntry(m) == Good(m) /\ DjOk(m.dj) /\ Points(m.dj) /\ m.winsect = m.dj.sect

LEMMA HereOk ==
  ASSUME NEW m, OnEntry(m)
  PROVE EntryOk(Here(m)) /\ m.winsect \in Tables
<1>1. m.winsect \in Tables BY PointsTo DEF OnEntry
<1>2. (m.dj.index % SS) + 1 \in 1..SS BY SlotOk DEF OnEntry
<1>3. TableOk(m.win) BY <1>1 DEF OnEntry, Good, VolOk, BaseOk, WinOk
<1> QED BY <1>1, <1>2, <1>3 DEF TableOk, Here

LEMMA PutRuns ==
  ASSUME NEW m, NEW e, OnEntry(m), EntryOk(e)
  PROVE LET w == Put(m, e)
        IN Runs(m, w) /\ OnEntry(w) /\ w.res = m.res /\ w.val = m.val /\ Here(w) = e
<1> DEFINE w == Put(m, e)
           i == (m.dj.index % SS) + 1
<1>1. w = SetEntry(m, i, e) BY DEF Put, SetEntry
<1>2. i \in 1..SS BY SlotOk DEF OnEntry
<1>3. Good(m) /\ m.winsect \in Tables BY HereOk DEF OnEntry
<1> HIDE DEF w, i
<1>4. EntryPut(m, i, e, w) BY <1>1, <1>3, EntryWritten
<1>5. OnEntry(w) /\ Here(w) = e BY <1>2, <1>4 DEF EntryPut, OnEntry, Runs, SameObjects, Here, i
<1> QED BY <1>4, <1>5 DEF EntryPut, w

(* move_window to the entry.                                               *)
LEMMA ToEntry ==
  ASSUME NEW m, Good(m), DjOk(m.dj), Points(m.dj)
  PROVE LET w == MoveWindow(m, m.dj.sect)
        IN Runs(m, w) /\ OnEntry(w) /\ w.res = "OK" /\ w.val = m.val
<1> DEFINE w == MoveWindow(m, m.dj.sect)
<1>1. m.dj.sect \in Places /\ m.dj.sect # 0 BY PointsTo
<1>2. Moved(m, m.dj.sect, w) /\ Runs(m, w) BY <1>1, MoveRuns
<1> QED BY <1>1, <1>2 DEF OnEntry, Moved, Runs, SameObjects

(* A step of a call that leaves the volume, the directory object and the   *)
(* file object alone but for what it has put into the directory object.    *)
DirRuns(m, w) == Good(w) /\ DjOk(w.dj) /\ w.fp = m.fp
Pointed(m, idx, w) ==
  DirRuns(m, w) /\ w.dj.index = idx /\ (w.res = "OK" => Points(w.dj))

LEMMA SameVolGood ==
  ASSUME NEW m, NEW w, Good(m), Machine(w), SameVol(m, w)
  PROVE Good(w) /\ SameFat(m, w)
BY SameVolOk DEF Good, SameFat

LEMMA DirRunsOn ==
  ASSUME NEW m, NEW a, NEW b
  PROVE /\ DirRuns(m, a) /\ DirRuns(a, b) => DirRuns(m, b)
        /\ DirRuns(m, a) /\ Labelled(a, b) => DirRuns(m, b)
        /\ DirRuns(m, a) /\ Runs(a, b) => DirRuns(m, b)
        /\ Good(m) /\ DjOk(m.dj) => DirRuns(m, m)
        /\ DirRuns(m, a) => Machine(a) /\ Good(a) /\ DjOk(a.dj)
        /\ DjOk(m.dj) /\ Runs(m, a) => DirRuns(m, a)
BY DEF DirRuns, Labelled, Runs, SameObjects, Good

LEMMA DirFails ==
  ASSUME NEW m, NEW a, NEW r, DirRuns(m, a)
  PROVE /\ DirRuns(m, Fail(a, r)) /\ Fail(a, r).res = r /\ Fail(a, r).dj = a.dj
        /\ DirRuns(m, Ok(a)) /\ Ok(a).res = "OK" /\ Ok(a).dj = a.dj
        /\ Fail(a, r).val = a.val /\ Ok(a).val = a.val
        /\ Labelled(a, Ok(a)) /\ Labelled(a, Fail(a, r))
BY FailOk, DirRunsOn DEF Labelled, SameObjects

LEMMA DirResult ==
  ASSUME NEW m, NEW x, DirRuns(m, x.m)
  PROVE DirRuns(m, Result(x)) /\ (x.on => Result(x).res = "INT_ERR")
        /\ (~x.on => Result(x) = x.m) /\ Result(x).dj = x.m.dj
BY DirFails DEF Result

LEMMA PlacedOk ==
  ASSUME NEW m, NEW c \in MayBeNone, NEW s \in Nat, Good(m), DjOk(m.dj)
  PROVE LET w == Placed(m, c, s)
        IN /\ DirRuns(m, w) /\ w.res = "OK" /\ w.dj.index = m.dj.index
           /\ w.dj.clust = c /\ w.dj.sect = s
<1> DEFINE w == Placed(m, c, s)
<1>1. Machine(w) /\ SameVol(m, w) /\ w.fp = m.fp /\ w.res = "OK"
      /\ w.dj = [m.dj EXCEPT !.clust = c, !.sect = s]
  BY DEF Placed, Ok, Good, Machine, Fields, SameVol, SameInfo
<1> HIDE DEF w
<1>2. DjOk(w.dj) /\ w.dj.index = m.dj.index /\ w.dj.clust = c /\ w.dj.sect = s
  BY <1>1 DEF DjOk
<1>3. Good(w) BY <1>1, SameVolGood
<1> QED BY <1>1, <1>2, <1>3 DEF DirRuns, w

(* dir_sdi follows the chain to the cluster of the index.                  *)
WalkInv(p, k, y) ==
  /\ LoopOk(y) /\ {"c", "idx"} \subseteq DOMAIN y
  /\ DirRuns(p, y.m) /\ y.m.dj.index = p.dj.index
  /\ y.on => /\ y.c \in Cluster /\ y.idx \in Nat
             /\ \E q \in Nat : p.dj.index = y.idx + q * PerCluster
  /\ ~y.on /\ y.m.res = "OK" => Points(y.m.dj)
WalkLoop == INSTANCE LoopProofs WITH Body <- WalkOne, Inv <- WalkInv

LEMMA WalkStep ==
  ASSUME NEW p, NEW k \in Nat, NEW x, WalkInv(p, k, x), x.on
  PROVE WalkInv(p, k + 1, WalkOne(x))
<1> DEFINE m == x.m
           g == GetFat(m, x.c)
           w == WalkOne(x)
<1>1. /\ LoopOk(x) /\ {"c", "idx"} \subseteq DOMAIN x /\ DirRuns(p, m)
      /\ m.dj.index = p.dj.index /\ x.c \in Cluster /\ x.idx \in Nat /\ Good(m) /\ DjOk(m.dj)
  BY DirRunsOn DEF WalkInv
<1>2. PICK q \in Nat : p.dj.index = x.idx + q * PerCluster BY DEF WalkInv
<1>3. ASSUME NEW a, DirRuns(p, a), a.dj.index = p.dj.index, a.res = "OK" => Points(a.dj),
             w = Stop(x, a)
      PROVE WalkInv(p, k + 1, w)
  <2>1. LoopOk(w) /\ {"c", "idx"} \subseteq DOMAIN w /\ ~w.on /\ w.m = a
    BY <1>1, <1>3 DEF LoopOk, Stop
  <2> QED BY <2>1, <1>3 DEF WalkInv
<1>4. PerCluster \in Nat \ {0} BY EntriesOfCluster
<1>5. w = IF x.idx < PerCluster
          THEN Stop(x, Placed(m, x.c, Clust2Sect(x.c) + x.idx \div SS))
          ELSE IF g.val = DiskErr THEN Stop(x, Fail(g, "DISK_ERR"))
          ELSE IF g.val \notin Cluster THEN Stop(x, Fail(g, "INT_ERR"))
          ELSE [x EXCEPT !.m = g, !.c = g.val, !.idx = @ - PerCluster]
  BY DEF WalkOne, After
<1> HIDE DEF w, g
<1> SUFFICES WalkInv(p, k + 1, w) BY DEF w
<1>6. CASE x.idx < PerCluster
  <2> DEFINE s == Clust2Sect(x.c) + x.idx \div SS
             a == Placed(m, x.c, s)
  <2>1. x.idx \div SS \in 0..CSize - 1 /\ (m.dj.index \div SS) % CSize = x.idx \div SS
    BY <1>1, <1>2, <1>6, InCluster
  <2>2. s \in Nat BY <1>1, <2>1, ClusterPlace, Layout
  <2>3. x.c \in MayBeNone BY <1>1 DEF MayBeNone
  <2>4. s = Clust2Sect(x.c) + ((m.dj.index \div SS) % CSize) BY <2>1
  <2>5. w = Stop(x, a) BY <1>5, <1>6
  <2> HIDE DEF s
  <2>6. /\ DirRuns(m, a) /\ a.res = "OK" /\ a.dj.index = m.dj.index
        /\ a.dj.clust = x.c /\ a.dj.sect = s
    BY <1>1, <2>2, <2>3, PlacedOk
  <2> HIDE DEF a
  <2>7. Points(a.dj) BY <1>1, <2>4, <2>6 DEF Points
  <2> QED BY <1>1, <1>3, <2>5, <2>6, <2>7, DirRunsOn
<1>7. CASE ~(x.idx < PerCluster)
  <2>1. DirRuns(p, g) /\ g.dj.index = p.dj.index
    <3>1. Runs(m, g) BY <1>1, GetRuns DEF g
    <3> QED BY <3>1, <1>1, DirRunsOn DEF Runs, SameObjects
  <2>2. CASE g.val = DiskErr
    <3>1. w = Stop(x, Fail(g, "DISK_ERR")) BY <1>5, <1>7, <2>2
    <3>2. DirRuns(p, Fail(g, "DISK_ERR")) /\ Fail(g, "DISK_ERR").dj = g.dj
          /\ Fail(g, "DISK_ERR").res = "DISK_ERR"
      BY <2>1, DirFails
    <3> QED BY <1>3, <2>1, <3>1, <3>2
  <2>3. CASE g.val # DiskErr /\ g.val \notin Cluster
    <3>1. w = Stop(x, Fail(g, "INT_ERR")) BY <1>5, <1>7, <2>3
    <3>2. DirRuns(p, Fail(g, "INT_ERR")) /\ Fail(g, "INT_ERR").dj = g.dj
          /\ Fail(g, "INT_ERR").res = "INT_ERR"
      BY <2>1, DirFails
    <3> QED BY <1>3, <2>1, <3>1, <3>2
  <2>4. CASE g.val # DiskErr /\ g.val \in Cluster
    <3>1. w = [x EXCEPT !.m = g, !.c = g.val, !.idx = @ - PerCluster] BY <1>5, <1>7, <2>4
    <3>2. LoopOk(w) /\ {"c", "idx"} \subseteq DOMAIN w /\ w.on /\ w.m = g /\ w.c = g.val
          /\ w.idx = x.idx - PerCluster
      BY <3>1, <1>1 DEF LoopOk
    <3>3. w.idx \in Nat BY <3>2, <1>1, <1>4, <1>7
    <3>4. p.dj.index = w.idx + (q + 1) * PerCluster
      <4>1. (q + 1) * PerCluster = q * PerCluster + PerCluster BY <1>4, Times
      <4>2. q * PerCluster \in Nat BY <1>4, Times
      <4> QED BY <4>1, <4>2, <1>1, <1>2, <1>4, <3>2
    <3>5. \E r \in Nat : p.dj.index = w.idx + r * PerCluster BY <3>4
    <3> QED BY <2>1, <2>4, <3>2, <3>3, <3>5 DEF WalkInv
  <2> QED BY <2>2, <2>3, <2>4
<1> QED BY <1>6, <1>7

LEMMA WalkOk ==
  ASSUME NEW m, NEW c \in Cluster, Good(m), DjOk(m.dj)
  PROVE Pointed(m, m.dj.index, Walk(m, c, m.dj.index))
<1> DEFINE i == m.dj.index
           x == [on |-> TRUE, m |-> m, c |-> c, idx |-> i]
           n == (i \div PerCluster) + 1
           y == While(WalkOne, x, n)
<1>1. i \in Nat BY DEF DjOk
<1>2. n \in Nat
  <2>1. i \div PerCluster \in Nat BY <1>1, EntriesOfCluster, DivMod
  <2> QED BY <2>1
<1>3. WalkInv(m, 0, x)
  <2>1. i = i + 0 * PerCluster
    <3>1. SS * CSize \in Nat BY Geometry, Times
    <3>2. 0 * (SS * CSize) = 0 BY <3>1
    <3> QED BY <1>1, <3>2 DEF PerCluster
  <2>2. \E q \in Nat : i = i + q * PerCluster BY <2>1
  <2> QED BY <1>1, <2>2, DirRunsOn DEF WalkInv, LoopOk
<1>4. ASSUME NEW k \in Nat, NEW u, WalkInv(m, k, u) PROVE WalkInv(m, k + 1, Round(WalkOne, u))
  <2>1. CASE u.on BY <1>4, <2>1, WalkStep DEF Round
  <2>2. CASE ~u.on BY <1>4, <2>2 DEF Round, WalkInv
  <2> QED BY <2>1, <2>2
<1>5. Walk(m, c, i) = Result(y) BY DEF Walk
<1> HIDE DEF x, n
<1>6. WalkInv(m, n, WalkLoop!While(WalkOne, x, n))
  BY <1>2, <1>3, <1>4, SetInduction, WalkLoop!WhileKeeps DEF Round, WalkLoop!Round
<1>7. WalkInv(m, n, y) BY <1>6 DEF While, WalkLoop!While, Round, WalkLoop!Round
<1> HIDE DEF y
<1>8. DirRuns(m, Result(y)) /\ (y.on => Result(y).res = "INT_ERR")
      /\ (~y.on => Result(y) = y.m) /\ Result(y).dj = y.m.dj
  BY <1>7, DirResult DEF WalkInv
<1> QED BY <1>5, <1>7, <1>8 DEF WalkInv, Pointed

LEMMA SdiOk ==
  ASSUME NEW m, NEW idx \in Nat, Good(m), DjOk(m.dj)
  PROVE Pointed(m, idx, DirSdi(m, idx))
<1> DEFINE d == [m EXCEPT !.dj.index = idx]
           c == IF m.dj.sclust = 0 /\ Fat32 THEN DirBase ELSE m.dj.sclust
           w == DirSdi(m, idx)
<1>1. Good(d) /\ DjOk(d.dj) /\ d.fp = m.fp /\ d.dj.index = idx
  <2>1. Machine(d) /\ SameVol(m, d) /\ d.fp = m.fp /\ d.dj = [m.dj EXCEPT !.index = idx]
    BY DEF Good, Machine, Fields, SameVol, SameInfo
  <2> HIDE DEF d
  <2>2. DjOk(d.dj) /\ d.dj.index = idx BY <2>1 DEF DjOk
  <2> QED BY <2>1, <2>2, SameVolGood
<1>2. m.dj.sclust \in MayBeNone BY DEF DjOk
<1>3. m.dj.sclust # 1 /\ ~(m.dj.sclust >= NFatEnt) BY <1>2, Links DEF MayBeNone
<1>4. c \in MayBeNone /\ (c = 0 => ~Fat32)
  BY <1>2, Layout, Geometry DEF MayBeNone, DirBase
<1>5. w = IF c # 0 THEN Walk(d, c, idx)
          ELSE IF idx < NRoot THEN Placed(d, 0, DirBase + idx \div SS)
          ELSE Fail([d EXCEPT !.dj.clust = 0], "INT_ERR")
  BY <1>3 DEF DirSdi
<1> HIDE DEF d, c
<1>6. CASE c # 0
  <2>1. Pointed(d, idx, Walk(d, c, idx)) BY <1>1, <1>4, <1>6, WalkOk DEF MayBeNone
  <2> QED BY <1>1, <1>5, <1>6, <2>1 DEF Pointed, DirRuns
<1>7. CASE c = 0 /\ idx < NRoot
  <2> DEFINE s == DirBase + idx \div SS
  <2>5. idx \div SS \in Nat BY DivMod, Geometry
  <2>1. s \in Nat BY <2>5, Layout
  <2>2. w = Placed(d, 0, s) BY <1>5, <1>7
  <2>3. 0 \in MayBeNone BY DEF MayBeNone
  <2> HIDE DEF w, s
  <2>4. /\ DirRuns(d, w) /\ w.res = "OK" /\ w.dj.index = d.dj.index
        /\ w.dj.clust = 0 /\ w.dj.sect = s
    BY <1>1, <2>1, <2>2, <2>3, PlacedOk
  <2>6. Points(w.dj) BY <1>1, <1>4, <1>7, <2>4 DEF Points, s
  <2> QED BY <1>1, <2>4, <2>6 DEF Pointed, DirRuns, w
<1>8. CASE c = 0 /\ ~(idx < NRoot)
  <2> DEFINE e == [d EXCEPT !.dj.clust = 0]
  <2>1. Machine(e) /\ SameVol(d, e) /\ e.fp = d.fp /\ e.dj = [d.dj EXCEPT !.clust = 0]
    BY <1>1 DEF Good, Machine, Fields, SameVol, SameInfo
  <2>2. w = Fail(e, "INT_ERR") BY <1>5, <1>8
  <2> HIDE DEF e, w
  <2>3. DjOk(e.dj) /\ e.dj.index = idx BY <1>1, <2>1 DEF DjOk, MayBeNone
  <2>4. Good(e) BY <1>1, <2>1, SameVolGood
  <2>5. DirRuns(m, e) BY <1>1, <2>1, <2>3, <2>4 DEF DirRuns
  <2>6. DirRuns(m, w) /\ w.res = "INT_ERR" /\ w.dj = e.dj BY <2>2, <2>5, DirFails
  <2> QED BY <2>3, <2>6 DEF Pointed, w
<1> QED BY <1>6, <1>7, <1>8

LEMMA OneMore ==                  \* a quotient and a remainder, one further
  ASSUME NEW n \in Nat \ {0}, NEW a \in Nat
  PROVE IF (a + 1) % n # 0
        THEN (a + 1) % n = (a % n) + 1 /\ (a + 1) \div n = a \div n
        ELSE (a + 1) \div n = (a \div n) + 1
<1> DEFINE q == a \div n
           r == a % n
<1>1. q \in Nat /\ r \in 0..n - 1 /\ a = n * q + r BY DivMod
<1>2. n * q \in Nat BY <1>1, Times
<1> HIDE DEF q, r
<1>3. CASE r + 1 \in 0..n - 1
  <2>1. (n * q + (r + 1)) \div n = q /\ (n * q + (r + 1)) % n = r + 1
    BY <1>1, <1>3, DivModOf
  <2>2. a + 1 = n * q + (r + 1) BY <1>1, <1>2
  <2> QED BY <1>1, <2>1, <2>2 DEF q, r
<1>4. CASE r = n - 1
  <2>1. n * (q + 1) = n * q + n BY <1>1, Z3
  <2>2. a + 1 = n * (q + 1) + 0 BY <1>1, <1>2, <1>4, <2>1
  <2>3. (n * (q + 1) + 0) \div n = q + 1 /\ (n * (q + 1) + 0) % n = 0
    BY <1>1, DivModOf
  <2> QED BY <2>2, <2>3 DEF q, r
<1> QED BY <1>1, <1>3, <1>4

(* A new cluster of a table is filled with blank entries.                  *)
FillInv(p, k, y) ==
  /\ \A j \in 0..CSize - 1 : p.winsect + j \in Tables
  /\ LoopOk(y) /\ "n" \in DOMAIN y
  /\ y.on => /\ y.n \in 0..CSize /\ k = CSize - y.n
             /\ y.m.winsect = p.winsect + k /\ y.m.wflag = FALSE
             /\ Machine(y.m) /\ Runs(p, [y.m EXCEPT !.winsect = p.winsect])
  /\ ~y.on => Runs(p, y.m) /\ y.m.res = "OK"
FillLoop == INSTANCE LoopProofs WITH Body <- FillOne, Inv <- FillInv

WindowAt(m, s) == [m EXCEPT !.winsect = s]
LEMMA WindowAtOk ==
  ASSUME NEW m, NEW s, Machine(m)
  PROVE LET w == WindowAt(m, s)
        IN /\ Machine(w) /\ w.disk = m.disk /\ SameInfo(m, w) /\ SameObjects(m, w)
           /\ w.winsect = s /\ w.wflag = m.wflag /\ w.win = m.win /\ w.res = m.res /\ w.val = m.val
BY DEF WindowAt, Machine, Fields, SameInfo, SameObjects

LEMMA TableGood == ASSUME NEW m, Good(m), m.winsect \in Tables PROVE TableOk(m.win)
BY DEF Good, VolOk, BaseOk, WinOk

LEMMA WindowPlace == ASSUME NEW m, Good(m) PROVE m.winsect \in Nat
<1>1. m.winsect \in {0} \union FatArea \union Tables BY DEF Good, VolOk, BaseOk, WinOk
<1>2. Tables \subseteq Nat /\ FatArea \subseteq Nat BY Layout
<1>3. m.winsect = 0 \/ m.winsect \in FatArea \/ m.winsect \in Tables BY <1>1
<1>4. CASE m.winsect = 0 BY <1>4
<1>5. CASE m.winsect \in FatArea BY <1>2, <1>5
<1>6. CASE m.winsect \in Tables BY <1>2, <1>6
<1> QED BY <1>3, <1>4, <1>5, <1>6

LEMMA TroubleOf ==
  /\ Trouble(1) = "INT_ERR" /\ Trouble(DiskErr) = "DISK_ERR"
  /\ \A v : v \notin {1, DiskErr} => Trouble(v) = "OK"
<1>1. 1 # DiskErr BY Layout, Geometry
<1> QED BY <1>1 DEF Trouble

LEMMA FillStep ==
  ASSUME NEW p, NEW k \in Nat, NEW x, FillInv(p, k, x), x.on
  PROVE FillInv(p, k + 1, FillOne(x))
<1> DEFINE m == x.m
           w == FillOne(x)
           t == WindowAt(m, p.winsect)
<1>1. /\ LoopOk(x) /\ "n" \in DOMAIN x /\ x.n \in 0..CSize /\ k = CSize - x.n
      /\ m.winsect = p.winsect + k /\ m.wflag = FALSE /\ Machine(m) /\ Runs(p, t)
      /\ \A j \in 0..CSize - 1 : p.winsect + j \in Tables
  BY DEF FillInv, WindowAt
<1>2. p.winsect \in Tables /\ p.winsect \in Nat
  <2>1. p.winsect + 0 \in Tables BY <1>1, Geometry
  <2>2. p.winsect \in Nat
    <3>1. t.winsect = p.winsect BY <1>1, WindowAtOk
    <3>2. t.winsect \in Nat BY <1>1, WindowPlace DEF Runs
    <3> QED BY <3>1, <3>2
  <2> QED BY <2>1, <2>2
<1>3. /\ t.disk = m.disk /\ SameInfo(m, t) /\ SameObjects(m, t) /\ t.winsect = p.winsect
      /\ t.win = m.win /\ t.wflag = FALSE
  BY <1>1, WindowAtOk
<1> HIDE DEF t
<1>4. Good(t) /\ TableOk(m.win) BY <1>1, <1>2, <1>3, TableGood DEF Runs
<1>5. CASE x.n = 0
  <2> DEFINE b == [m EXCEPT !.winsect = @ - CSize]
  <2>1. w = Stop(x, Ok(b)) BY <1>5 DEF FillOne
  <2>2. b = WindowAt(m, p.winsect) BY <1>1, <1>2, <1>5, Geometry DEF WindowAt
  <2>3. Runs(p, b) BY <1>1, <2>2 DEF t
  <2> HIDE DEF b
  <2>4. Runs(p, Ok(b)) /\ Ok(b).res = "OK" BY <2>3, FailOk, RunsOn DEF Runs, Good
  <2>5. LoopOk(w) /\ "n" \in DOMAIN w /\ ~w.on /\ w.m = Ok(b)
    BY <2>1, <1>1 DEF LoopOk, Stop
  <2> HIDE DEF w
  <2> QED BY <1>1, <2>4, <2>5 DEF FillInv, w
<1>6. CASE x.n # 0
  <2> DEFINE u == [m EXCEPT !.wflag = TRUE]
             v == MoveWindow(u, 0)
             z == WindowAt(v, v.winsect + 1)
  <2>1. x.n \in 1..CSize /\ k \in 0..CSize - 1 BY <1>1, <1>6, Geometry
  <2>2. m.winsect \in Tables /\ m.winsect \in Nat BY <1>1, <2>1, Layout
  <2>3. /\ Machine(u) /\ u.disk = m.disk /\ SameInfo(m, u) /\ SameObjects(m, u)
        /\ u.winsect = m.winsect /\ u.wflag = TRUE /\ u.win = m.win
    BY <1>1 DEF Machine, Fields, SameInfo, SameObjects
  <2> HIDE DEF u
  <2>4. Good(u)
    <3>1. u.disk = t.disk /\ SameInfo(t, u) BY <1>3, <2>3 DEF SameInfo
    <3> QED BY <1>2, <1>3, <1>4, <2>2, <2>3, <3>1, TableWindow
  <2>5. Moved(u, 0, v) /\ Runs(u, v) BY <2>4, MoveRuns DEF Places
  <2>6. v.res = "OK" /\ v.winsect = m.winsect /\ v.wflag = FALSE /\ v.win = m.win
        /\ Good(v) /\ Machine(v)
    BY <2>3, <2>5 DEF Moved, Runs, Good
  <2>7. w = [x EXCEPT !.m = z, !.n = @ - 1]
    BY <1>6, <2>6 DEF FillOne, After, WindowAt, u
  <2> HIDE DEF v
  <2>8. /\ Machine(z) /\ z.disk = v.disk /\ SameInfo(v, z) /\ SameObjects(v, z)
        /\ z.winsect = m.winsect + 1 /\ z.wflag = FALSE /\ z.win = m.win
    BY <2>6, WindowAtOk
  <2> HIDE DEF z
  <2>9. Runs(p, WindowAt(z, p.winsect))
    <3> DEFINE e == WindowAt(z, p.winsect)
    <3>1. /\ Machine(e) /\ e.disk = z.disk /\ SameInfo(z, e) /\ SameObjects(z, e)
          /\ e.winsect = p.winsect /\ e.wflag = FALSE /\ e.win = m.win
      BY <2>8, WindowAtOk
    <3> HIDE DEF e
    <3>2. e.disk = v.disk /\ SameInfo(v, e) BY <2>8, <3>1 DEF SameInfo
    <3>3. Good(e) BY <1>2, <1>4, <2>6, <3>1, <3>2, TableWindow
    <3>4. SameObjects(p, e)
      BY <1>1, <1>3, <2>3, <2>5, <2>8, <3>1 DEF Runs, SameObjects
    <3> QED BY <3>3, <3>4 DEF Runs, e
  <2>10. LoopOk(w) /\ "n" \in DOMAIN w /\ w.on /\ w.m = z /\ w.n = x.n - 1
    BY <2>7, <1>1 DEF LoopOk
  <2> HIDE DEF w
  <2>11. w.n \in 0..CSize /\ k + 1 = CSize - w.n /\ w.m.winsect = p.winsect + (k + 1)
    BY <1>1, <1>2, <2>1, <2>8, <2>10, Geometry
  <2>12. Runs(p, [w.m EXCEPT !.winsect = p.winsect]) BY <2>9, <2>10 DEF WindowAt
  <2> QED BY <1>1, <2>8, <2>10, <2>11, <2>12 DEF FillInv, w
<1> QED BY <1>5, <1>6

LEMMA FillOk ==
  ASSUME NEW m, Good(m), m.wflag = FALSE, \A j \in 0..CSize - 1 : m.winsect + j \in Tables
  PROVE Runs(m, Fill(m)) /\ Fill(m).res = "OK"
<1> DEFINE x == [on |-> TRUE, m |-> m, n |-> CSize]
           n == CSize + 1
           y == While(FillOne, x, n)
<1>1. n \in Nat /\ CSize \in 0..CSize /\ 0 = CSize - CSize BY Geometry
<1>2. FillInv(m, 0, x)
  <2> DEFINE z == WindowAt(m, m.winsect)
  <2>1. m.winsect \in Nat BY WindowPlace
  <2>2. Machine(m) BY DEF Good
  <2>4. Machine(z) /\ SameVol(m, z) /\ SameObjects(m, z)
    BY <2>2, WindowAtOk DEF SameVol
  <2>5. Runs(m, z) BY <2>4, SameVolGood DEF Runs
  <2>3. Runs(m, [x.m EXCEPT !.winsect = m.winsect]) BY <2>5 DEF WindowAt
  <2> QED BY <1>1, <2>1, <2>2, <2>3 DEF FillInv, LoopOk
<1>3. ASSUME NEW k \in Nat, NEW u, FillInv(m, k, u) PROVE FillInv(m, k + 1, Round(FillOne, u))
  <2>1. CASE u.on BY <1>3, <2>1, FillStep DEF Round
  <2>2. CASE ~u.on BY <1>3, <2>2 DEF Round, FillInv
  <2> QED BY <2>1, <2>2
<1>4. Fill(m) = Result(y) BY DEF Fill
<1> HIDE DEF x
<1>5. FillInv(m, n, FillLoop!While(FillOne, x, n))
  BY <1>1, <1>2, <1>3, SetInduction, FillLoop!WhileKeeps DEF Round, FillLoop!Round
<1>6. FillInv(m, n, y) BY <1>5 DEF While, FillLoop!While, Round, FillLoop!Round
<1> HIDE DEF y
<1>7. ~y.on BY <1>6, Geometry DEF FillInv
<1> QED BY <1>4, <1>6, <1>7 DEF FillInv, Result

LEMMA CleanedOk ==
  ASSUME NEW m, NEW c \in Cluster, Good(m)
  PROVE Runs(m, Cleaned(m, c)) /\ Cleaned(m, c).res = "OK"
<1> DEFINE v == MoveWindow(m, 0)
           u == [v EXCEPT !.win = Cleared, !.winsect = Clust2Sect(c)]
<1>1. Moved(m, 0, v) /\ Runs(m, v) BY MoveRuns DEF Places
<1>2. Cleaned(m, c) = Fill(u) BY <1>1 DEF Cleaned, Then, Moved
<1>3. Good(v) /\ v.wflag = FALSE BY <1>1 DEF Moved, Runs
<1> HIDE DEF v
<1>4. /\ Machine(u) /\ u.disk = v.disk /\ SameInfo(v, u) /\ SameObjects(v, u)
      /\ u.winsect = Clust2Sect(c) /\ u.wflag = FALSE /\ u.win = Cleared
  BY <1>3 DEF Good, Machine, Fields, SameInfo, SameObjects
<1> HIDE DEF u
<1>5. \A j \in 0..CSize - 1 : u.winsect + j \in Tables BY <1>4, ClusterPlace
<1>6. u.winsect \in Tables
  <2>1. u.winsect + 0 \in Tables BY <1>5, Geometry
  <2>2. Clust2Sect(c) \in Nat
    <3>1. 0 \in 0..CSize - 1 BY Geometry
    <3> QED BY <3>1, ClusterPlace
  <2> QED BY <2>1, <2>2, <1>4
<1>7. Good(u) BY <1>3, <1>4, <1>6, ClearedOk, TableWindow
<1>8. Runs(v, u) BY <1>4, <1>7 DEF Runs
<1>9. Runs(u, Fill(u)) /\ Fill(u).res = "OK" BY <1>4, <1>5, <1>7, FillOk
<1> QED BY <1>1, <1>2, <1>8, <1>9, RunsOn

(* The next cluster of a table's chain, or a new one.                      *)
LEMMA StretchedOk ==
  ASSUME NEW m, Good(m)
  PROVE Runs(m, Stretched(m)) /\ (Stretched(m).res = "OK" => Stretched(m).val \in Cluster)
<1> DEFINE n == CreateChain(m, m.dj.clust)
           a == Cleaned(n, n.val)
           b == [a EXCEPT !.val = n.val]
           w == Stretched(m)
<1>1. Chained(m, m.dj.clust, n) BY CreateOk
<1>2. w = IF n.val = 0 THEN Fail(n, "DENIED")
          ELSE IF Trouble(n.val) # "OK" THEN Fail(n, Trouble(n.val)) ELSE b
  BY DEF Stretched, After
<1> HIDE DEF n, w
<1>3. Runs(m, n) /\ Machine(n) /\ Good(n) /\ n.val \in {0, 1} \union Cluster
  BY <1>1 DEF Chained, Runs, Good
<1>4. CASE n.val = 0
  BY <1>2, <1>3, <1>4, FailOk, RunsOn DEF w
<1>5. CASE n.val = 1
  <2>1. w = Fail(n, "INT_ERR") BY <1>2, <1>5, TroubleOf
  <2> QED BY <2>1, <1>3, FailOk, RunsOn DEF w
<1>6. CASE n.val \in Cluster
  <2>1. Trouble(n.val) = "OK" /\ n.val # 0 BY <1>6, Links, TroubleOf
  <2>2. w = b BY <1>2, <2>1
  <2>3. Runs(n, a) BY <1>3, <1>6, CleanedOk
  <2> HIDE DEF a
  <2>4. Labelled(a, b) /\ b.val = n.val BY <2>3, ValOk DEF Runs, Good
  <2> QED BY <1>3, <1>6, <2>2, <2>3, <2>4, RunsOn DEF w
<1> QED BY <1>3, <1>4, <1>5, <1>6

LEMMA NextClusterOk ==
  ASSUME NEW m, NEW s \in BOOLEAN, Good(m)
  PROVE LET w == NextCluster(m, s) IN Runs(m, w) /\ (w.res = "OK" => w.val \in Cluster)
<1> DEFINE g == GetFat(m, m.dj.clust)
           w == NextCluster(m, s)
<1>1. Runs(m, g) BY GetRuns
<1>2. w = IF g.val \in {0, 1} THEN Fail(g, "INT_ERR")
          ELSE IF g.val = DiskErr THEN Fail(g, "DISK_ERR")
          ELSE IF g.val \in Cluster THEN Ok(g)
          ELSE IF s THEN Stretched(g)
          ELSE Fail(g, "NO_FILE")
  BY DEF NextCluster, After
<1> HIDE DEF g, w
<1>3. Machine(g) /\ Good(g) BY <1>1 DEF Runs, Good
<1>4. ASSUME NEW r \in {"INT_ERR", "DISK_ERR", "NO_FILE"}, w = Fail(g, r)
      PROVE Runs(m, w) /\ w.res # "OK"
  BY <1>1, <1>3, <1>4, FailOk, RunsOn
<1>5. CASE g.val \in {0, 1} \/ g.val = DiskErr \/ (g.val \notin Cluster /\ ~s)
  BY <1>2, <1>4, <1>5, Links DEF w
<1>6. CASE g.val \in Cluster
  <2>1. w = Ok(g) BY <1>2, <1>6, Links
  <2> QED BY <2>1, <1>1, <1>3, <1>6, FailOk, RunsOn DEF w
<1>7. CASE ~(g.val \in {0, 1} \/ g.val = DiskErr) /\ g.val \notin Cluster /\ s
  <2>1. w = Stretched(g) BY <1>2, <1>7
  <2> QED BY <2>1, <1>1, <1>3, StretchedOk, RunsOn DEF w
<1> QED BY <1>5, <1>6, <1>7

(* dir_next: the next index, and the sector it is in.                      *)
NextOk(m, w) ==
  DirRuns(m, w) /\ (w.res = "OK" => Points(w.dj) /\ w.dj.index = m.dj.index + 1)

DjPut(m, d) == [m EXCEPT !.dj = d]
LEMMA DjPutOk ==
  ASSUME NEW m, NEW d, Good(m), DjOk(d)
  PROVE LET w == DjPut(m, d)
        IN DirRuns(m, w) /\ w.dj = d /\ w.res = m.res /\ w.val = m.val /\ SameVol(m, w)
           /\ SameFat(m, w)
<1> DEFINE w == DjPut(m, d)
<1>1. Machine(w) /\ SameVol(m, w) /\ w.fp = m.fp /\ w.dj = d /\ w.res = m.res /\ w.val = m.val
  BY DEF DjPut, Good, Machine, Fields, SameVol, SameInfo
<1> HIDE DEF w
<1>2. Good(w) /\ SameFat(m, w) BY <1>1, SameVolGood
<1> QED BY <1>1, <1>2 DEF DirRuns, w

DjTo(d, c, s, i) == [d EXCEPT !.clust = c, !.sect = s, !.index = i]
LEMMA DjFields ==
  ASSUME NEW d, DjOk(d), NEW i \in Nat, NEW c \in MayBeNone, NEW s \in Nat
  PROVE LET e == DjTo(d, c, s, i)
        IN DjOk(e) /\ e.clust = c /\ e.sect = s /\ e.index = i
BY DEF DjOk, DjTo

LEMMA NextEntry ==
  ASSUME NEW m, NEW s \in BOOLEAN, Good(m), DjOk(m.dj), Points(m.dj)
  PROVE NextOk(m, DirNext(m, s))
<1> DEFINE dj == m.dj
           i == dj.index + 1
           d == [m EXCEPT !.dj.sect = @ + 1]
           x == NextCluster(d, s)
           w == DirNext(m, s)
<1>1. /\ dj.index \in Nat /\ i \in Nat /\ dj.clust \in MayBeNone /\ dj.sect \in Nat
      /\ dj.sect # 0 /\ dj.sect \in Tables
  BY PointsTo DEF DjOk
<1>10. CASE dj.index = MaxIndex
  <2>1. w = Fail(m, "NO_FILE") BY <1>10 DEF DirNext
  <2>2. DirRuns(m, m) BY DirRunsOn
  <2> HIDE DEF w
  <2> QED BY <2>1, <2>2, DirFails DEF NextOk, w
<1>2. IF i % SS # 0 THEN i % SS = (dj.index % SS) + 1 /\ i \div SS = dj.index \div SS
                    ELSE i \div SS = (dj.index \div SS) + 1
  BY <1>1, OneMore, Geometry
<1>3. /\ dj.index \div SS \in Nat
      /\ IF ((dj.index \div SS) + 1) % CSize # 0
         THEN ((dj.index \div SS) + 1) % CSize = ((dj.index \div SS) % CSize) + 1
         ELSE TRUE
      /\ (dj.index \div SS) % CSize \in Nat
  <2> DEFINE q == dj.index \div SS
  <2>1. q \in Nat BY <1>1, DivMod, Geometry
  <2> HIDE DEF q
  <2>2. CSize \in Nat \ {0} BY Geometry
  <2>3. q % CSize \in 0..CSize - 1 BY <2>1, <2>2, DivMod
  <2>4. q % CSize \in Nat BY <2>2, <2>3
  <2>5. IF (q + 1) % CSize # 0 THEN (q + 1) % CSize = (q % CSize) + 1 ELSE TRUE
    BY <2>1, <2>2, OneMore
  <2> QED BY <2>1, <2>4, <2>5 DEF q
<1>4. /\ Machine(d) /\ SameVol(m, d) /\ d.fp = m.fp /\ d.dj = [dj EXCEPT !.sect = dj.sect + 1]
      /\ d.res = m.res
  BY DEF Good, Machine, Fields, SameVol, SameInfo
<1>5. Good(d) /\ DjOk(d.dj) /\ DirRuns(m, d)
  <2>1. DjOk(d.dj) BY <1>1, <1>4 DEF DjOk
  <2>2. Good(d) BY <1>4, SameVolGood
  <2> QED BY <2>1, <2>2, <1>4 DEF DirRuns
<1>6. ASSUME NEW a, NEW c \in MayBeNone, NEW t \in Nat, DirRuns(m, a),
             w = Ok(DjPut(a, DjTo(a.dj, c, t, i))),
             \/ c \in Cluster /\ t = Clust2Sect(c) + ((i \div SS) % CSize)
             \/ c = 0 /\ ~Fat32 /\ i < NRoot /\ t = DirBase + i \div SS
      PROVE NextOk(m, w)
  <2> DEFINE e == DjTo(a.dj, c, t, i)
             b == DjPut(a, e)
  <2>1. Good(a) /\ DjOk(a.dj) BY <1>6, DirRunsOn
  <2>8. i \in Nat BY <1>1
  <2> HIDE DEF i
  <2>2. DjOk(e) /\ e.clust = c /\ e.sect = t /\ e.index = i BY <2>8, <2>1, DjFields
  <2>3. w = Ok(b) BY <1>6
  <2> HIDE DEF e
  <2>4. DirRuns(a, b) /\ b.dj = e BY <2>1, <2>2, DjPutOk
  <2> HIDE DEF b, w
  <2>5. DirRuns(m, b) BY <1>6, <2>4, DirRunsOn
  <2>6. DirRuns(m, w) /\ w.dj = e BY <2>3, <2>4, <2>5, DirFails
  <2>7. Points(e) BY <1>6, <2>2 DEF Points
  <2> QED BY <2>2, <2>6, <2>7 DEF NextOk, w, i
<1>7. dj.index # MaxIndex =>
      w = IF i % SS # 0 THEN Ok([m EXCEPT !.dj.index = i])
          ELSE IF dj.clust = 0
          THEN IF i >= NRoot THEN Fail(d, "NO_FILE") ELSE Ok([d EXCEPT !.dj.index = i])
          ELSE IF (i \div SS) % CSize # 0 THEN Ok([d EXCEPT !.dj.index = i])
          ELSE Then(x, LAMBDA z :
                 [[z EXCEPT !.dj.clust = z.val, !.dj.sect = Clust2Sect(z.val)] EXCEPT !.dj.index = i])
  BY <1>1 DEF DirNext
<1>8. CASE dj.index # MaxIndex /\ i % SS # 0
  <2>1. w = Ok([m EXCEPT !.dj.index = i]) BY <1>7, <1>8
  <2>2. [dj EXCEPT !.index = i] = DjTo(dj, dj.clust, dj.sect, i) BY DEF DjOk, DjTo
  <2>3. [m EXCEPT !.dj.index = i] = DjPut(m, [dj EXCEPT !.index = i]) BY DEF DjPut
  <2>4. w = Ok(DjPut(m, DjTo(m.dj, dj.clust, dj.sect, i)))
    BY <2>1, <2>2, <2>3
  <2>5. \/ dj.clust \in Cluster /\ dj.sect = Clust2Sect(dj.clust) + ((i \div SS) % CSize)
        \/ dj.clust = 0 /\ ~Fat32 /\ i < NRoot /\ dj.sect = DirBase + i \div SS
    <3>1. i \div SS = dj.index \div SS BY <1>2, <1>8
    <3>2. CASE dj.clust \in Cluster /\ dj.sect = Clust2Sect(dj.clust) + ((dj.index \div SS) % CSize)
      BY <3>1, <3>2
    <3>3. CASE dj.clust = 0 /\ ~Fat32 /\ dj.index < NRoot /\ dj.sect = DirBase + dj.index \div SS
      <4>1. NRoot % SS = 0 BY VolumeAssumption DEF VolumeAssumption
      <4>2. i # NRoot BY <4>1, <1>8
      <4>3. i < NRoot BY <4>2, <3>3, <1>1, Geometry
      <4> QED BY <3>1, <3>3, <4>3
    <3> QED BY <3>2, <3>3 DEF Points
  <2>6. DirRuns(m, m) BY DirRunsOn
  <2> HIDE DEF i, w
  <2> QED BY <1>1, <1>6, <2>4, <2>5, <2>6 DEF w
<1>9. CASE dj.index # MaxIndex /\ i % SS = 0
  <2>1. i \div SS = (dj.index \div SS) + 1 BY <1>2, <1>9
  <2>2. ASSUME w = Ok([d EXCEPT !.dj.index = i]),
               \/ dj.clust \in Cluster /\ dj.sect + 1 = Clust2Sect(dj.clust) + ((i \div SS) % CSize)
               \/ dj.clust = 0 /\ ~Fat32 /\ i < NRoot /\ dj.sect + 1 = DirBase + i \div SS
        PROVE NextOk(m, w)
    <3>1. [d EXCEPT !.dj.index = i] = DjPut(d, [d.dj EXCEPT !.index = i]) BY DEF DjPut
    <3>2. [d.dj EXCEPT !.index = i] = DjTo(d.dj, dj.clust, dj.sect + 1, i)
      BY <1>4, <1>5 DEF DjOk, DjTo
    <3>3. w = Ok(DjPut(d, DjTo(d.dj, dj.clust, dj.sect + 1, i)))
      BY <2>2, <3>1, <3>2
    <3>4. dj.sect + 1 \in Nat BY <1>1
    <3> HIDE DEF d, i, w
    <3> QED BY <1>1, <1>5, <1>6, <2>2, <3>3, <3>4 DEF w
  <2>3. CASE dj.clust = 0
    <3>1. ~Fat32 /\ dj.sect = DirBase + dj.index \div SS BY <2>3, Links DEF Points
    <3>2. CASE i >= NRoot
      <4>1. w = Fail(d, "NO_FILE") BY <1>7, <1>9, <2>3, <3>2
      <4> HIDE DEF d, w
      <4> QED BY <4>1, <1>5, DirFails DEF NextOk, w
    <3>3. CASE ~(i >= NRoot)
      <4>1. w = Ok([d EXCEPT !.dj.index = i]) BY <1>7, <1>9, <2>3, <3>3
      <4>2. i < NRoot BY <3>3, <1>1, Geometry
      <4>3. dj.sect + 1 = DirBase + i \div SS BY <3>1, <2>1, <1>3, Layout
      <4> QED BY <2>2, <2>3, <3>1, <4>1, <4>2, <4>3
    <3> QED BY <3>2, <3>3
  <2>4. CASE dj.clust # 0 /\ (i \div SS) % CSize # 0
    <3>1. w = Ok([d EXCEPT !.dj.index = i]) BY <1>7, <1>9, <2>4
    <3>2. dj.clust \in Cluster /\ dj.sect = Clust2Sect(dj.clust) + ((dj.index \div SS) % CSize)
      BY <2>4 DEF Points
    <3>3. Clust2Sect(dj.clust) \in Nat
      <4>1. 0 \in 0..CSize - 1 BY Geometry
      <4> QED BY <3>2, <4>1, ClusterPlace
    <3>4. dj.sect + 1 = Clust2Sect(dj.clust) + ((i \div SS) % CSize)
      BY <1>3, <2>1, <2>4, <3>2, <3>3
    <3> QED BY <2>2, <3>1, <3>2, <3>4
  <2>5. CASE dj.clust # 0 /\ (i \div SS) % CSize = 0
    <3>1. w = Then(x, LAMBDA z :
                 [[z EXCEPT !.dj.clust = z.val, !.dj.sect = Clust2Sect(z.val)] EXCEPT !.dj.index = i])
      BY <1>7, <1>9, <2>5
    <3>2. Runs(d, x) /\ (x.res = "OK" => x.val \in Cluster) BY <1>5, NextClusterOk
    <3> HIDE DEF x, d
    <3>3. DirRuns(m, x) /\ x.dj = d.dj
      BY <1>5, <3>2, DirRunsOn DEF Runs, SameObjects
    <3>4. CASE x.res # "OK"
      <4>1. w = x BY <3>1, <3>4 DEF Then
      <4> HIDE DEF w
      <4> QED BY <3>3, <3>4, <4>1 DEF NextOk, w
    <3>5. CASE x.res = "OK"
      <4> DEFINE c == x.val
                 t == Clust2Sect(c)
                 e == DjTo(x.dj, c, t, i)
                 b == DjPut(x, e)
      <4>1. w = [[x EXCEPT !.dj.clust = x.val, !.dj.sect = Clust2Sect(x.val)] EXCEPT !.dj.index = i]
        BY <3>1, <3>5 DEF Then
      <4>2. w = b BY <4>1, <3>3 DEF DjPut, DjTo, DirRuns, Good, Machine, Fields
      <4>3. c \in Cluster /\ c \in MayBeNone BY <3>2, <3>5 DEF MayBeNone
      <4>4. t \in Nat
        <5>1. 0 \in 0..CSize - 1 BY Geometry
        <5> QED BY <4>3, <5>1, ClusterPlace
      <4>5. Good(x) /\ DjOk(x.dj) BY <3>3, DirRunsOn
      <4>10. i \in Nat BY <1>1
      <4> HIDE DEF i, c, t
      <4>6. DjOk(e) /\ e.clust = c /\ e.sect = t /\ e.index = i
        BY <4>3, <4>4, <4>5, <4>10, DjFields
      <4>7. Points(e) BY <4>3, <4>4, <4>6, <2>5 DEF Points, t
      <4>8. w = DjPut(x, e) BY <4>2
      <4> HIDE DEF e, w
      <4>9. DirRuns(x, w) /\ w.dj = e BY <4>5, <4>6, <4>8, DjPutOk
      <4> QED BY <3>3, <4>6, <4>7, <4>9, DirRunsOn DEF NextOk, w, i
    <3> QED BY <3>4, <3>5
  <2> QED BY <2>3, <2>4, <2>5
<1> QED BY <1>8, <1>9, <1>10

(* The loops over a table: as long as they go on, the directory object     *)
(* points to an entry, and one that ends well has the window on it.        *)
OnFile(m) == OnEntry(m) /\ Here(m).kind = "entry"
Looking(p, k, y) ==
  /\ LoopOk(y) /\ DirRuns(p, y.m)
  /\ y.on => Points(y.m.dj)
  /\ ~y.on /\ y.m.res = "OK" => OnFile(y.m)

LEMMA OnEntryIs == ASSUME NEW m, OnEntry(m) PROVE Good(m) /\ DjOk(m.dj) /\ Points(m.dj) /\ Machine(m)
BY DEF OnEntry, Good

LEMMA LfnSet ==
  ASSUME NEW m, NEW i \in Nat, OnEntry(m)
  PROVE LET w == [m EXCEPT !.dj.lfn_idx = i]
        IN DirRuns(m, w) /\ OnEntry(w) /\ Here(w) = Here(m) /\ w.res = m.res
<1> DEFINE w == [m EXCEPT !.dj.lfn_idx = i]
           e == [m.dj EXCEPT !.lfn_idx = i]
<1>1. w = DjPut(m, e) BY DEF DjPut
<1>2. Good(m) /\ DjOk(m.dj) /\ Points(m.dj) /\ m.winsect = m.dj.sect BY DEF OnEntry
<1>3. DjOk(e) /\ e.sect = m.dj.sect /\ e.clust = m.dj.clust /\ e.index = m.dj.index
  BY <1>2 DEF DjOk
<1>4. Points(e) BY <1>2, <1>3 DEF Points
<1> HIDE DEF e, w
<1>5. DirRuns(m, w) /\ w.dj = e /\ w.res = m.res /\ SameVol(m, w) BY <1>1, <1>2, <1>3, DjPutOk
<1>6. OnEntry(w) /\ Here(w) = Here(m)
  BY <1>2, <1>3, <1>4, <1>5 DEF OnEntry, SameVol, DirRuns, Here
<1> QED BY <1>5, <1>6 DEF w

LEMMA Onwards ==
  ASSUME NEW x, NEW s \in BOOLEAN, LoopOk(x), Good(x.m), DjOk(x.m.dj), Points(x.m.dj)
  PROVE LET y == Onward(x, DirNext(x.m, s))
        IN LoopOk(y) /\ DirRuns(x.m, y.m) /\ (y.on => Points(y.m.dj)) /\ (~y.on => y.m.res # "OK")
           /\ y = [x EXCEPT !.m = y.m, !.on = y.on]
<1> DEFINE d == DirNext(x.m, s)
<1>1. NextOk(x.m, d) BY NextEntry
<1> HIDE DEF d
<1> DEFINE y == Onward(x, d)
<1>2. LoopOk(y) /\ y.m = d /\ y.on = (d.res = "OK") /\ y = [x EXCEPT !.m = y.m, !.on = y.on]
  BY DEF Onward, LoopOk
<1> QED BY <1>1, <1>2 DEF NextOk, d

LEMMA SeenLong ==
  ASSUME NEW x, NEW e, NEW fits, LoopOk(x), OnEntry(x.m)
  PROVE LET y == LongSeen(x, e, fits)
        IN LoopOk(y) /\ y.on = x.on /\ DirRuns(x.m, y.m) /\ OnEntry(y.m) /\ y.m.res = x.m.res
<1> DEFINE y == LongSeen(x, e, fits)
           a == [x.m EXCEPT !.dj.lfn_idx = x.m.dj.index]
<1>1. x.m.dj.index \in Nat BY OnEntryIs DEF DjOk
<1>2. DirRuns(x.m, a) /\ OnEntry(a) /\ a.res = x.m.res BY <1>1, LfnSet
<1>3. DirRuns(x.m, x.m) BY OnEntryIs, DirRunsOn
<1>4. LoopOk(y) /\ y.on = x.on /\ y.m = IF e.top THEN a ELSE x.m
  BY DEF LongSeen, LoopOk
<1> HIDE DEF a, y
<1> QED BY <1>2, <1>3, <1>4 DEF y

(* An entry is compared with the name asked for, or told.                  *)
Examined(x, y) ==
  /\ LoopOk(y) /\ DirRuns(x.m, y.m)
  /\ y.on => Points(y.m.dj)
  /\ ~y.on /\ y.m.res = "OK" => OnFile(y.m)

LEMMA ExaminedIs ==
  ASSUME NEW x, LoopOk(x), x.on, OnEntry(x.m), x.m.res = "OK", NEW o
  PROVE /\ Examined(x, x) /\ Examined(x, Passed(x, o))
        /\ Examined(x, [Passed(x, o) EXCEPT !.m = NoLongForm(@)])
        /\ Examined(x, Stop(x, Fail(x.m, "NO_FILE")))
        /\ \A e, f : Examined(x, LongSeen(x, e, f))
        /\ Here(x.m).kind = "entry" => /\ Examined(x, Stop(x, x.m))
                                       /\ Examined(x, Stop(x, NoLongForm(x.m)))
<1> DEFINE m == x.m
           l == NoLongForm(m)
<1>1. Good(m) /\ DjOk(m.dj) /\ Points(m.dj) /\ DirRuns(m, m) BY OnEntryIs, DirRunsOn
<1>2. DirRuns(m, l) /\ OnEntry(l) /\ Here(l) = Here(m) /\ l.res = "OK" /\ Points(l.dj)
  <2>1. NoLong \in Nat BY DEF NoLong
  <2>2. l = [m EXCEPT !.dj.lfn_idx = NoLong] BY DEF NoLongForm
  <2> HIDE DEF l, m
  <2>3. OnEntry(m) /\ m.res = "OK" BY DEF m
  <2> DEFINE w == [m EXCEPT !.dj.lfn_idx = NoLong]
  <2>4. DirRuns(m, w) /\ OnEntry(w) /\ Here(w) = Here(m) /\ w.res = m.res BY <2>1, <2>3, LfnSet
  <2> HIDE DEF w
  <2>5. l = w BY <2>2 DEF w
  <2>6. Points(l.dj) BY <2>4, <2>5, OnEntryIs
  <2> QED BY <2>3, <2>4, <2>5, <2>6
<1>3. DirRuns(m, Fail(m, "NO_FILE")) /\ Fail(m, "NO_FILE").res = "NO_FILE" BY <1>1, DirFails
<1>4. Examined(x, x) BY <1>1 DEF Examined
<1> HIDE DEF l
<1>5. Examined(x, Passed(x, o)) BY <1>1 DEF Examined, Passed, LoopOk
<1>6. Examined(x, [Passed(x, o) EXCEPT !.m = NoLongForm(@)])
  <2> DEFINE y == [Passed(x, o) EXCEPT !.m = NoLongForm(@)]
  <2>1. LoopOk(y) /\ y.on /\ y.m = l BY DEF Passed, LoopOk, l
  <2> HIDE DEF y
  <2>2. Examined(x, y) BY <1>2, <2>1 DEF Examined
  <2> QED BY <2>2 DEF y
<1>7. Examined(x, Stop(x, Fail(m, "NO_FILE")))
  <2> DEFINE y == Stop(x, Fail(m, "NO_FILE"))
  <2>1. LoopOk(y) /\ ~y.on /\ y.m = Fail(m, "NO_FILE") BY Stopped
  <2> HIDE DEF y
  <2>2. Examined(x, y) BY <1>3, <2>1 DEF Examined
  <2> QED BY <2>2 DEF y
<1>8. ASSUME NEW e, NEW f PROVE Examined(x, LongSeen(x, e, f))
  <2> DEFINE y == LongSeen(x, e, f)
  <2>1. LoopOk(y) /\ y.on = x.on /\ DirRuns(x.m, y.m) /\ OnEntry(y.m) BY SeenLong
  <2> HIDE DEF y
  <2>2. Examined(x, y) BY <2>1, OnEntryIs DEF Examined
  <2> QED BY <2>2 DEF y
<1>9. ASSUME Here(m).kind = "entry", NEW a \in {m, l} PROVE Examined(x, Stop(x, a))
  <2>1. LoopOk(Stop(x, a)) /\ ~Stop(x, a).on /\ Stop(x, a).m = a BY Stopped
  <2>2. DirRuns(m, a) /\ OnFile(a) BY <1>1, <1>2, <1>9 DEF OnFile
  <2> QED BY <2>1, <2>2 DEF Examined
<1> QED BY <1>4, <1>5, <1>6, <1>7, <1>8, <1>9 DEF l

LEMMA ComparedOk ==
  ASSUME NEW x, LoopOk(x), x.on, OnEntry(x.m), x.m.res = "OK"
  PROVE Examined(x, Compared(x, Here(x.m)))
<1> DEFINE e == Here(x.m)
           y == Compared(x, e)
<1>1. y = CASE e.kind = "blank" -> Stop(x, Fail(x.m, "NO_FILE"))
    [] e.kind = "deleted" -> Passed(x, OutOfStep)
    [] e.kind = "long" -> IF x.lfn = "" THEN x ELSE LongSeen(x, e, e.name = x.lfn)
    [] e.kind = "entry" /\ x.ord = 0 /\ x.sum = e.sfn -> Stop(x, x.m)
    [] OTHER ->
         IF e.kind = "entry" /\ e.sfn = x.sfn THEN Stop(x, NoLongForm(x.m))
         ELSE [Passed(x, OutOfStep) EXCEPT !.m = NoLongForm(@)]
  BY DEF Compared
<1> HIDE DEF y, e
<1>2. CASE e.kind = "blank" BY <1>1, <1>2, ExaminedIs DEF y, e
<1>3. CASE e.kind = "deleted" BY <1>1, <1>3, ExaminedIs DEF y, e
<1>4. CASE e.kind = "long"
  <2>1. y = IF x.lfn = "" THEN x ELSE LongSeen(x, e, e.name = x.lfn) BY <1>1, <1>4
  <2>2. Examined(x, x) /\ \A a, f : Examined(x, LongSeen(x, a, f)) BY ExaminedIs
  <2> DEFINE f == e.name = x.lfn
  <2>3. Examined(x, LongSeen(x, e, f)) BY <2>2
  <2>4. Examined(x, y) BY <2>1, <2>2, <2>3
  <2> QED BY <2>4 DEF y, e
<1>5. CASE e.kind = "entry" /\ x.ord = 0 /\ x.sum = e.sfn
  <2>1. y = Stop(x, x.m) BY <1>1, <1>5
  <2>2. Examined(x, Stop(x, x.m)) BY <1>5, ExaminedIs DEF e
  <2> QED BY <2>1, <2>2 DEF y, e
<1>6. CASE e.kind \notin {"blank", "deleted", "long"} /\ ~(e.kind = "entry" /\ x.ord = 0 /\ x.sum = e.sfn)
  <2>1. y = IF e.kind = "entry" /\ e.sfn = x.sfn THEN Stop(x, NoLongForm(x.m))
            ELSE [Passed(x, OutOfStep) EXCEPT !.m = NoLongForm(@)]
    BY <1>1, <1>6
  <2>2. Examined(x, [Passed(x, OutOfStep) EXCEPT !.m = NoLongForm(@)]) BY ExaminedIs
  <2>3. e.kind = "entry" => Examined(x, Stop(x, NoLongForm(x.m))) BY ExaminedIs DEF e
  <2> QED BY <2>1, <2>2, <2>3 DEF y, e
<1> QED BY <1>2, <1>3, <1>4, <1>5, <1>6

LEMMA ToldOk ==
  ASSUME NEW x, LoopOk(x), x.on, OnEntry(x.m), x.m.res = "OK"
  PROVE Examined(x, Told(x, Here(x.m)))
<1> DEFINE e == Here(x.m)
           y == Told(x, e)
<1>1. y = CASE e.kind = "blank" -> Stop(x, Fail(x.m, "NO_FILE"))
    [] e.kind = "long" -> LongSeen(x, e, TRUE)
    [] e.kind = "entry" ->
         Stop(x, IF x.ord = 0 /\ x.sum = e.sfn THEN x.m ELSE NoLongForm(x.m))
    [] OTHER -> Passed(x, OutOfStep)
  BY DEF Told
<1> HIDE DEF y, e
<1>2. CASE e.kind = "blank" BY <1>1, <1>2, ExaminedIs DEF y, e
<1>3. CASE e.kind = "long"
  <2>1. y = LongSeen(x, e, TRUE) BY <1>1, <1>3
  <2>2. \A a, f : Examined(x, LongSeen(x, a, f)) BY ExaminedIs
  <2> QED BY <2>1, <2>2 DEF y, e
<1>4. CASE e.kind = "entry"
  <2>1. y = Stop(x, IF x.ord = 0 /\ x.sum = e.sfn THEN x.m ELSE NoLongForm(x.m)) BY <1>1, <1>4
  <2>2. Examined(x, Stop(x, x.m)) /\ Examined(x, Stop(x, NoLongForm(x.m)))
    BY <1>4, ExaminedIs DEF e
  <2> QED BY <2>1, <2>2 DEF y, e
<1>5. CASE e.kind \notin {"blank", "long", "entry"} BY <1>1, <1>5, ExaminedIs DEF y, e
<1> QED BY <1>2, <1>3, <1>4, <1>5

(* What a search ends with: no error only on an entry proper.              *)
Met(m, w) == DirRuns(m, w) /\ (w.res = "OK" => OnFile(w))

LEMMA LookedOn ==
  ASSUME NEW p, NEW k, NEW x, NEW c, DirRuns(p, x.m), Examined(x, c)
  PROVE Looking(p, k, IF c.on THEN Onward(c, DirNext(c.m, FALSE)) ELSE c)
<1> DEFINE w == Onward(c, DirNext(c.m, FALSE))
<1>1. LoopOk(c) /\ DirRuns(p, c.m) /\ (c.on => Points(c.m.dj))
      /\ (~c.on /\ c.m.res = "OK" => OnFile(c.m))
  BY DirRunsOn DEF Examined
<1>2. CASE ~c.on BY <1>1, <1>2 DEF Looking
<1>3. CASE c.on
  <2>1. Good(c.m) /\ DjOk(c.m.dj) /\ Points(c.m.dj) BY <1>1, <1>3, DirRunsOn
  <2>2. FALSE \in BOOLEAN OBVIOUS
  <2>3. LoopOk(w) /\ DirRuns(c.m, w.m) /\ (w.on => Points(w.m.dj)) /\ (~w.on => w.m.res # "OK")
    BY <1>1, <2>1, <2>2, Onwards
  <2> HIDE DEF w
  <2>4. Looking(p, k, w) BY <1>1, <2>3, DirRunsOn DEF Looking
  <2> QED BY <1>3, <2>4 DEF w
<1>4. c.on \in BOOLEAN BY <1>1 DEF LoopOk
<1> QED BY <1>2, <1>3, <1>4

LEMMA LookedAt ==
  ASSUME NEW p, NEW k, NEW x, Looking(p, k, x), x.on
  PROVE LET v == MoveWindow(x.m, x.m.dj.sect)
            z == [x EXCEPT !.m = v]
        IN /\ v.res = "OK" /\ LoopOk(z) /\ z.on /\ z.m = v /\ OnEntry(v) /\ DirRuns(p, v)
           /\ x.m.dj.sect # 0
<1> DEFINE v == MoveWindow(x.m, x.m.dj.sect)
           z == [x EXCEPT !.m = v]
<1>1. LoopOk(x) /\ Good(x.m) /\ DjOk(x.m.dj) /\ Points(x.m.dj) /\ DirRuns(p, x.m)
  BY DirRunsOn DEF Looking
<1>2. Runs(x.m, v) /\ OnEntry(v) /\ v.res = "OK" BY <1>1, ToEntry
<1> HIDE DEF v
<1>3. LoopOk(z) /\ z.on /\ z.m = v BY <1>1 DEF LoopOk
<1>4. DirRuns(p, v) BY <1>1, <1>2, DirRunsOn
<1>5. x.m.dj.sect # 0 BY <1>1, PointsTo
<1> QED BY <1>2, <1>3, <1>4, <1>5 DEF v

LEMMA MaxEntriesNat == MaxEntries \in Nat
BY Geometry, Times, EntriesOfCluster DEF MaxEntries

LEMMA LookedThrough ==
  ASSUME NEW m, NEW k, NEW y, Looking(m, k, y)
  PROVE Met(m, Result(y))
<1>1. DirRuns(m, Result(y)) /\ (y.on => Result(y).res = "INT_ERR")
      /\ (~y.on => Result(y) = y.m)
  BY DirResult DEF Looking
<1> QED BY <1>1 DEF Looking, Met

(* dir_find.                                                               *)
FindLoop == INSTANCE LoopProofs WITH Body <- FindOne, Inv <- Looking

LEMMA FindStep ==
  ASSUME NEW p, NEW k \in Nat, NEW x, Looking(p, k, x), x.on
  PROVE Looking(p, k + 1, FindOne(x))
<1> DEFINE v == MoveWindow(x.m, x.m.dj.sect)
           z == [x EXCEPT !.m = v]
           c == Compared(z, Here(v))
<1>1. v.res = "OK" /\ LoopOk(z) /\ z.on /\ z.m = v /\ OnEntry(v) /\ DirRuns(p, v)
  BY LookedAt
<1>2. FindOne(x) = IF c.on THEN Onward(c, DirNext(c.m, FALSE)) ELSE c
  BY <1>1 DEF FindOne, OnOk, After
<1> HIDE DEF v, z
<1>3. Examined(z, c) BY <1>1, ComparedOk
<1> HIDE DEF c
<1> QED BY <1>1, <1>2, <1>3, LookedOn

LEMMA FindFromOk ==
  ASSUME NEW m, NEW lfn, NEW sfn, Good(m), DjOk(m.dj), Points(m.dj)
  PROVE Met(m, FindFrom(m, lfn, sfn))
<1> DEFINE x == [on |-> TRUE, m |-> m, lfn |-> lfn, sfn |-> sfn,
                 ord |-> OutOfStep, sum |-> <<>>]
           n == MaxEntries
           y == While(FindOne, x, n)
<1>1. Looking(m, 0, x) BY DirRunsOn DEF Looking, LoopOk
<1>2. ASSUME NEW k \in Nat, NEW u, Looking(m, k, u) PROVE Looking(m, k + 1, Round(FindOne, u))
  <2>1. CASE u.on BY <1>2, <2>1, FindStep DEF Round
  <2>2. CASE ~u.on BY <1>2, <2>2 DEF Round, Looking
  <2> QED BY <2>1, <2>2
<1>3. n \in Nat BY MaxEntriesNat
<1>4. FindFrom(m, lfn, sfn) = Result(y) BY DEF FindFrom
<1> HIDE DEF x, n
<1>5. Looking(m, n, FindLoop!While(FindOne, x, n))
  BY <1>1, <1>2, <1>3, SetInduction, FindLoop!WhileKeeps DEF Round, FindLoop!Round
<1>6. Looking(m, n, y) BY <1>5 DEF While, FindLoop!While, Round, FindLoop!Round
<1> HIDE DEF y
<1> QED BY <1>4, <1>6, LookedThrough

LEMMA FindOk ==
  ASSUME NEW m, NEW lfn, NEW sfn, Good(m), DjOk(m.dj)
  PROVE Met(m, DirFind(m, lfn, sfn))
<1> DEFINE d == DirSdi(m, 0)
           w == FindFrom(d, lfn, sfn)
<1>1. Pointed(m, 0, d) BY SdiOk
<1>2. DirFind(m, lfn, sfn) = IF d.res = "OK" THEN w ELSE d BY DEF DirFind, Then
<1> HIDE DEF d
<1>3. DirRuns(m, d) /\ Good(d) /\ DjOk(d.dj) /\ (d.res = "OK" => Points(d.dj))
  BY <1>1, DirRunsOn DEF Pointed
<1>4. d.res = "OK" => Met(d, w) BY <1>3, FindFromOk
<1> HIDE DEF w
<1> QED BY <1>2, <1>3, <1>4, DirRunsOn DEF Met

(* dir_read.                                                               *)
ReadLoop == INSTANCE LoopProofs WITH Body <- ReadOne, Inv <- Looking

LEMMA ReadStep ==
  ASSUME NEW p, NEW k \in Nat, NEW x, Looking(p, k, x), x.on
  PROVE Looking(p, k + 1, ReadOne(x))
<1> DEFINE v == MoveWindow(x.m, x.m.dj.sect)
           z == [x EXCEPT !.m = v]
           c == Told(z, Here(v))
<1>1. v.res = "OK" /\ LoopOk(z) /\ z.on /\ z.m = v /\ OnEntry(v) /\ DirRuns(p, v)
      /\ x.m.dj.sect # 0
  BY LookedAt
<1>2. ReadOne(x) = IF c.on THEN Onward(c, DirNext(c.m, FALSE)) ELSE c
  BY <1>1 DEF ReadOne, OnOk, After
<1> HIDE DEF v, z
<1>3. Examined(z, c) BY <1>1, ToldOk
<1> HIDE DEF c
<1> QED BY <1>1, <1>2, <1>3, LookedOn

LEMMA ReadFromOk ==
  ASSUME NEW m, Looking(m, 0, [on |-> TRUE, m |-> m, ord |-> OutOfStep, sum |-> <<>>])
  PROVE Met(m, ReadFrom(m))
<1> DEFINE x == [on |-> TRUE, m |-> m, ord |-> OutOfStep, sum |-> <<>>]
           n == MaxEntries
           y == While(ReadOne, x, n)
<1>1. Looking(m, 0, x) OBVIOUS
<1>2. ASSUME NEW k \in Nat, NEW u, Looking(m, k, u) PROVE Looking(m, k + 1, Round(ReadOne, u))
  <2>1. CASE u.on BY <1>2, <2>1, ReadStep DEF Round
  <2>2. CASE ~u.on BY <1>2, <2>2 DEF Round, Looking
  <2> QED BY <2>1, <2>2
<1>3. n \in Nat BY MaxEntriesNat
<1>4. ReadFrom(m) = Result(y) BY DEF ReadFrom
<1> HIDE DEF x, n
<1>5. Looking(m, n, ReadLoop!While(ReadOne, x, n))
  BY <1>1, <1>2, <1>3, SetInduction, ReadLoop!WhileKeeps DEF Round, ReadLoop!Round
<1>6. Looking(m, n, y) BY <1>5 DEF While, ReadLoop!While, Round, ReadLoop!Round
<1> HIDE DEF y
<1> QED BY <1>4, <1>6, LookedThrough

LEMMA ReadOk ==
  ASSUME NEW m, Good(m), DjOk(m.dj), Points(m.dj)
  PROVE Met(m, DirRead(m))
<1> DEFINE r == ReadFrom(m)
           d == [r.dj EXCEPT !.sect = 0]
<1>1. Looking(m, 0, [on |-> TRUE, m |-> m, ord |-> OutOfStep, sum |-> <<>>])
  BY DirRunsOn DEF Looking, LoopOk
<1>2. Met(m, r) BY <1>1, ReadFromOk
<1>3. DirRead(m) = IF r.res = "OK" THEN r ELSE DjPut(r, d) BY DEF DirRead, After, DjPut
<1>4. DirRuns(m, r) /\ Good(r) /\ DjOk(r.dj) BY <1>2, DirRunsOn DEF Met
<1>5. DjOk(d) BY <1>4 DEF DjOk
<1> HIDE DEF r, d
<1>6. DirRuns(r, DjPut(r, d)) /\ DjPut(r, d).res = r.res BY <1>4, <1>5, DjPutOk
<1> QED BY <1>2, <1>3, <1>4, <1>6, DirRunsOn DEF Met

LEMMA Named == ASSUME NEW sfn PROVE EntryOk(Entry(sfn, "file", 0, 0))
BY DEF EntryOk, Entry, MayBeNone

LEMMA ValDir ==
  ASSUME NEW m, NEW a, NEW v, DirRuns(m, a)
  PROVE LET w == [a EXCEPT !.val = v]
        IN DirRuns(m, w) /\ w.res = a.res /\ w.val = v /\ w.dj = a.dj
<1> DEFINE w == [a EXCEPT !.val = v]
<1>1. Labelled(a, w) /\ w.res = a.res /\ w.val = v BY ValOk, DirRunsOn
<1> HIDE DEF w
<1>2. DirRuns(m, w) /\ w.dj = a.dj BY <1>1, DirRunsOn DEF Labelled, SameObjects
<1> QED BY <1>1, <1>2 DEF w

(* gen_numname and the search for a number that is free.                   *)
NumberInv(p, k, y) == LoopOk(y) /\ {"n", "k"} \subseteq DOMAIN y /\ DirRuns(p, y.m)
NumberLoop == INSTANCE LoopProofs WITH Body <- TryNumber, Inv <- NumberInv

LEMMA NumberStep ==
  ASSUME NEW p, NEW k \in Nat, NEW x, NumberInv(p, k, x), x.on
  PROVE NumberInv(p, k + 1, TryNumber(x))
<1> DEFINE f == DirFind(x.m, "", Short(x.n, x.k))
           v == [f EXCEPT !.val = x.k]
           a == Fail(x.m, "DENIED")
           b == IF f.res = "NO_FILE" THEN Ok(v) ELSE f
           w == TryNumber(x)
<1>1. LoopOk(x) /\ {"n", "k"} \subseteq DOMAIN x /\ DirRuns(p, x.m) /\ Good(x.m) /\ DjOk(x.m.dj)
  BY DirRunsOn DEF NumberInv
<1>2. w = IF x.k > MaxNumber THEN Stop(x, a)
          ELSE IF f.res = "OK" THEN [x EXCEPT !.m = f, !.k = @ + 1] ELSE Stop(x, b)
  BY DEF TryNumber, After
<1>3. DirRuns(p, a) BY <1>1, DirFails
<1>4. Met(x.m, f) BY <1>1, FindOk
<1> HIDE DEF f
<1>5. DirRuns(p, f) BY <1>1, <1>4, DirRunsOn DEF Met
<1>6. DirRuns(p, b)
  <2>1. DirRuns(p, v) BY <1>5, ValDir
  <2> HIDE DEF v
  <2>2. DirRuns(p, Ok(v)) BY <2>1, DirFails
  <2> QED BY <1>5, <2>2
<1> HIDE DEF a, b
<1>7. \A c : DirRuns(p, c) => NumberInv(p, k + 1, Stop(x, c))
  BY <1>1 DEF NumberInv, LoopOk, Stop
<1>8. NumberInv(p, k + 1, [x EXCEPT !.m = f, !.k = @ + 1])
  BY <1>1, <1>5 DEF NumberInv, LoopOk
<1> QED BY <1>2, <1>3, <1>6, <1>7, <1>8

LEMMA NumberedOk ==
  ASSUME NEW m, NEW n, Good(m), DjOk(m.dj)
  PROVE DirRuns(m, Numbered(m, n))
<1> DEFINE x == [on |-> TRUE, m |-> m, n |-> n, k |-> 1]
           j == MaxEntries + 1
           y == While(TryNumber, x, j)
<1>1. NumberInv(m, 0, x) BY DirRunsOn DEF NumberInv, LoopOk
<1>2. ASSUME NEW k \in Nat, NEW u, NumberInv(m, k, u) PROVE NumberInv(m, k + 1, Round(TryNumber, u))
  <2>1. CASE u.on BY <1>2, <2>1, NumberStep DEF Round
  <2>2. CASE ~u.on BY <1>2, <2>2 DEF Round, NumberInv
  <2> QED BY <2>1, <2>2
<1>3. j \in Nat BY MaxEntriesNat
<1>4. Numbered(m, n) = Result(y) BY DEF Numbered
<1> HIDE DEF x, j
<1>5. NumberInv(m, j, NumberLoop!While(TryNumber, x, j))
  BY <1>1, <1>2, <1>3, SetInduction, NumberLoop!WhileKeeps DEF Round, NumberLoop!Round
<1>6. NumberInv(m, j, y) BY <1>5 DEF While, NumberLoop!While, Round, NumberLoop!Round
<1> HIDE DEF y
<1> QED BY <1>4, <1>6, DirResult DEF NumberInv

(* dir_register makes room ...                                             *)
ReserveInv(p, k, y) ==
  /\ LoopOk(y) /\ {"have", "first", "need"} \subseteq DOMAIN y /\ y.first \in Nat
  /\ DirRuns(p, y.m)
  /\ y.on => Points(y.m.dj)
  /\ ~y.on /\ y.m.res = "OK" => Points(y.m.dj) /\ y.m.val \in Nat
ReserveLoop == INSTANCE LoopProofs WITH Body <- ReserveOne, Inv <- ReserveInv

LEMMA ReserveStep ==
  ASSUME NEW p, NEW k \in Nat, NEW x, ReserveInv(p, k, x), x.on
  PROVE ReserveInv(p, k + 1, ReserveOne(x))
<1> DEFINE v == MoveWindow(x.m, x.m.dj.sect)
           blank == Here(v).kind \in {"blank", "deleted"}
           n == IF blank THEN x.have + 1 ELSE 0
           f == IF blank /\ x.have = 0 THEN v.dj.index ELSE x.first
           a == [v EXCEPT !.val = f]
           d == DirNext(v, TRUE)
           w == ReserveOne(x)
<1>1. /\ LoopOk(x) /\ {"have", "first", "need"} \subseteq DOMAIN x /\ x.first \in Nat
      /\ Good(x.m) /\ DjOk(x.m.dj) /\ Points(x.m.dj) /\ DirRuns(p, x.m)
  BY DirRunsOn DEF ReserveInv
<1>2. Runs(x.m, v) /\ OnEntry(v) /\ v.res = "OK" BY <1>1, ToEntry
<1>3. w = IF n = x.need THEN Stop(x, a)
          ELSE Onward([x EXCEPT !.have = n, !.first = f], d)
  BY <1>2 DEF ReserveOne, OnOk
<1> HIDE DEF v
<1>4. DirRuns(p, v) /\ Good(v) /\ DjOk(v.dj) /\ Points(v.dj) BY <1>1, <1>2, OnEntryIs, DirRunsOn
<1>5. f \in Nat BY <1>1, <1>4 DEF DjOk
<1> HIDE DEF n, f, w
<1> SUFFICES ReserveInv(p, k + 1, w) BY DEF w
<1>6. CASE n = x.need
  <2>1. DirRuns(p, a) /\ a.val = f /\ a.dj = v.dj BY <1>4, ValDir
  <2> HIDE DEF a
  <2>2. w = [x EXCEPT !.m = a, !.on = FALSE] BY <1>3, <1>6 DEF Stop
  <2>3. LoopOk(w) /\ {"have", "first", "need"} \subseteq DOMAIN w /\ w.first = x.first
        /\ w.m = a /\ ~w.on
    BY <2>2, <1>1 DEF LoopOk
  <2> QED BY <2>1, <2>3, <1>1, <1>4, <1>5 DEF ReserveInv
<1>7. CASE n # x.need
  <2>1. NextOk(v, d) BY <1>4, NextEntry
  <2> HIDE DEF d
  <2>2. DirRuns(p, d) /\ (d.res = "OK" => Points(d.dj)) BY <1>4, <2>1, DirRunsOn DEF NextOk
  <2>3. w = [[x EXCEPT !.have = n, !.first = f] EXCEPT !.m = d, !.on = d.res = "OK"]
    BY <1>3, <1>7 DEF Onward
  <2>4. LoopOk(w) /\ {"have", "first", "need"} \subseteq DOMAIN w /\ w.first = f
        /\ w.m = d /\ w.on = (d.res = "OK")
    BY <2>3, <1>1 DEF LoopOk
  <2> QED BY <2>2, <2>4, <1>5 DEF ReserveInv
<1> QED BY <1>6, <1>7

LEMMA ReserveOk ==
  ASSUME NEW m, NEW need, Good(m), DjOk(m.dj), Points(m.dj)
  PROVE LET w == Reserve(m, need)
        IN DirRuns(m, w) /\ (w.res = "OK" => Points(w.dj) /\ w.val \in Nat)
<1> DEFINE x == [on |-> TRUE, m |-> m, need |-> need, have |-> 0, first |-> 0]
           n == MaxEntries
           y == While(ReserveOne, x, n)
<1>1. ReserveInv(m, 0, x) BY DirRunsOn DEF ReserveInv, LoopOk
<1>2. ASSUME NEW k \in Nat, NEW u, ReserveInv(m, k, u) PROVE ReserveInv(m, k + 1, Round(ReserveOne, u))
  <2>1. CASE u.on BY <1>2, <2>1, ReserveStep DEF Round
  <2>2. CASE ~u.on BY <1>2, <2>2 DEF Round, ReserveInv
  <2> QED BY <2>1, <2>2
<1>3. n \in Nat BY MaxEntriesNat
<1>4. Reserve(m, need) = Result(y) BY DEF Reserve
<1> HIDE DEF x, n
<1>5. ReserveInv(m, n, ReserveLoop!While(ReserveOne, x, n))
  BY <1>1, <1>2, <1>3, SetInduction, ReserveLoop!WhileKeeps DEF Round, ReserveLoop!Round
<1>6. ReserveInv(m, n, y) BY <1>5 DEF While, ReserveLoop!While, Round, ReserveLoop!Round
<1> HIDE DEF y
<1>7. DirRuns(m, Result(y)) /\ (y.on => Result(y).res = "INT_ERR")
      /\ (~y.on => Result(y) = y.m) /\ Result(y).dj = y.m.dj
  BY <1>6, DirResult DEF ReserveInv
<1> QED BY <1>4, <1>6, <1>7 DEF ReserveInv

(* ... and writes the long entries and the entry proper.                   *)
LongInv(p, k, y) ==
  /\ LoopOk(y) /\ {"n", "k", "sum"} \subseteq DOMAIN y
  /\ DirRuns(p, y.m)
  /\ y.on => Points(y.m.dj)
  /\ ~y.on /\ y.m.res = "OK" => Points(y.m.dj)
LongLoop == INSTANCE LoopProofs WITH Body <- PutLongOne, Inv <- LongInv

LEMMA PutNext ==                  \* an entry is written, then the next one
  ASSUME NEW p, NEW m, NEW e, NEW s \in BOOLEAN, DirRuns(p, m), OnEntry(m), EntryOk(e)
  PROVE LET d == DirNext(Put(m, e), s)
        IN DirRuns(p, d) /\ (d.res = "OK" => Points(d.dj))
<1> DEFINE a == Put(m, e)
           d == DirNext(a, s)
<1>1. Runs(m, a) /\ OnEntry(a) BY PutRuns
<1> HIDE DEF a
<1>2. DirRuns(p, a) /\ Good(a) /\ DjOk(a.dj) /\ Points(a.dj) BY <1>1, OnEntryIs, DirRunsOn
<1>3. NextOk(a, d) BY <1>2, NextEntry
<1> HIDE DEF d
<1> QED BY <1>2, <1>3, DirRunsOn DEF NextOk, d, a

LEMMA LongStep ==
  ASSUME NEW p, NEW k \in Nat, NEW x, LongInv(p, k, x), x.on
  PROVE LongInv(p, k + 1, PutLongOne(x))
<1> DEFINE v == MoveWindow(x.m, x.m.dj.sect)
           e == Long(x.n, x.k, x.sum)
           d == DirNext(Put(v, e), FALSE)
           w == PutLongOne(x)
<1>1. /\ LoopOk(x) /\ {"n", "k", "sum"} \subseteq DOMAIN x
      /\ Good(x.m) /\ DjOk(x.m.dj) /\ Points(x.m.dj) /\ DirRuns(p, x.m)
  BY DirRunsOn DEF LongInv
<1>2. Runs(x.m, v) /\ OnEntry(v) /\ v.res = "OK" BY <1>1, ToEntry
<1>3. w = IF x.k = 0 THEN Stop(x, Ok(x.m)) ELSE Onward([x EXCEPT !.k = @ - 1], d)
  BY <1>2 DEF PutLongOne, OnOk
<1> HIDE DEF v
<1>4. DirRuns(p, v) BY <1>1, <1>2, DirRunsOn
<1>5. EntryOk(e) BY DEF EntryOk, Long
<1> HIDE DEF w, e
<1>6. FALSE \in BOOLEAN OBVIOUS
<1>7. DirRuns(p, d) /\ (d.res = "OK" => Points(d.dj)) BY <1>2, <1>4, <1>5, <1>6, PutNext
<1> HIDE DEF d
<1> SUFFICES LongInv(p, k + 1, w) BY DEF w
<1>8. CASE x.k = 0
  <2>1. DirRuns(p, Ok(x.m)) /\ Ok(x.m).dj = x.m.dj BY <1>1, DirFails
  <2>2. w = [x EXCEPT !.m = Ok(x.m), !.on = FALSE] BY <1>3, <1>8 DEF Stop
  <2>3. LoopOk(w) /\ {"n", "k", "sum"} \subseteq DOMAIN w /\ w.m = Ok(x.m) /\ ~w.on
    BY <2>2, <1>1 DEF LoopOk
  <2> QED BY <2>1, <2>3, <1>1 DEF LongInv
<1>9. CASE x.k # 0
  <2>1. w = [[x EXCEPT !.k = @ - 1] EXCEPT !.m = d, !.on = d.res = "OK"]
    BY <1>3, <1>9 DEF Onward
  <2>2. LoopOk(w) /\ {"n", "k", "sum"} \subseteq DOMAIN w /\ w.m = d /\ w.on = (d.res = "OK")
    BY <2>1, <1>1 DEF LoopOk
  <2> QED BY <2>2, <1>7 DEF LongInv
<1> QED BY <1>8, <1>9

LEMMA PutLongOk ==
  ASSUME NEW m, NEW n, NEW sum, Slots[n] \in Nat, Good(m), DjOk(m.dj), Points(m.dj)
  PROVE LET w == PutLong(m, n, sum) IN DirRuns(m, w) /\ (w.res = "OK" => Points(w.dj))
<1> DEFINE x == [on |-> TRUE, m |-> m, n |-> n, k |-> Slots[n] - 1, sum |-> sum]
           j == Slots[n]
           y == While(PutLongOne, x, j)
<1>1. LongInv(m, 0, x) BY DirRunsOn DEF LongInv, LoopOk
<1>2. ASSUME NEW k \in Nat, NEW u, LongInv(m, k, u) PROVE LongInv(m, k + 1, Round(PutLongOne, u))
  <2>1. CASE u.on BY <1>2, <2>1, LongStep DEF Round
  <2>2. CASE ~u.on BY <1>2, <2>2 DEF Round, LongInv
  <2> QED BY <2>1, <2>2
<1>3. j \in Nat OBVIOUS
<1>4. PutLong(m, n, sum) = Result(y) BY DEF PutLong
<1> HIDE DEF x, j
<1>5. LongInv(m, j, LongLoop!While(PutLongOne, x, j))
  BY <1>1, <1>2, <1>3, SetInduction, LongLoop!WhileKeeps DEF Round, LongLoop!Round
<1>6. LongInv(m, j, y) BY <1>5 DEF While, LongLoop!While, Round, LongLoop!Round
<1> HIDE DEF y
<1>7. DirRuns(m, Result(y)) /\ (y.on => Result(y).res = "INT_ERR")
      /\ (~y.on => Result(y) = y.m) /\ Result(y).dj = y.m.dj
  BY <1>6, DirResult DEF LongInv
<1> QED BY <1>4, <1>6, <1>7 DEF LongInv

LEMMA RegisteredOk ==
  ASSUME NEW m, NEW n, NEW sfn, Slots[n] \in Nat, Good(m), DjOk(m.dj)
  PROVE Met(m, Registered(m, n, sfn))
<1> DEFINE d == DirSdi(m, 0)
           r == IF d.res = "OK" THEN Reserve(d, Slots[n]) ELSE d
           i == DirSdi(r, r.val)
           l == IF r.res = "OK"
                THEN IF Lossy(n) THEN IF i.res = "OK" THEN PutLong(i, n, sfn) ELSE i ELSE r
                ELSE r
           v == MoveWindow(l, l.dj.sect)
           e == Entry(sfn, "file", 0, 0)
           w == IF l.res = "OK" THEN IF v.res = "OK" THEN Put(v, e) ELSE v ELSE l
<1>1. Registered(m, n, sfn) = w BY DEF Registered, Then
<1>2. DirRuns(m, d) /\ (d.res = "OK" => Points(d.dj)) /\ Good(d) /\ DjOk(d.dj)
  <2>1. Pointed(m, 0, d) BY SdiOk
  <2> QED BY <2>1, DirRunsOn DEF Pointed
<1> HIDE DEF d
<1>3. DirRuns(m, r) /\ (r.res = "OK" => Points(r.dj) /\ r.val \in Nat) /\ Good(r) /\ DjOk(r.dj)
  <2>1. CASE d.res = "OK"
    <3>1. DirRuns(d, r) /\ (r.res = "OK" => Points(r.dj) /\ r.val \in Nat) BY <1>2, <2>1, ReserveOk
    <3> HIDE DEF r
    <3> QED BY <1>2, <3>1, DirRunsOn
  <2>2. CASE d.res # "OK" BY <1>2, <2>2
  <2> QED BY <2>1, <2>2
<1> HIDE DEF r
<1>4. r.res = "OK" => DirRuns(m, i) /\ (i.res = "OK" => Points(i.dj)) /\ Good(i) /\ DjOk(i.dj)
  <2>1. ASSUME r.res = "OK" PROVE Pointed(r, r.val, i) BY <1>3, <2>1, SdiOk
  <2> HIDE DEF i
  <2> QED BY <1>3, <2>1, DirRunsOn DEF Pointed
<1> HIDE DEF i
<1>5. DirRuns(m, l) /\ (l.res = "OK" => Points(l.dj)) /\ Good(l) /\ DjOk(l.dj)
  <2>1. CASE r.res = "OK" /\ Lossy(n) /\ i.res = "OK"
    <3>1. DirRuns(i, l) /\ (l.res = "OK" => Points(l.dj)) BY <1>4, <2>1, PutLongOk
    <3> HIDE DEF l
    <3> QED BY <1>4, <2>1, <3>1, DirRunsOn
  <2>2. CASE ~(r.res = "OK" /\ Lossy(n) /\ i.res = "OK")
    <3>1. l = r \/ (r.res = "OK" /\ i.res # "OK" /\ l = i) BY <2>2
    <3> HIDE DEF l
    <3> QED BY <1>3, <1>4, <3>1
  <2> QED BY <2>1, <2>2
<1> HIDE DEF l
<1>6. CASE l.res = "OK"
  <2>1. Runs(l, v) /\ OnEntry(v) /\ v.res = "OK" BY <1>5, <1>6, ToEntry
  <2> HIDE DEF v
  <2>2. EntryOk(e) /\ e.kind = "entry" BY Named DEF Entry
  <2> HIDE DEF e
  <2>3. Runs(v, Put(v, e)) /\ OnEntry(Put(v, e)) /\ Here(Put(v, e)) = e BY <2>1, <2>2, PutRuns
  <2>4. w = Put(v, e) BY <1>6, <2>1
  <2> HIDE DEF w
  <2>5. DirRuns(m, w) /\ OnFile(w) BY <1>5, <2>1, <2>2, <2>3, <2>4, DirRunsOn DEF OnFile
  <2> QED BY <1>1, <2>5 DEF Met
<1>7. CASE l.res # "OK" BY <1>1, <1>5, <1>7 DEF Met
<1> QED BY <1>6, <1>7

LEMMA RegisterOk ==
  ASSUME NEW m, NEW n, Slots[n] \in Nat, Good(m), DjOk(m.dj)
  PROVE Met(m, DirRegister(m, n))
<1> DEFINE z == [m EXCEPT !.val = 0]
           k == IF Lossy(n) THEN Numbered(m, n) ELSE Ok(z)
           w == Registered(k, n, Short(n, k.val))
<1>1. DirRegister(m, n) = IF k.res = "OK" THEN w ELSE k BY DEF DirRegister, Then
<1>2. DirRuns(m, k)
  <2>1. DirRuns(m, z) BY DirRunsOn, ValDir
  <2> HIDE DEF z
  <2>2. DirRuns(m, Ok(z)) BY <2>1, DirFails
  <2> QED BY <2>2, NumberedOk
<1> HIDE DEF k
<1>3. Met(k, w) BY <1>2, RegisteredOk, DirRunsOn
<1> HIDE DEF w
<1> QED BY <1>1, <1>2, <1>3, DirRunsOn DEF Met

(* dir_remove.                                                             *)
DeleteInv(p, k, y) ==
  /\ LoopOk(y) /\ DirRuns(p, y.m)
  /\ y.on => Points(y.m.dj)
DeleteLoop == INSTANCE LoopProofs WITH Body <- DeleteOne, Inv <- DeleteInv

LEMMA DeleteStep ==
  ASSUME NEW p, NEW k \in Nat, NEW x, DeleteInv(p, k, x), x.on
  PROVE DeleteInv(p, k + 1, DeleteOne(x))
<1> DEFINE v == MoveWindow(x.m, x.m.dj.sect)
           a == Put(v, Deleted)
           d == DirNext(a, FALSE)
           w == DeleteOne(x)
<1>1. LoopOk(x) /\ Good(x.m) /\ DjOk(x.m.dj) /\ Points(x.m.dj) /\ DirRuns(p, x.m)
  BY DirRunsOn DEF DeleteInv
<1>2. Runs(x.m, v) /\ OnEntry(v) /\ v.res = "OK" BY <1>1, ToEntry
<1>3. w = IF v.dj.index >= x.last THEN Stop(x, a) ELSE Onward(x, d)
  BY <1>2 DEF DeleteOne, OnOk
<1> HIDE DEF v
<1>4. DirRuns(p, v) BY <1>1, <1>2, DirRunsOn
<1>5. EntryOk(Deleted) BY DEF EntryOk, Deleted
<1>6. FALSE \in BOOLEAN OBVIOUS
<1>7. DirRuns(p, d) /\ (d.res = "OK" => Points(d.dj)) BY <1>2, <1>4, <1>5, <1>6, PutNext
<1>8. DirRuns(p, a)
  <2>1. Runs(v, a) BY <1>2, <1>5, PutRuns
  <2> QED BY <1>4, <2>1, DirRunsOn
<1> HIDE DEF d, a, w
<1> SUFFICES DeleteInv(p, k + 1, w) BY DEF w
<1>9. CASE v.dj.index >= x.last
  <2>1. w = Stop(x, a) BY <1>3, <1>9
  <2> QED BY <2>1, <1>1, <1>8, Stopped DEF DeleteInv
<1>10. CASE ~(v.dj.index >= x.last)
  <2>1. w = [x EXCEPT !.m = d, !.on = d.res = "OK"] BY <1>3, <1>10 DEF Onward
  <2>2. LoopOk(w) /\ w.m = d /\ w.on = (d.res = "OK") BY <2>1, <1>1 DEF LoopOk
  <2> QED BY <2>2, <1>7 DEF DeleteInv
<1> QED BY <1>9, <1>10

LEMMA DeleteToOk ==
  ASSUME NEW m, NEW last, Good(m), DjOk(m.dj), Points(m.dj)
  PROVE DirRuns(m, DeleteTo(m, last))
<1> DEFINE x == [on |-> TRUE, m |-> m, last |-> last]
           n == MaxEntries
           y == While(DeleteOne, x, n)
<1>1. DeleteInv(m, 0, x) BY DirRunsOn DEF DeleteInv, LoopOk
<1>2. ASSUME NEW k \in Nat, NEW u, DeleteInv(m, k, u) PROVE DeleteInv(m, k + 1, Round(DeleteOne, u))
  <2>1. CASE u.on BY <1>2, <2>1, DeleteStep DEF Round
  <2>2. CASE ~u.on BY <1>2, <2>2 DEF Round, DeleteInv
  <2> QED BY <2>1, <2>2
<1>3. n \in Nat BY MaxEntriesNat
<1>4. DeleteTo(m, last) = Result(y) BY DEF DeleteTo
<1> HIDE DEF x, n
<1>5. DeleteInv(m, n, DeleteLoop!While(DeleteOne, x, n))
  BY <1>1, <1>2, <1>3, SetInduction, DeleteLoop!WhileKeeps DEF Round, DeleteLoop!Round
<1>6. DeleteInv(m, n, y) BY <1>5 DEF While, DeleteLoop!While, Round, DeleteLoop!Round
<1> HIDE DEF y
<1> QED BY <1>4, <1>6, DirResult DEF DeleteInv

LEMMA RemoveOk ==
  ASSUME NEW m, Good(m), DjOk(m.dj)
  PROVE DirRuns(m, DirRemove(m))
<1> DEFINE i == m.dj.index
           first == IF m.dj.lfn_idx = NoLong THEN i ELSE m.dj.lfn_idx
           d == DirSdi(m, first)
           r == IF d.res = "OK" THEN DeleteTo(d, i) ELSE d
<1>1. DirRemove(m) = IF r.res = "NO_FILE" THEN Fail(r, "INT_ERR") ELSE r
  BY DEF DirRemove, After, Then
<1>2. first \in Nat BY DEF DjOk
<1> HIDE DEF first
<1>3. Pointed(m, first, d) BY <1>2, SdiOk
<1> HIDE DEF d, i
<1>4. DirRuns(m, d) /\ Good(d) /\ DjOk(d.dj) /\ (d.res = "OK" => Points(d.dj))
  BY <1>3, DirRunsOn DEF Pointed
<1>5. d.res = "OK" => DirRuns(d, DeleteTo(d, i)) BY <1>4, DeleteToOk
<1>6. DirRuns(m, r) BY <1>4, <1>5, DirRunsOn
<1> HIDE DEF r
<1> QED BY <1>1, <1>6, DirFails

(* follow_path: what a path with names ends with, and the one without.     *)
Reached(w) == OnFile(w) /\ w.dj.entry = TRUE
FollowInv(p, k, y) ==
  /\ LoopOk(y) /\ "path" \in DOMAIN y /\ DirRuns(p, y.m)
  /\ ~y.on /\ y.m.res = "OK" => Reached(y.m)
FollowLoop == INSTANCE LoopProofs WITH Body <- FollowOne, Inv <- FollowInv

LEMMA DjSet ==                    \* the directory object of a directory
  ASSUME NEW m, NEW c \in MayBeNone, NEW e \in BOOLEAN, Good(m), DjOk(m.dj)
  PROVE /\ DirRuns(m, [m EXCEPT !.dj.sclust = c])
        /\ LET w == [m EXCEPT !.dj.entry = e]
           IN /\ DirRuns(m, w) /\ w.res = m.res /\ w.dj.entry = e
              /\ Points(m.dj) => Points(w.dj)
              /\ OnFile(m) => OnFile(w)
<1> DEFINE a == [m.dj EXCEPT !.sclust = c]
           b == [m.dj EXCEPT !.entry = e]
           w == DjPut(m, b)
<1>1. DjOk(a) BY DEF DjOk
<1>2. DjOk(b) /\ b.entry = e /\ b.clust = m.dj.clust /\ b.sect = m.dj.sect
      /\ b.index = m.dj.index
  BY DEF DjOk
<1>3. [m EXCEPT !.dj.sclust = c] = DjPut(m, a) /\ [m EXCEPT !.dj.entry = e] = w
  BY DEF DjPut
<1> HIDE DEF a, b
<1>4. DirRuns(m, DjPut(m, a)) BY <1>1, DjPutOk
<1>5. DirRuns(m, w) /\ w.dj = b /\ w.res = m.res /\ SameVol(m, w) BY <1>2, DjPutOk
<1> HIDE DEF w
<1>6. Points(m.dj) => Points(w.dj) BY <1>2, <1>5 DEF Points
<1>7. Here(w) = Here(m) BY <1>2, <1>5 DEF Here, SameVol
<1>8. OnFile(m) => OnFile(w)
  BY <1>2, <1>5, <1>6, <1>7 DEF OnFile, OnEntry, DirRuns, SameVol
<1> QED BY <1>2, <1>3, <1>4, <1>5, <1>6, <1>8

LEMMA FileHere ==
  ASSUME NEW m, OnFile(m)
  PROVE /\ Here(m).clst \in MayBeNone /\ Here(m).size \in Nat /\ EntryOk(Here(m))
        /\ {"clst", "size", "kind"} \subseteq DOMAIN Here(m) /\ Here(m).kind = "entry"
        /\ m.winsect \in Tables
<1>1. EntryOk(Here(m)) /\ m.winsect \in Tables /\ Here(m).kind = "entry" BY HereOk DEF OnFile
<1> QED BY <1>1 DEF EntryOk

LEMMA FollowStep ==
  ASSUME NEW p, NEW k \in Nat, NEW x, FollowInv(p, k, x), x.on
  PROVE FollowInv(p, k + 1, FollowOne(x))
<1> DEFINE n == Head(x.path)
           last == Len(x.path) = 1
           sfn == IF Lossy(n) THEN <<>> ELSE Short(n, 0)
           f == DirFind(x.m, n, sfn)
           r == IF last THEN "NO_FILE" ELSE "NO_PATH"
           a == [f EXCEPT !.dj.entry = TRUE]
           b == [f EXCEPT !.dj.sclust = Here(f).clst]
           w == FollowOne(x)
<1>1. LoopOk(x) /\ "path" \in DOMAIN x /\ DirRuns(p, x.m) /\ Good(x.m) /\ DjOk(x.m.dj)
  BY DirRunsOn DEF FollowInv
<1>2. w = IF f.res = "NO_FILE" THEN Stop(x, Fail(f, r))
          ELSE IF f.res # "OK" \/ last THEN Stop(x, a)
          ELSE IF Here(f).attr # "dir" THEN Stop(x, Fail(f, "NO_PATH"))
          ELSE [x EXCEPT !.m = b, !.path = Tail(@)]
  BY DEF FollowOne, After
<1> HIDE DEF sfn
<1>3. Met(x.m, f) BY <1>1, FindOk
<1>4. r # "OK" OBVIOUS
<1> HIDE DEF f, r, w, last
<1> SUFFICES FollowInv(p, k + 1, w) BY DEF w
<1>5. DirRuns(p, f) /\ Good(f) /\ DjOk(f.dj) /\ (f.res = "OK" => OnFile(f))
  BY <1>1, <1>3, DirRunsOn DEF Met
<1>6. ASSUME NEW c, DirRuns(p, c), c.res = "OK" => Reached(c), w = Stop(x, c)
      PROVE FollowInv(p, k + 1, w)
  <2>1. LoopOk(w) /\ "path" \in DOMAIN w /\ ~w.on /\ w.m = c BY <1>1, <1>6 DEF Stop, LoopOk
  <2> QED BY <2>1, <1>6 DEF FollowInv
<1>7. ASSUME NEW s, s # "OK" PROVE DirRuns(p, Fail(f, s)) /\ Fail(f, s).res # "OK"
  BY <1>5, <1>7, DirFails
<1>8. CASE f.res = "NO_FILE" BY <1>2, <1>4, <1>6, <1>7, <1>8
<1>9. CASE f.res # "NO_FILE" /\ (f.res # "OK" \/ last)
  <2>1. TRUE \in BOOLEAN /\ 0 \in MayBeNone BY DEF MayBeNone
  <2>2. DirRuns(f, a) /\ a.res = f.res /\ a.dj.entry = TRUE /\ (OnFile(f) => OnFile(a))
    BY <2>1, <1>5, DjSet
  <2> HIDE DEF a
  <2>3. DirRuns(p, a) /\ (a.res = "OK" => Reached(a)) BY <1>5, <2>2, DirRunsOn DEF Reached
  <2> QED BY <1>2, <1>6, <1>9, <2>3
<1>10. CASE f.res = "OK" /\ ~last /\ Here(f).attr # "dir" BY <1>2, <1>6, <1>7, <1>10
<1>11. CASE f.res = "OK" /\ ~last /\ Here(f).attr = "dir"
  <2> DEFINE c == Here(f).clst
  <2>1. c \in MayBeNone BY <1>5, <1>11, FileHere
  <2>2. w = [x EXCEPT !.m = b, !.path = Tail(@)] BY <1>2, <1>11
  <2>3. b = [f EXCEPT !.dj.sclust = c] OBVIOUS
  <2> HIDE DEF b, c
  <2>4. DirRuns(f, b) BY <1>5, <2>1, <2>3, DjSet
  <2>5. LoopOk(w) /\ "path" \in DOMAIN w /\ w.on /\ w.m = b BY <1>1, <2>2 DEF LoopOk
  <2> QED BY <1>5, <2>4, <2>5, DirRunsOn DEF FollowInv
<1> QED BY <1>8, <1>9, <1>10, <1>11

LEMMA FollowFromOk ==
  ASSUME NEW m, NEW way, Len(way) \in Nat, Good(m), DjOk(m.dj)
  PROVE LET w == FollowFrom(m, way) IN DirRuns(m, w) /\ (w.res = "OK" => Reached(w))
<1> DEFINE x == [on |-> TRUE, m |-> m, path |-> way]
           n == Len(way)
           y == While(FollowOne, x, n)
<1>1. FollowInv(m, 0, x) BY DirRunsOn DEF FollowInv, LoopOk
<1>2. ASSUME NEW k \in Nat, NEW u, FollowInv(m, k, u) PROVE FollowInv(m, k + 1, Round(FollowOne, u))
  <2>1. CASE u.on BY <1>2, <2>1, FollowStep DEF Round
  <2>2. CASE ~u.on BY <1>2, <2>2 DEF Round, FollowInv
  <2> QED BY <2>1, <2>2
<1>3. n \in Nat OBVIOUS
<1>4. FollowFrom(m, way) = Result(y) BY DEF FollowFrom
<1> HIDE DEF x, n
<1>5. FollowInv(m, n, FollowLoop!While(FollowOne, x, n))
  BY <1>1, <1>2, <1>3, SetInduction, FollowLoop!WhileKeeps DEF Round, FollowLoop!Round
<1>6. FollowInv(m, n, y) BY <1>5 DEF While, FollowLoop!While, Round, FollowLoop!Round
<1> HIDE DEF y
<1>7. DirRuns(m, Result(y)) /\ (y.on => Result(y).res = "INT_ERR")
      /\ (~y.on => Result(y) = y.m) /\ Result(y).dj = y.m.dj
  BY <1>6, DirResult DEF FollowInv
<1> QED BY <1>4, <1>6, <1>7 DEF FollowInv

Followed(m, way, w) ==
  /\ DirRuns(m, w) /\ Good(w) /\ DjOk(w.dj)
  /\ w.res = "OK" => IF way = <<>> THEN Points(w.dj) /\ w.dj.entry = FALSE
                     ELSE Reached(w)

LEMMA FollowOk ==
  ASSUME NEW m, NEW way, Len(way) \in Nat, Good(m), DjOk(m.dj)
  PROVE Followed(m, way, FollowPath(m, way))
<1> DEFINE d == [m EXCEPT !.dj.sclust = 0]
           s == DirSdi(d, 0)
           a == [s EXCEPT !.dj.entry = FALSE]
           f == FollowFrom(d, way)
<1>1. [m EXCEPT !.dj = [@ EXCEPT !.sclust = 0]] = d OBVIOUS
<1>2. FollowPath(m, way) = IF way = <<>> THEN a ELSE f BY <1>1 DEF FollowPath
<1>3. 0 \in MayBeNone /\ FALSE \in BOOLEAN BY DEF MayBeNone
<1>4. DirRuns(m, d) /\ Good(d) /\ DjOk(d.dj) BY <1>3, DjSet, DirRunsOn
<1> HIDE DEF d
<1>5. Pointed(d, 0, s) BY <1>4, SdiOk
<1> HIDE DEF s
<1>6. DirRuns(m, s) /\ Good(s) /\ DjOk(s.dj) /\ (s.res = "OK" => Points(s.dj))
  BY <1>4, <1>5, DirRunsOn DEF Pointed
<1>7. DirRuns(s, a) /\ a.res = s.res /\ a.dj.entry = FALSE /\ (Points(s.dj) => Points(a.dj))
  BY <1>3, <1>6, DjSet
<1> HIDE DEF a
<1>8. DirRuns(m, a) BY <1>6, <1>7, DirRunsOn
<1>9. DirRuns(d, f) /\ (f.res = "OK" => Reached(f)) BY <1>4, FollowFromOk
<1> HIDE DEF f
<1>10. DirRuns(m, f) BY <1>4, <1>9, DirRunsOn
<1> QED BY <1>2, <1>6, <1>7, <1>8, <1>9, <1>10, DirRunsOn DEF Followed

(* A write behind the window's back, to sectors of tables only.            *)
LEMMA TableWritten ==
  ASSUME NEW m, NEW w, Good(m), Machine(w), SameInfo(m, w),
         w.win = m.win, w.winsect = m.winsect, w.wflag = m.wflag,
         DOMAIN w.disk = DOMAIN m.disk,
         \A s \in Tables : TableOk(w.disk[s]),
         \A s \in DOMAIN m.disk : s \notin Tables => w.disk[s] = m.disk[s]
  PROVE Good(w) /\ SameFat(m, w)
<1>1. DiskOk(m.disk) /\ WinOk(m) /\ CopiesOk(m) /\ InfoOk(m) /\ CountOk(m)
  BY DEF Good, VolOk, BaseOk
<1>2. \A s \in FatArea : w.disk[s] = m.disk[s]
                         /\ (NFats = 2 => w.disk[s + FatSize] = m.disk[s + FatSize])
  BY <1>1, Sectors, Layout DEF DiskOk
<1>3. DiskOk(w.disk) BY <1>1, <1>2 DEF DiskOk
<1>4. WinOk(w) BY <1>1, <1>2 DEF WinOk
<1>5. CopiesOk(w) BY <1>1, <1>2 DEF CopiesOk
<1>6. InfoOk(w) BY <1>1 DEF InfoOk, SameInfo
<1>7. SameFat(m, w)
  <2> SUFFICES ASSUME NEW c \in Cluster PROVE Seen(w, FatSect(c)) = Seen(m, FatSect(c))
    BY DEF SameFat, Fat
  <2>1. FatSect(c) \in FatArea BY FatPlace
  <2> QED BY <2>1, <1>2 DEF Seen
<1>8. CountOk(w) BY <1>1, <1>7, SameFatCount DEF SameInfo
<1> QED BY <1>1, <1>3, <1>4, <1>5, <1>6, <1>7, <1>8 DEF Good, VolOk, BaseOk

LEMMA TableDisk ==
  ASSUME NEW m, NEW s \in {0} \union Tables, NEW c, Good(m), TableOk(c)
  PROVE LET w == DiskWrite(m, s, c)
        IN Runs(m, w) /\ w.res = "OK" /\ w.val = m.val
<1> DEFINE w == DiskWrite(m, s, c)
<1>1. Wrote(m, s, c, w) BY WriteOk DEF Good
<1> HIDE DEF w
<1>2. DiskOk(m.disk) BY DEF Good, VolOk, BaseOk
<1>3. DOMAIN w.disk = DOMAIN m.disk BY <1>1 DEF Wrote
<1>4. \A t \in Tables : TableOk(w.disk[t])
  <2>1. \A t \in Tables : t \in DOMAIN m.disk /\ TableOk(m.disk[t]) BY <1>2, Sectors DEF DiskOk
  <2>2. \A t \in DOMAIN m.disk : w.disk[t] = IF t = s THEN c ELSE m.disk[t] BY <1>1 DEF Wrote
  <2> QED BY <2>1, <2>2
<1>5. \A t \in DOMAIN m.disk : t \notin Tables => w.disk[t] = m.disk[t]
  <2>1. 0 \notin DOMAIN m.disk BY <1>2, Layout DEF DiskOk, FatBase
  <2> QED BY <1>1, <2>1 DEF Wrote
<1>6. Good(w) BY <1>1, <1>3, <1>4, <1>5, TableWritten DEF Wrote
<1> QED BY <1>1, <1>6 DEF Runs, Wrote, w

(* A file object that is open, whatever has come over it.                  *)
FileShape(f) ==
  /\ FileFields \subseteq DOMAIN f /\ f.open = TRUE
  /\ f.sclust \in MayBeNone /\ f.fsize \in Nat /\ f.fptr \in Nat
  /\ f.dsect \in {0} \union Tables /\ TableOk(f.buf)
  /\ f.dirsect \in Tables /\ f.slot \in 1..SS
Holds(m) == Good(m) /\ FileShape(m.fp)
InFile(f) == f.fptr <= f.fsize /\ (f.fptr > 0 => f.clust \in Cluster)
Aborted(m) == "ERROR" \in m.fp.flag
Fit(m) == Holds(m) /\ (~Aborted(m) => InFile(m.fp))    \* what a call begins and ends with

LEMMA FitFile == ASSUME NEW m PROVE Fit(m) <=> Good(m) /\ m.fp.open = TRUE /\ FileOk(m.fp)
BY DEF Fit, Holds, FileShape, FileOk, InFile, Aborted

(* A step that leaves the pointer where it is.                             *)
Stays(m, w) ==
  /\ Holds(w) /\ w.fp.fptr = m.fp.fptr /\ w.fp.fsize = m.fp.fsize
  /\ w.fp.clust = m.fp.clust /\ w.fp.sclust = m.fp.sclust
  /\ Aborted(w) <=> Aborted(m)

LEMMA StaysOn ==
  ASSUME NEW m, NEW a, NEW b
  PROVE /\ Stays(m, a) /\ Stays(a, b) => Stays(m, b)
        /\ Holds(m) => Stays(m, m)
        /\ Stays(m, a) /\ Runs(a, b) => Stays(m, b)
        /\ Stays(m, a) /\ Labelled(a, b) => Stays(m, b)
        /\ Holds(m) /\ Runs(m, a) => Stays(m, a)
        /\ Holds(m) /\ Labelled(m, a) => Stays(m, a)
        /\ Stays(m, a) /\ Fit(m) => Fit(a)
        /\ Stays(m, a) => Holds(a) /\ Good(a) /\ Machine(a)
BY DEF Stays, Holds, Runs, Labelled, SameObjects, Aborted, Fit, InFile, Good

FpPut(m, f) == [m EXCEPT !.fp = f]
LEMMA FpPutOk ==
  ASSUME NEW m, NEW f, Good(m)
  PROVE LET w == FpPut(m, f)
        IN Good(w) /\ w.fp = f /\ w.dj = m.dj /\ w.res = m.res /\ w.val = m.val
           /\ SameVol(m, w) /\ w.out = m.out
<1> DEFINE w == FpPut(m, f)
<1>1. /\ Machine(w) /\ SameVol(m, w) /\ w.fp = f /\ w.dj = m.dj /\ w.res = m.res
      /\ w.val = m.val /\ w.out = m.out
  BY DEF FpPut, Good, Machine, Fields, SameVol, SameInfo
<1> HIDE DEF w
<1>2. Good(w) BY <1>1, SameVolGood
<1> QED BY <1>1, <1>2 DEF w

LEMMA FlagOk ==
  ASSUME NEW m, NEW f, Holds(m)
  PROVE /\ Holds(Marked(m, f)) /\ (f # "ERROR" => Stays(m, Marked(m, f)))
        /\ Marked(m, f).res = m.res /\ Marked(m, f).val = m.val
        /\ (f = "ERROR" => Aborted(Marked(m, f)))
        /\ Marked(m, f).fp.dsect = m.fp.dsect
        /\ Holds(Unmarked(m, f)) /\ (f # "ERROR" => Stays(m, Unmarked(m, f)))
        /\ Unmarked(m, f).res = m.res /\ Unmarked(m, f).val = m.val
        /\ Unmarked(m, f).fp.dsect = m.fp.dsect
<1> DEFINE a == [m.fp EXCEPT !.flag = @ \union {f}]
           b == [m.fp EXCEPT !.flag = @ \ {f}]
<1>1. Marked(m, f) = FpPut(m, a) /\ Unmarked(m, f) = FpPut(m, b) BY DEF Marked, Unmarked, FpPut
<1>2. Good(m) /\ FileShape(m.fp) /\ "flag" \in DOMAIN m.fp
  BY DEF Holds, FileShape, FileFields
<1>3. /\ FileShape(a) /\ a.fptr = m.fp.fptr /\ a.fsize = m.fp.fsize /\ a.clust = m.fp.clust
      /\ a.sclust = m.fp.sclust /\ a.flag = m.fp.flag \union {f} /\ a.dsect = m.fp.dsect
  BY <1>2 DEF FileShape
<1>4. /\ FileShape(b) /\ b.fptr = m.fp.fptr /\ b.fsize = m.fp.fsize /\ b.clust = m.fp.clust
      /\ b.sclust = m.fp.sclust /\ b.flag = m.fp.flag \ {f} /\ b.dsect = m.fp.dsect
  BY <1>2 DEF FileShape
<1> HIDE DEF a, b
<1>5. Good(FpPut(m, a)) /\ FpPut(m, a).fp = a /\ FpPut(m, a).res = m.res /\ FpPut(m, a).val = m.val
  BY <1>2, FpPutOk
<1>6. Good(FpPut(m, b)) /\ FpPut(m, b).fp = b /\ FpPut(m, b).res = m.res /\ FpPut(m, b).val = m.val
  BY <1>2, FpPutOk
<1> QED BY <1>1, <1>3, <1>4, <1>5, <1>6 DEF Holds, Stays, Aborted

LEMMA AbortOk ==
  ASSUME NEW m, NEW r, Holds(m)
  PROVE LET w == Abort(m, r) IN Holds(w) /\ Aborted(w) /\ w.res = r
<1> DEFINE a == Marked(m, "ERROR")
<1>1. Holds(a) /\ Aborted(a) BY FlagOk
<1> HIDE DEF a
<1>2. Labelled(a, Fail(a, r)) /\ Fail(a, r).res = r BY <1>1, FailOk DEF Holds, Good
<1>3. Abort(m, r) = Fail(a, r) BY DEF Abort, a
<1> QED BY <1>1, <1>2, <1>3 DEF Labelled, Holds, Aborted, SameObjects

(* The sector cache.                                                       *)
LEMMA FlushOk ==
  ASSUME NEW m, Holds(m)
  PROVE LET w == FlushBuf(m)
        IN Stays(m, w) /\ w.res = "OK" /\ w.val = m.val /\ w.fp.dsect = m.fp.dsect
<1>1. CASE "DIRTY" \in m.fp.flag
  <2> DEFINE d == DiskWrite(m, m.fp.dsect, m.fp.buf)
  <2>1. Runs(m, d) /\ d.res = "OK" /\ d.val = m.val BY TableDisk DEF Holds, FileShape
  <2>2. FlushBuf(m) = Unmarked(d, "DIRTY") BY <1>1, <2>1 DEF FlushBuf, Then
  <2> HIDE DEF d
  <2>3. Stays(m, d) /\ Holds(d) /\ d.fp = m.fp BY <2>1, StaysOn DEF Runs, SameObjects
  <2>4. Stays(d, Unmarked(d, "DIRTY")) /\ Unmarked(d, "DIRTY").res = d.res
        /\ Unmarked(d, "DIRTY").val = d.val /\ Unmarked(d, "DIRTY").fp.dsect = d.fp.dsect
    BY <2>3, FlagOk
  <2> QED BY <2>1, <2>2, <2>3, <2>4, StaysOn
<1>2. CASE "DIRTY" \notin m.fp.flag
  <2>1. FlushBuf(m) = Ok(m) BY <1>2 DEF FlushBuf
  <2>2. Labelled(m, Ok(m)) /\ Ok(m).res = "OK" /\ Ok(m).val = m.val BY FailOk DEF Holds, Good
  <2> QED BY <2>1, <2>2, StaysOn DEF Labelled, SameObjects
<1> QED BY <1>1, <1>2

LEMMA LoadBufOk ==
  ASSUME NEW m, NEW s \in Tables, Holds(m)
  PROVE LET w == LoadBuf(m, s)
        IN Stays(m, w) /\ w.res = "OK" /\ w.val = m.val /\ w.fp.dsect = m.fp.dsect
<1> DEFINE a == Access(m)
           f == [m.fp EXCEPT !.buf = m.disk[s]]
<1>1. /\ Machine(a) /\ SameVol(m, a) /\ SameObjects(m, a) /\ a.res = "OK" /\ a.val = m.val
  BY AccessOk DEF Holds, Good
<1>2. LoadBuf(m, s) = [a EXCEPT !.fp.buf = a.disk[s]] BY <1>1 DEF LoadBuf, Then
<1>3. Good(m) /\ FileShape(m.fp) BY DEF Holds
<1>4. TableOk(m.disk[s]) BY <1>3 DEF Good, VolOk, BaseOk, DiskOk
<1>5. /\ FileShape(f) /\ f.fptr = m.fp.fptr /\ f.fsize = m.fp.fsize /\ f.clust = m.fp.clust
      /\ f.sclust = m.fp.sclust /\ f.flag = m.fp.flag /\ f.dsect = m.fp.dsect
  BY <1>3, <1>4 DEF FileShape, FileFields
<1>6. Good(a) BY <1>1, <1>3, SameVolGood
<1>7. LoadBuf(m, s) = FpPut(a, f) BY <1>1, <1>2 DEF FpPut, SameObjects, SameVol
<1> HIDE DEF a, f
<1>8. Good(FpPut(a, f)) /\ FpPut(a, f).fp = f /\ FpPut(a, f).res = a.res /\ FpPut(a, f).val = a.val
  BY <1>6, FpPutOk
<1> QED BY <1>1, <1>5, <1>7, <1>8 DEF Stays, Holds, Aborted

SetDsect(m, s) == [m EXCEPT !.fp.dsect = s]
LEMMA DsectOk ==
  ASSUME NEW m, NEW s \in Tables, Holds(m)
  PROVE LET w == SetDsect(m, s) IN Stays(m, w) /\ w.res = m.res /\ w.val = m.val
<1> DEFINE f == [m.fp EXCEPT !.dsect = s]
<1>1. SetDsect(m, s) = FpPut(m, f) BY DEF FpPut, SetDsect
<1>2. Good(m) /\ FileShape(m.fp) BY DEF Holds
<1>3. /\ FileShape(f) /\ f.fptr = m.fp.fptr /\ f.fsize = m.fp.fsize /\ f.clust = m.fp.clust
      /\ f.sclust = m.fp.sclust /\ f.flag = m.fp.flag
  BY <1>2 DEF FileShape, FileFields
<1> HIDE DEF f
<1>4. Good(FpPut(m, f)) /\ FpPut(m, f).fp = f /\ FpPut(m, f).res = m.res /\ FpPut(m, f).val = m.val
  BY <1>2, FpPutOk
<1> QED BY <1>1, <1>3, <1>4 DEF Stays, Holds, Aborted

Cached(m, w) == Stays(m, w) /\ w.res = "OK"
LEMMA CacheOk ==
  ASSUME NEW m, NEW s \in Tables, Holds(m)
  PROVE Cached(m, CacheForRead(m, s)) /\ Cached(m, CacheForWrite(m, s))
<1> DEFINE b == FlushBuf(m)
           l == LoadBuf(b, s)
           r == IF m.fp.dsect = s THEN Ok(m) ELSE l
           k == IF m.fp.dsect # s /\ m.fp.fptr < m.fp.fsize THEN LoadBuf(m, s) ELSE Ok(m)
<1>1. Stays(m, b) /\ b.res = "OK" BY FlushOk
<1>2. CacheForRead(m, s) = IF r.res = "OK" THEN SetDsect(r, s)
                           ELSE LET o == Abort(r, r.res)
                                IN IF o.res = "OK" THEN SetDsect(o, s) ELSE o
  BY <1>1 DEF CacheForRead, Then, OrAbort, SetDsect
<1>3. CacheForWrite(m, s) = IF k.res = "OK" THEN SetDsect(k, s)
                           ELSE LET o == Abort(k, k.res)
                                IN IF o.res = "OK" THEN SetDsect(o, s) ELSE o
  BY DEF CacheForWrite, Then, OrAbort, SetDsect
<1> HIDE DEF b
<1>4. Stays(b, l) /\ l.res = "OK" BY <1>1, LoadBufOk, StaysOn
<1> HIDE DEF l
<1>5. Stays(m, Ok(m)) /\ Ok(m).res = "OK"
  <2>1. Labelled(m, Ok(m)) /\ Ok(m).res = "OK" BY FailOk DEF Holds, Good
  <2> QED BY <2>1, StaysOn
<1>6. Stays(m, r) /\ r.res = "OK" BY <1>1, <1>4, <1>5, StaysOn
<1>7. Stays(m, k) /\ k.res = "OK" BY <1>5, LoadBufOk
<1> HIDE DEF r, k
<1>8. Stays(r, SetDsect(r, s)) /\ SetDsect(r, s).res = r.res BY <1>6, StaysOn, DsectOk
<1>9. Stays(k, SetDsect(k, s)) /\ SetDsect(k, s).res = k.res BY <1>7, StaysOn, DsectOk
<1> QED BY <1>2, <1>3, <1>6, <1>7, <1>8, <1>9, StaysOn DEF Cached

LEMMA FileSector ==               \* the sector of the pointer, in its cluster
  ASSUME NEW m, Holds(m)
  PROVE /\ SectOf(m) \in 0..CSize - 1
        /\ (SectOf(m) # 0 => m.fp.fptr > 0) /\ (m.fp.fptr = 0 => SectOf(m) = 0)
        /\ m.fp.clust \in Cluster => Clust2Sect(m.fp.clust) + SectOf(m) \in Tables
<1> DEFINE q == m.fp.fptr \div SS
<1>1. m.fp.fptr \in Nat BY DEF Holds, FileShape
<1>2. q \in Nat BY <1>1, DivMod, Geometry
<1>3. q % CSize \in 0..CSize - 1 BY <1>2, DivMod, Geometry
<1>4. m.fp.fptr = 0 => q = 0
  <2>1. (SS * 0 + 0) \div SS = 0 BY DivModOf, Geometry
  <2>2. SS * 0 + 0 = 0 BY Geometry
  <2> QED BY <2>1, <2>2
<1>5. q = 0 => q % CSize = 0
  <2>1. (CSize * 0 + 0) % CSize = 0 BY DivModOf, Geometry
  <2>2. CSize * 0 + 0 = 0 BY Geometry
  <2> QED BY <2>1, <2>2
<1>6. SectOf(m) = q % CSize BY DEF SectOf
<1> HIDE DEF q
<1> QED BY <1>1, <1>3, <1>4, <1>5, <1>6, ClusterPlace

SetClust(m, c) == [m EXCEPT !.fp.clust = c]
LEMMA SetClustOk ==
  ASSUME NEW m, NEW c, Holds(m)
  PROVE LET w == SetClust(m, c)
        IN /\ Holds(w) /\ w.fp.fptr = m.fp.fptr /\ w.fp.fsize = m.fp.fsize
           /\ w.fp.clust = c /\ w.fp.sclust = m.fp.sclust /\ (Aborted(w) <=> Aborted(m))
           /\ w.res = m.res /\ w.val = m.val
<1> DEFINE f == [m.fp EXCEPT !.clust = c]
<1>1. SetClust(m, c) = FpPut(m, f) BY DEF FpPut, SetClust
<1>2. Good(m) /\ FileShape(m.fp) BY DEF Holds
<1>3. /\ FileShape(f) /\ f.fptr = m.fp.fptr /\ f.fsize = m.fp.fsize /\ f.clust = c
      /\ f.sclust = m.fp.sclust /\ f.flag = m.fp.flag
  BY <1>2 DEF FileShape, FileFields
<1> HIDE DEF f
<1>4. Good(FpPut(m, f)) /\ FpPut(m, f).fp = f /\ FpPut(m, f).res = m.res /\ FpPut(m, f).val = m.val
  BY <1>2, FpPutOk
<1> QED BY <1>1, <1>3, <1>4 DEF Holds, Aborted

SetVal(m, v) == [m EXCEPT !.val = v]
LEMMA ValHolds ==
  ASSUME NEW m, NEW v, Holds(m)
  PROVE LET w == SetVal(m, v)
        IN Stays(m, w) /\ Holds(w) /\ w.res = m.res /\ w.val = v
<1> DEFINE w == SetVal(m, v)
<1>1. Labelled(m, w) /\ w.res = m.res /\ w.val = v BY ValOk DEF Holds, Good, SetVal
<1> HIDE DEF w
<1>2. Stays(m, w) /\ Holds(w) BY <1>1, StaysOn
<1> QED BY <1>1, <1>2 DEF w

LEMMA FailHolds ==
  ASSUME NEW m, NEW r, Holds(m)
  PROVE /\ Stays(m, Ok(m)) /\ Ok(m).res = "OK" /\ Ok(m).val = m.val
        /\ Stays(m, Fail(m, r)) /\ Fail(m, r).res = r
<1>1. Labelled(m, Ok(m)) /\ Labelled(m, Fail(m, r)) /\ Ok(m).res = "OK" /\ Ok(m).val = m.val
      /\ Fail(m, r).res = r
  BY FailOk DEF Holds, Good
<1> QED BY <1>1, StaysOn

LEMMA AbortKeeps ==
  ASSUME NEW m, NEW r, Holds(m)
  PROVE LET w == Abort(m, r)
        IN Holds(w) /\ Aborted(w) /\ w.res = r /\ w.fp.fptr = m.fp.fptr /\ w.fp.fsize = m.fp.fsize
<1> DEFINE w == Abort(m, r)
           q == Marked(m, "ERROR")
<1>1. Holds(w) /\ Aborted(w) /\ w.res = r BY AbortOk
<1>2. Holds(q) BY FlagOk
<1>3. q.fp.fptr = m.fp.fptr /\ q.fp.fsize = m.fp.fsize
  BY <1>2 DEF Marked, Holds, Good, Machine, Fields, FileShape, FileFields
<1>4. w = Fail(q, r) BY DEF Abort
<1> HIDE DEF q, w
<1>5. Labelled(q, Fail(q, r)) BY <1>2, FailOk DEF Holds, Good
<1>6. w.fp = q.fp BY <1>4, <1>5 DEF Labelled, SameObjects
<1> QED BY <1>1, <1>3, <1>6 DEF w

(* The cluster of the pointer is found, or the call is aborted.            *)
Led(m, w) ==
  /\ Holds(w) /\ w.fp.fptr = m.fp.fptr /\ w.fp.fsize = m.fp.fsize
  /\ w.res = "OK" => w.fp.clust \in Cluster /\ ~Aborted(w)
  /\ w.res # "OK" => Aborted(w)

LEMMA ReadClusterOk ==
  ASSUME NEW m, Holds(m), ~Aborted(m), m.fp.fptr > 0 => m.fp.clust \in Cluster
  PROVE Led(m, ReadCluster(m))
<1> DEFINE c == m.fp.clust
           g == IF SectOf(m) # 0 THEN [m EXCEPT !.val = c]
                ELSE IF m.fp.fptr = 0 THEN [m EXCEPT !.val = m.fp.sclust]
                ELSE GetFat(m, c)
           w == ReadCluster(m)
<1>1. w = IF g.val < 2 THEN Abort(g, "INT_ERR")
          ELSE IF g.val = DiskErr THEN Abort(g, "DISK_ERR")
          ELSE IF g.val = EOC THEN Abort(SetClust(g, EOC), "INT_ERR")
          ELSE Ok(SetClust(g, g.val))
  BY DEF ReadCluster, After, SetClust
<1>2. m.fp.fptr \in Nat /\ m.fp.sclust \in MayBeNone BY DEF Holds, FileShape
<1>3. Stays(m, g) /\ Holds(g) /\ g.val \in FatLink
  <2>1. CASE SectOf(m) # 0
    <3>1. g = SetVal(m, c) BY <2>1 DEF SetVal
    <3>2. c \in FatLink BY <2>1, FileSector DEF FatLink
    <3> HIDE DEF g, c
    <3> QED BY <3>1, <3>2, ValHolds
  <2>2. CASE SectOf(m) = 0 /\ m.fp.fptr = 0
    <3>1. g = SetVal(m, m.fp.sclust) BY <2>2 DEF SetVal
    <3>2. m.fp.sclust \in FatLink BY <1>2, Links
    <3> DEFINE d == m.fp.sclust
    <3> HIDE DEF g, d
    <3>3. g = SetVal(m, d) /\ d \in FatLink BY <3>1, <3>2 DEF d
    <3> QED BY <3>3, ValHolds
  <2>3. CASE SectOf(m) = 0 /\ m.fp.fptr # 0
    <3>1. g = GetFat(m, c) BY <2>3
    <3>2. c \in Cluster BY <1>2, <2>3
    <3>3. GotFat(m, c, g) /\ Runs(m, g) BY <3>1, GetRuns DEF Holds
    <3> QED BY <3>2, <3>3, StaysOn DEF GotFat
  <2> QED BY <2>1, <2>2, <2>3
<1> HIDE DEF g, w
<1>4. ASSUME NEW a, NEW r, Holds(a), a.fp.fptr = m.fp.fptr, a.fp.fsize = m.fp.fsize, r # "OK"
      PROVE Led(m, Abort(a, r))
  BY <1>4, AbortKeeps DEF Led
<1>5. g.fp.fptr = m.fp.fptr /\ g.fp.fsize = m.fp.fsize /\ ~Aborted(g) BY <1>3 DEF Stays
<1> SUFFICES Led(m, w) BY DEF w
<1>6. CASE g.val < 2
  <2>1. w = Abort(g, "INT_ERR") BY <1>1, <1>6
  <2> QED BY <2>1, <1>3, <1>4, <1>5
<1>7. CASE ~(g.val < 2) /\ g.val = DiskErr BY <1>7, <1>3, Links
<1>8. CASE ~(g.val < 2) /\ g.val # DiskErr /\ g.val = EOC
  <2> DEFINE a == SetClust(g, EOC)
  <2>1. w = Abort(a, "INT_ERR") BY <1>1, <1>8
  <2>2. Holds(a) /\ a.fp.fptr = g.fp.fptr /\ a.fp.fsize = g.fp.fsize BY <1>3, SetClustOk
  <2> HIDE DEF a
  <2> QED BY <2>1, <2>2, <1>4, <1>5
<1>9. CASE ~(g.val < 2) /\ g.val # DiskErr /\ g.val # EOC
  <2> DEFINE a == SetClust(g, g.val)
  <2>1. w = Ok(a) BY <1>1, <1>9
  <2>2. g.val \in Cluster BY <1>3, <1>9 DEF FatLink
  <2>3. Holds(a) /\ a.fp.fptr = g.fp.fptr /\ a.fp.fsize = g.fp.fsize /\ a.fp.clust = g.val
        /\ (Aborted(a) <=> Aborted(g))
    BY <1>3, SetClustOk
  <2> HIDE DEF a
  <2>4. Stays(a, Ok(a)) /\ Ok(a).res = "OK" BY <2>3, FailHolds
  <2> QED BY <2>1, <2>2, <2>3, <2>4, <1>5 DEF Led, Stays
<1> QED BY <1>6, <1>7, <1>8, <1>9

(* f_read stays within the file.                                           *)
ReadInv(p, k, y) ==
  /\ LoopOk(y) /\ "btr" \in DOMAIN y /\ y.btr \in Nat /\ Holds(y.m)
  /\ ~Aborted(y.m) => /\ y.m.fp.fptr + y.btr <= y.m.fp.fsize
                      /\ y.m.fp.fptr > 0 => y.m.fp.clust \in Cluster
  /\ y.on => ~Aborted(y.m)
ReadingLoop == INSTANCE LoopProofs WITH Body <- ReadSome, Inv <- ReadInv

LEMMA TakenOk ==
  ASSUME NEW p, NEW k, NEW x, NEW a, NEW n \in Nat, NEW bytes,
         LoopOk(x), "btr" \in DOMAIN x, x.on, x.btr \in Nat, n <= x.btr,
         Holds(a), ~Aborted(a), a.fp.clust \in Cluster, a.fp.fptr + x.btr <= a.fp.fsize
  PROVE ReadInv(p, k, Taken(x, a, n, bytes))
<1> DEFINE y == Taken(x, a, n, bytes)
           b == [a EXCEPT !.out = @ \o bytes]
           f == [b.fp EXCEPT !.fptr = @ + n]
           c == FpPut(b, f)
<1>1. LoopOk(y) /\ "btr" \in DOMAIN y /\ y.on /\ y.btr = x.btr - n /\ y.m = c
  BY DEF Taken, LoopOk, Advanced, FpPut
<1>2. Labelled(a, b)
  <2>1. Machine(b) /\ SameVol(a, b) /\ SameObjects(a, b)
    BY DEF Holds, Good, Machine, Fields, SameVol, SameInfo, SameObjects
  <2> QED BY <2>1, LabelOk DEF Holds, Good
<1> HIDE DEF b, y
<1>3. Good(b) /\ b.fp = a.fp BY <1>2 DEF Labelled, SameObjects, Holds
<1>4. FileShape(a.fp) BY DEF Holds
<1>5. /\ FileShape(f) /\ f.fptr = a.fp.fptr + n /\ f.fsize = a.fp.fsize
      /\ f.clust = a.fp.clust /\ f.flag = a.fp.flag
  BY <1>3, <1>4 DEF FileShape, FileFields
<1> HIDE DEF f
<1>6. Good(c) /\ c.fp = f BY <1>3, FpPutOk
<1> HIDE DEF c
<1>7. a.fp.fptr \in Nat /\ a.fp.fsize \in Nat BY <1>4 DEF FileShape
<1>8. y.btr \in Nat /\ c.fp.fptr + y.btr <= c.fp.fsize BY <1>1, <1>5, <1>6, <1>7
<1> QED BY <1>1, <1>5, <1>6, <1>8 DEF ReadInv, Holds, Aborted, y

LEMMA CachePart ==                \* what of a sector is copied at once
  ASSUME NEW o, NEW b \in Nat, o \in 0..SS - 1
  PROVE Min2(SS - o, b) \in Nat /\ Min2(SS - o, b) <= b /\ Min2(SS - o, b) <= SS - o
BY Geometry DEF Min2

LEMMA ReadCacheOk ==
  ASSUME NEW p, NEW k, NEW x, NEW a,
         LoopOk(x), "btr" \in DOMAIN x, x.on, x.btr \in Nat,
         Holds(a), ~Aborted(a), a.fp.clust \in Cluster, a.fp.fptr + x.btr <= a.fp.fsize
  PROVE ReadInv(p, k, FromCache(x, a))
<1> DEFINE o == a.fp.fptr % SS
           n == Min2(SS - o, x.btr)
           bytes == SubSeq(a.fp.buf, o + 1, o + n)
<1>1. a.fp.fptr \in Nat BY DEF Holds, FileShape
<1>2. o \in 0..SS - 1 BY <1>1, DivMod, Geometry
<1>3. FromCache(x, a) = Taken(x, a, n, bytes) BY DEF FromCache
<1> HIDE DEF o
<1>4. n \in Nat /\ n <= x.btr BY <1>2, CachePart
<1> HIDE DEF n, bytes
<1> QED BY <1>3, <1>4, TakenOk

LEMMA WholeSectors ==             \* as many as are asked for, within a cluster
  ASSUME NEW m, NEW n \in Nat, Holds(m), Contiguous(m, n) > 0
  PROVE LET cc == Contiguous(m, n)
        IN cc \in Nat \ {0} /\ SS * cc \in Nat /\ SS * cc <= n /\ SectOf(m) + cc <= CSize
<1> DEFINE cc == Contiguous(m, n)
           q == n \div SS
           r == n % SS
<1>1. SectOf(m) \in 0..CSize - 1 BY FileSector
<1>2. q \in Nat /\ r \in Nat /\ n = SS * q + r
  <2>1. q \in Nat /\ r \in 0..SS - 1 /\ n = SS * q + r BY DivMod, Geometry
  <2> QED BY <2>1, Geometry
<1>3. cc = Min2(q, CSize - SectOf(m)) BY DEF Contiguous
<1> HIDE DEF q, r
<1>4. cc \in Int /\ cc <= q /\ SectOf(m) + cc <= CSize BY <1>1, <1>2, <1>3, Geometry DEF Min2
<1> HIDE DEF cc
<1>5. cc \in Nat \ {0} BY <1>4 DEF cc
<1>6. cc * SS <= q * SS /\ SS * cc \in Nat /\ cc * SS = SS * cc /\ q * SS = SS * q /\ SS * q \in Nat
  BY <1>2, <1>4, <1>5, Times, Geometry
<1>7. SS * cc <= n BY <1>2, <1>6
<1> QED BY <1>4, <1>5, <1>6, <1>7 DEF cc

LEMMA ReadSectorOk ==
  ASSUME NEW p, NEW k, NEW x, NEW g,
         LoopOk(x), "btr" \in DOMAIN x, x.on, x.btr \in Nat,
         Holds(g), ~Aborted(g), g.fp.clust \in Cluster, g.fp.fptr + x.btr <= g.fp.fsize
  PROVE ReadInv(p, k, FromSector(x, g))
<1> DEFINE s == Clust2Sect(g.fp.clust) + SectOf(g)
           cc == Contiguous(g, x.btr)
           a == Access(g)
           b == CacheForRead(g, s)
           y == FromSector(x, g)
           bytes == SectorsOf(a, s, cc)
<1>1. s \in Tables BY FileSector
<1>2. Stays(g, a) /\ a.res = "OK"
  <2>1. Machine(a) /\ SameVol(g, a) /\ SameObjects(g, a) /\ a.res = "OK"
    BY AccessOk DEF Holds, Good
  <2>2. Labelled(g, a) BY <2>1, LabelOk DEF Holds, Good
  <2> QED BY <2>1, <2>2, StaysOn
<1>3. Cached(g, b) BY <1>1, CacheOk
<1>4. y = IF cc > 0 THEN Taken(x, a, SS * cc, bytes) ELSE FromCache(x, b)
  BY <1>2, <1>3 DEF FromSector, OnOk, OrAbort, Cached
<1> HIDE DEF s, a, b, y, bytes
<1> SUFFICES ReadInv(p, k, y) BY DEF y
<1>5. CASE cc > 0
  <2>1. SS * cc \in Nat /\ SS * cc <= x.btr BY <1>5, WholeSectors
  <2> DEFINE n == SS * cc
  <2>2. n \in Nat /\ n <= x.btr BY <2>1
  <2>3. y = Taken(x, a, n, bytes) BY <1>4, <1>5
  <2> HIDE DEF n
  <2>4. Holds(a) /\ ~Aborted(a) /\ a.fp.clust \in Cluster /\ a.fp.fptr + x.btr <= a.fp.fsize
    BY <1>2 DEF Stays
  <2> QED BY <2>2, <2>3, <2>4, TakenOk
<1>6. CASE ~(cc > 0)
  <2>1. y = FromCache(x, b) BY <1>4, <1>6
  <2>2. Holds(b) /\ ~Aborted(b) /\ b.fp.clust \in Cluster /\ b.fp.fptr + x.btr <= b.fp.fsize
    BY <1>3 DEF Stays, Cached
  <2> QED BY <2>1, <2>2, ReadCacheOk
<1> QED BY <1>5, <1>6

LEMMA ReadSomeOk ==
  ASSUME NEW p, NEW k \in Nat, NEW x, ReadInv(p, k, x), x.on
  PROVE ReadInv(p, k + 1, ReadSome(x))
<1> DEFINE m == x.m
           g == ReadCluster(m)
           y == ReadSome(x)
<1>1. /\ LoopOk(x) /\ "btr" \in DOMAIN x /\ x.btr \in Nat /\ Holds(m) /\ ~Aborted(m)
      /\ m.fp.fptr + x.btr <= m.fp.fsize /\ (m.fp.fptr > 0 => m.fp.clust \in Cluster)
      /\ m.fp.fptr \in Nat
  BY DEF ReadInv, Holds, FileShape
<1>2. y = IF x.btr = 0 THEN Stop(x, Ok(m))
          ELSE IF AtSector(m) THEN IF g.res = "OK" THEN FromSector(x, g) ELSE Stop(x, g)
          ELSE FromCache(x, m)
  BY DEF ReadSome, OnOk
<1>3. \A a : /\ LoopOk(Stop(x, a)) /\ "btr" \in DOMAIN Stop(x, a) /\ Stop(x, a).btr = x.btr
             /\ ~Stop(x, a).on /\ Stop(x, a).m = a
  BY <1>1 DEF Stop, LoopOk
<1> HIDE DEF y
<1> SUFFICES ReadInv(p, k + 1, y) BY DEF y
<1>4. CASE x.btr = 0
  <2>1. Stays(m, Ok(m)) BY <1>1, FailHolds
  <2> DEFINE z == Stop(x, Ok(m))
  <2>2. y = z BY <1>2, <1>4
  <2>3. LoopOk(z) /\ "btr" \in DOMAIN z /\ z.btr = x.btr /\ ~z.on /\ z.m = Ok(m) BY <1>3
  <2> HIDE DEF z
  <2> QED BY <1>1, <2>1, <2>2, <2>3 DEF ReadInv, Stays
<1>5. CASE x.btr # 0 /\ AtSector(m)
  <2>1. Led(m, g) BY <1>1, ReadClusterOk
  <2> HIDE DEF g
  <2>2. CASE g.res = "OK"
    <3>1. y = FromSector(x, g) BY <1>2, <1>5, <2>2
    <3>2. Holds(g) /\ ~Aborted(g) /\ g.fp.clust \in Cluster /\ g.fp.fptr + x.btr <= g.fp.fsize
      BY <1>1, <2>1, <2>2 DEF Led
    <3> QED BY <1>1, <3>1, <3>2, ReadSectorOk
  <2>3. CASE g.res # "OK"
    <3> DEFINE z == Stop(x, g)
    <3>1. y = z BY <1>2, <1>5, <2>3
    <3>2. LoopOk(z) /\ "btr" \in DOMAIN z /\ z.btr = x.btr /\ ~z.on /\ z.m = g BY <1>3
    <3> HIDE DEF z
    <3> QED BY <1>1, <2>1, <2>3, <3>1, <3>2 DEF ReadInv, Led
  <2> QED BY <2>2, <2>3
<1>6. CASE x.btr # 0 /\ ~AtSector(m)
  <2>1. m.fp.fptr > 0
    <3>1. (SS * 0 + 0) % SS = 0 /\ SS * 0 + 0 = 0 BY DivModOf, Geometry
    <3> QED BY <1>1, <1>6, <3>1 DEF AtSector
  <2>2. y = FromCache(x, m) BY <1>2, <1>6
  <2> QED BY <1>1, <2>1, <2>2, ReadCacheOk
<1> QED BY <1>4, <1>5, <1>6

LEMMA FitResult ==
  ASSUME NEW x, Fit(x.m)
  PROVE Fit(Result(x)) /\ (~x.on => Result(x) = x.m)
<1>1. Stays(x.m, Fail(x.m, "INT_ERR")) BY FailHolds DEF Fit
<1> QED BY <1>1, StaysOn DEF Result

LEMMA FailFit ==
  ASSUME NEW m, NEW r, Fit(m)
  PROVE Fit(Fail(m, r)) /\ Fit(Ok(m))
<1>1. Stays(m, Fail(m, r)) /\ Stays(m, Ok(m)) BY FailHolds DEF Fit
<1> QED BY <1>1, StaysOn

LEMMA ReadFit ==
  ASSUME NEW m, NEW btr \in Nat, Fit(m)
  PROVE Fit(FRead(m, btr))
<1> DEFINE b == Min2(btr, m.fp.fsize - m.fp.fptr)
           x == [on |-> TRUE, m |-> m, btr |-> b]
           n == b + 1
           y == While(ReadSome, x, n)
<1>1. CASE Aborted(m) \/ "READ" \notin m.fp.flag
  <2>1. FRead(m, btr) = Fail(m, "INT_ERR") \/ FRead(m, btr) = Fail(m, "DENIED")
    BY <1>1 DEF FRead, Aborted
  <2> QED BY <2>1, FailFit
<1>2. CASE ~Aborted(m) /\ "READ" \in m.fp.flag
  <2>1. FRead(m, btr) = Result(y) BY <1>2 DEF FRead, ReadOn, Aborted
  <2>2. m.fp.fptr \in Nat /\ m.fp.fsize \in Nat /\ InFile(m.fp) /\ Holds(m)
    BY <1>2 DEF Fit, Holds, FileShape
  <2>3. b \in Nat /\ m.fp.fptr + b <= m.fp.fsize BY <2>2 DEF InFile, Min2
  <2> HIDE DEF b
  <2>4. ReadInv(m, 0, x) BY <1>2, <2>2, <2>3 DEF ReadInv, LoopOk, InFile
  <2>5. n \in Nat BY <2>3
  <2> HIDE DEF x, n
  <2>6. ASSUME NEW k \in Nat, NEW u, ReadInv(m, k, u) PROVE ReadInv(m, k + 1, Round(ReadSome, u))
    <3>1. CASE u.on BY <2>6, <3>1, ReadSomeOk DEF Round
    <3>2. CASE ~u.on BY <2>6, <3>2 DEF Round, ReadInv
    <3> QED BY <3>1, <3>2
  <2>7. ReadInv(m, n, ReadingLoop!While(ReadSome, x, n))
    BY <2>4, <2>5, <2>6, SetInduction, ReadingLoop!WhileKeeps DEF Round, ReadingLoop!Round
  <2>8. ReadInv(m, n, y) BY <2>7 DEF While, ReadingLoop!While, Round, ReadingLoop!Round
  <2> HIDE DEF y
  <2>9. y.m.fp.fptr \in Nat /\ y.m.fp.fsize \in Nat BY <2>8 DEF ReadInv, Holds, FileShape
  <2>10. Fit(y.m) BY <2>8, <2>9 DEF ReadInv, Fit, InFile
  <2> QED BY <2>1, <2>10, FitResult
<1> QED BY <1>1, <1>2

(* f_write: the cluster of the pointer, an old one or a new one.           *)
SetSclust(m, c) == [m EXCEPT !.fp.sclust = c]
LEMMA SetSclustOk ==
  ASSUME NEW m, NEW c \in MayBeNone, Holds(m)
  PROVE LET w == SetSclust(m, c)
        IN /\ Holds(w) /\ w.fp.fptr = m.fp.fptr /\ w.fp.fsize = m.fp.fsize
           /\ w.fp.clust = m.fp.clust /\ w.fp.sclust = c /\ (Aborted(w) <=> Aborted(m))
           /\ w.res = m.res /\ w.val = m.val
<1> DEFINE f == [m.fp EXCEPT !.sclust = c]
<1>1. SetSclust(m, c) = FpPut(m, f) BY DEF FpPut, SetSclust
<1>2. Good(m) /\ FileShape(m.fp) BY DEF Holds
<1>3. /\ FileShape(f) /\ f.fptr = m.fp.fptr /\ f.fsize = m.fp.fsize /\ f.clust = m.fp.clust
      /\ f.sclust = c /\ f.flag = m.fp.flag
  BY <1>2 DEF FileShape, FileFields
<1> HIDE DEF f
<1>4. Good(FpPut(m, f)) /\ FpPut(m, f).fp = f /\ FpPut(m, f).res = m.res /\ FpPut(m, f).val = m.val
  BY <1>2, FpPutOk
<1> QED BY <1>1, <1>3, <1>4 DEF Holds, Aborted

Ready(m, w) ==
  /\ Holds(w) /\ w.fp.fptr = m.fp.fptr /\ w.fp.fsize = m.fp.fsize
  /\ w.res = "OK" => /\ ~Aborted(w)
                     /\ w.val # 0 => w.fp.clust \in Cluster
                     /\ w.val = 0 => w.fp.clust = m.fp.clust
  /\ w.res # "OK" => Aborted(w)

LEMMA WriteClusterOk ==
  ASSUME NEW m, Holds(m), ~Aborted(m), m.fp.fptr > 0 => m.fp.clust \in Cluster
  PROVE Ready(m, WriteCluster(m))
<1> DEFINE c == m.fp.clust
           b == m.fp.sclust
           new == CreateChain(m, 0)
           g == IF SectOf(m) # 0 THEN SetVal(m, c)
                ELSE IF m.fp.fptr # 0 THEN CreateChain(m, c)
                ELSE IF b # 0 THEN SetVal(m, b)
                ELSE SetSclust(new, new.val)
           a == SetClust(g, g.val)
           s == FlushBuf(a)
           w == WriteCluster(m)
<1>1. w = IF g.val = 0 THEN Ok(g)
          ELSE IF Trouble(g.val) # "OK" THEN Abort(g, Trouble(g.val))
          ELSE IF s.res = "OK" THEN s ELSE Abort(s, s.res)
  BY DEF WriteCluster, After, SetClust, SetVal, SetSclust, OrAbort
<1>2. m.fp.fptr \in Nat /\ b \in MayBeNone BY DEF Holds, FileShape
<1> HIDE DEF w
<1>3. /\ Holds(g) /\ g.fp.fptr = m.fp.fptr /\ g.fp.fsize = m.fp.fsize /\ g.fp.clust = c
      /\ ~Aborted(g) /\ g.val \in {0, 1} \union Cluster
  <2> HIDE DEF s, a
  <2>1. CASE SectOf(m) # 0
    <3>1. g = SetVal(m, c) BY <2>1
    <3>2. c \in Cluster BY <2>1, FileSector
    <3> HIDE DEF g, c
    <3>3. Stays(m, g) /\ g.val = c BY <3>1, ValHolds
    <3> QED BY <3>2, <3>3 DEF Stays, c
  <2>2. CASE SectOf(m) = 0 /\ m.fp.fptr # 0
    <3>1. g = CreateChain(m, c) BY <2>2
    <3> HIDE DEF g, c
    <3>2. Chained(m, c, g) BY <3>1, CreateOk DEF Holds
    <3>3. Stays(m, g) BY <3>2, StaysOn DEF Chained
    <3> QED BY <3>2, <3>3 DEF Stays, Chained, c
  <2>3. CASE SectOf(m) = 0 /\ m.fp.fptr = 0 /\ b # 0
    <3>1. g = SetVal(m, b) BY <2>3
    <3>2. b \in Cluster BY <2>3, <1>2 DEF MayBeNone
    <3> HIDE DEF g, b
    <3>3. Stays(m, g) /\ g.val = b BY <3>1, ValHolds
    <3> QED BY <3>2, <3>3 DEF Stays
  <2>4. CASE SectOf(m) = 0 /\ m.fp.fptr = 0 /\ b = 0
    <3>1. g = SetSclust(new, new.val) BY <2>4
    <3> DEFINE v == new.val
    <3>2. Chained(m, 0, new) BY CreateOk DEF Holds
    <3> HIDE DEF new
    <3>3. Stays(m, new) /\ v \in MayBeNone BY <3>2, StaysOn DEF Chained, MayBeNone
    <3> HIDE DEF g
    <3>4. g = SetSclust(new, v) BY <3>1
    <3>5. v = new.val OBVIOUS
    <3> HIDE DEF v
    <3>6. Holds(g) /\ g.fp.fptr = new.fp.fptr /\ g.fp.fsize = new.fp.fsize /\ g.fp.clust = new.fp.clust
          /\ (Aborted(g) <=> Aborted(new)) /\ g.val = new.val
      BY <3>3, <3>4, SetSclustOk DEF Stays
    <3> QED BY <3>2, <3>3, <3>5, <3>6 DEF Stays, MayBeNone
  <2> QED BY <2>1, <2>2, <2>3, <2>4
<1> HIDE DEF g
<1> SUFFICES Ready(m, w) BY DEF w
<1>4. CASE g.val = 0
  <2>1. w = Ok(g) BY <1>1, <1>4
  <2>2. Stays(g, Ok(g)) /\ Ok(g).res = "OK" /\ Ok(g).val = g.val BY <1>3, FailHolds
  <2> QED BY <1>3, <1>4, <2>1, <2>2 DEF Ready, Stays
<1>5. CASE g.val # 0 /\ Trouble(g.val) # "OK"
  <2> DEFINE r == Trouble(g.val)
  <2>1. w = Abort(g, r) /\ r # "OK" BY <1>1, <1>5
  <2> HIDE DEF r
  <2> QED BY <1>3, <2>1, AbortKeeps DEF Ready
<1>6. CASE g.val # 0 /\ Trouble(g.val) = "OK"
  <2>1. g.val \in Cluster
    <3>1. g.val # 1 BY <1>6, TroubleOf
    <3> QED BY <1>3, <1>6, <3>1
  <2>2. /\ Holds(a) /\ a.fp.fptr = g.fp.fptr /\ a.fp.fsize = g.fp.fsize
        /\ a.fp.clust = g.val /\ (Aborted(a) <=> Aborted(g)) /\ a.val = g.val
    BY <1>3, SetClustOk
  <2> HIDE DEF a
  <2>3. Stays(a, s) /\ s.res = "OK" /\ s.val = a.val BY <2>2, FlushOk
  <2> HIDE DEF s
  <2>4. w = s BY <1>1, <1>6, <2>3
  <2> QED BY <1>3, <1>6, <2>1, <2>2, <2>3, <2>4 DEF Ready, Stays
<1> QED BY <1>4, <1>5, <1>6

(* Whole sectors are written past the cache, which must not go stale.      *)
LEMMA Slice ==
  ASSUME NEW B, NEW y \in Seq(B), \A e \in B : EntryOk(e),
         NEW k \in Nat, NEW n \in Nat, k < n, SS * n <= Len(y)
  PROVE TableOk(SubSeq(y, SS * k + 1, SS * (k + 1)))
<1> DEFINE a == SS * k
           z == SS * (k + 1)
           q == SS * n
           t == SubSeq(y, a + 1, z)
<1>1. a \in Nat /\ z \in Nat /\ q \in Nat /\ z = a + SS /\ z <= q
  <2>1. k + 1 \in Nat /\ k + 1 <= n OBVIOUS
  <2>2. k * SS \in Nat /\ SS * k = k * SS /\ (k + 1) * SS = k * SS + SS /\ SS * (k + 1) = (k + 1) * SS
        /\ (k + 1) * SS <= n * SS /\ SS * n = n * SS /\ SS * n \in Nat
    BY <2>1, Times, Geometry
  <2> QED BY <2>2, Geometry
<1> HIDE DEF a, z, q
<1>2. q <= Len(y) BY DEF q
<1>3. a + 1 \in Int /\ z \in Int /\ \A i \in a + 1..z : y[i] \in B BY <1>1, <1>2
<1> DEFINE b == a + 1
<1>4. b = a + 1 OBVIOUS
<1> HIDE DEF b
<1>5. t = SubSeq(y, b, z) BY <1>4
<1>6. b \in Int /\ z \in Int /\ \A i \in b..z : y[i] \in B BY <1>3, <1>4
<1> HIDE DEF t
<1>7. t \in Seq(B) /\ Len(t) = (IF b <= z THEN z - b + 1 ELSE 0)
  <2> DEFINE u == SubSeq(y, b, z)
  <2>1. u \in Seq(B) /\ Len(u) = IF b <= z THEN z - b + 1 ELSE 0
    BY <1>6, SubSeqProperties, Zenon
  <2> QED BY <1>5, <2>1
<1>8. Len(t) = SS BY <1>1, <1>4, <1>7, Geometry
<1>9. DOMAIN t = 1..SS /\ \A i \in 1..SS : t[i] \in B BY <1>7, <1>8
<1>10. TableOk(t) BY <1>9 DEF TableOk
<1> QED BY <1>10 DEF t, a, z

SetBuf(m, t) == [m EXCEPT !.fp.buf = t]
LEMMA SetBufOk ==
  ASSUME NEW m, NEW t, Holds(m), TableOk(t)
  PROVE LET w == SetBuf(m, t) IN Stays(m, w) /\ w.res = m.res /\ w.val = m.val
<1> DEFINE f == [m.fp EXCEPT !.buf = t]
<1>1. SetBuf(m, t) = FpPut(m, f) BY DEF FpPut, SetBuf
<1>2. Good(m) /\ FileShape(m.fp) BY DEF Holds
<1>3. /\ FileShape(f) /\ f.fptr = m.fp.fptr /\ f.fsize = m.fp.fsize /\ f.clust = m.fp.clust
      /\ f.sclust = m.fp.sclust /\ f.flag = m.fp.flag
  BY <1>2 DEF FileShape, FileFields
<1> HIDE DEF f
<1>4. Good(FpPut(m, f)) /\ FpPut(m, f).fp = f /\ FpPut(m, f).res = m.res /\ FpPut(m, f).val = m.val
  BY <1>2, FpPutOk
<1> QED BY <1>1, <1>3, <1>4 DEF Stays, Holds, Aborted

LEMMA WriteSectorsOk ==
  ASSUME NEW m, NEW s \in Nat, NEW n \in Nat \ {0}, NEW B, NEW y \in Seq(B), \A e \in B : EntryOk(e),
         SS * n <= Len(y), \A t \in s..s + n - 1 : t \in Tables, Holds(m)
  PROVE Cached(m, WriteSectors(m, s, n, y))
<1> DEFINE From(k) == SubSeq(y, SS * k + 1, SS * (k + 1))
           a == Access(m)
           d == [k \in DOMAIN a.disk |-> IF k \in s..s + n - 1 THEN From(k - s) ELSE a.disk[k]]
           b == [a EXCEPT !.disk = d]
           w == WriteSectors(m, s, n, y)
<1>1. \A t \in s..s + n - 1 : TableOk(From(t - s))
  <2> TAKE t \in s..s + n - 1
  <2> DEFINE k == t - s
  <2>1. k \in Nat /\ k < n OBVIOUS
  <2> HIDE DEF k
  <2>2. TableOk(SubSeq(y, SS * k + 1, SS * (k + 1))) BY <2>1, Slice
  <2> QED BY <2>2 DEF k
<1>2. Machine(a) /\ SameVol(m, a) /\ SameObjects(m, a) /\ a.res = "OK"
  BY AccessOk DEF Holds, Good
<1>3. Good(m) /\ DiskOk(m.disk) BY DEF Holds, Good, VolOk, BaseOk
<1>4. /\ Machine(b) /\ b.disk = d /\ b.res = "OK" /\ SameInfo(a, b) /\ SameObjects(a, b)
      /\ b.win = a.win /\ b.winsect = a.winsect /\ b.wflag = a.wflag
  BY <1>2 DEF Machine, Fields, SameInfo, SameObjects
<1>5. DOMAIN d = DOMAIN m.disk BY <1>2 DEF SameVol
<1>6. \A t \in Tables : TableOk(d[t])
  <2> HIDE DEF From
  <2>1. \A t \in Tables : t \in DOMAIN m.disk /\ TableOk(m.disk[t]) BY <1>3, Sectors DEF DiskOk
  <2> QED BY <1>1, <1>2, <2>1 DEF SameVol
<1>7. \A t \in DOMAIN m.disk : t \notin Tables => d[t] = m.disk[t]
  <2> HIDE DEF From
  <2> QED BY <1>2 DEF SameVol
<1>8. w = IF b.res = "OK"
          THEN IF b.fp.dsect \in s..s + n - 1
               THEN Unmarked(SetBuf(b, From(b.fp.dsect - s)), "DIRTY") ELSE b
          ELSE LET o == Abort(b, b.res)
               IN IF o.res = "OK"
                  THEN IF m.fp.dsect \in s..s + n - 1
                       THEN Unmarked([o EXCEPT !.fp.buf = From(o.fp.dsect - s)], "DIRTY") ELSE o
                  ELSE o
  <2> HIDE DEF From
  <2>1. b.fp = m.fp BY <1>2, <1>4 DEF SameObjects
  <2> QED BY <1>2, <1>4, <2>1 DEF WriteSectors, Then, OrAbort, SetBuf, From
<1> HIDE DEF a, b, d, w
<1>9. Good(b)
  <2>1. SameInfo(m, b) BY <1>2, <1>4 DEF SameVol, SameInfo
  <2> QED BY <1>2, <1>3, <1>4, <1>5, <1>6, <1>7, <2>1, TableWritten DEF SameVol
<1>10. Stays(m, b)
  <2>1. SameObjects(m, b) BY <1>2, <1>4 DEF SameObjects
  <2> QED BY <1>9, <2>1, StaysOn DEF Runs
<1> SUFFICES Cached(m, w) BY DEF w
<1>11. CASE b.fp.dsect \in s..s + n - 1
  <2> DEFINE t == From(b.fp.dsect - s)
             e == SetBuf(b, t)
             u == Unmarked(e, "DIRTY")
  <2>1. w = u BY <1>4, <1>8, <1>11
  <2>2. TableOk(t) BY <1>1, <1>11
  <2> HIDE DEF t
  <2>3. Stays(b, e) /\ e.res = b.res BY <1>10, <2>2, SetBufOk, StaysOn
  <2> HIDE DEF e
  <2>4. Stays(e, u) /\ u.res = e.res BY <2>3, FlagOk, StaysOn
  <2> HIDE DEF u
  <2> QED BY <1>4, <1>10, <2>1, <2>3, <2>4, StaysOn DEF Cached
<1>12. CASE b.fp.dsect \notin s..s + n - 1
  <2>1. w = b BY <1>4, <1>8, <1>12
  <2> QED BY <1>4, <1>10, <2>1 DEF Cached
<1> QED BY <1>11, <1>12

LEMMA AdvancedOk ==
  ASSUME NEW m, NEW n \in Nat, Holds(m)
  PROVE LET w == Advanced(m, n)
        IN /\ Holds(w) /\ w.fp.fptr = m.fp.fptr + n /\ w.fp.fsize = m.fp.fsize
           /\ w.fp.clust = m.fp.clust /\ w.fp.sclust = m.fp.sclust
           /\ (Aborted(w) <=> Aborted(m)) /\ w.res = m.res /\ w.val = m.val
<1> DEFINE f == [m.fp EXCEPT !.fptr = @ + n]
<1>1. Advanced(m, n) = FpPut(m, f) BY DEF FpPut, Advanced
<1>2. Good(m) /\ FileShape(m.fp) BY DEF Holds
<1>3. /\ FileShape(f) /\ f.fptr = m.fp.fptr + n /\ f.fsize = m.fp.fsize /\ f.clust = m.fp.clust
      /\ f.sclust = m.fp.sclust /\ f.flag = m.fp.flag
  BY <1>2 DEF FileShape, FileFields
<1> HIDE DEF f
<1>4. Good(FpPut(m, f)) /\ FpPut(m, f).fp = f /\ FpPut(m, f).res = m.res /\ FpPut(m, f).val = m.val
  BY <1>2, FpPutOk
<1> QED BY <1>1, <1>3, <1>4 DEF Holds, Aborted

SetSize(m, n) == [m EXCEPT !.fp.fsize = n]
LEMMA SetSizeOk ==
  ASSUME NEW m, NEW n \in Nat, Holds(m)
  PROVE LET w == SetSize(m, n)
        IN /\ Holds(w) /\ w.fp.fptr = m.fp.fptr /\ w.fp.fsize = n
           /\ w.fp.clust = m.fp.clust /\ w.fp.sclust = m.fp.sclust
           /\ (Aborted(w) <=> Aborted(m)) /\ w.res = m.res /\ w.val = m.val
<1> DEFINE f == [m.fp EXCEPT !.fsize = n]
<1>1. SetSize(m, n) = FpPut(m, f) BY DEF FpPut, SetSize
<1>2. Good(m) /\ FileShape(m.fp) BY DEF Holds
<1>3. /\ FileShape(f) /\ f.fptr = m.fp.fptr /\ f.fsize = n /\ f.clust = m.fp.clust
      /\ f.sclust = m.fp.sclust /\ f.flag = m.fp.flag
  BY <1>2 DEF FileShape, FileFields
<1> HIDE DEF f
<1>4. Good(FpPut(m, f)) /\ FpPut(m, f).fp = f /\ FpPut(m, f).res = m.res /\ FpPut(m, f).val = m.val
  BY <1>2, FpPutOk
<1> QED BY <1>1, <1>3, <1>4 DEF Holds, Aborted

(* f_write: the call goes on as long as nothing has failed.                *)
WriteInv(p, k, y) ==
  /\ \A e \in p : EntryOk(e)
  /\ LoopOk(y) /\ "w" \in DOMAIN y /\ y.w \in Seq(p) /\ Holds(y.m)
  /\ y.m.res = "OK" => ~Aborted(y.m) /\ (y.m.fp.fptr > 0 => y.m.fp.clust \in Cluster)
  /\ y.m.res # "OK" => Aborted(y.m)
  /\ y.on => y.m.res = "OK"
WritingLoop == INSTANCE LoopProofs WITH Body <- WriteSome, Inv <- WriteInv

LEMMA Shorter ==
  ASSUME NEW B, NEW y \in Seq(B), NEW n \in Nat
  PROVE SubSeq(y, n + 1, Len(y)) \in Seq(B)
<1> DEFINE a == n + 1
           z == Len(y)
<1>1. a \in Int /\ z \in Int /\ \A i \in a..z : y[i] \in B OBVIOUS
<1> HIDE DEF a, z
<1>2. SubSeq(y, a, z) \in Seq(B) BY <1>1, SubSeqProperties, Zenon
<1> QED BY <1>2 DEF a, z

LEMMA GivenOk ==
  ASSUME NEW B, NEW k, NEW x, NEW a, NEW n \in Nat, \A e \in B : EntryOk(e),
         LoopOk(x), "w" \in DOMAIN x, x.on, x.w \in Seq(B),
         Holds(a), ~Aborted(a), a.res = "OK", a.fp.clust \in Cluster
  PROVE WriteInv(B, k, Given(x, a, n))
<1> DEFINE y == Given(x, a, n)
           b == Advanced(a, n)
           u == SubSeq(x.w, n + 1, Len(x.w))
<1>1. LoopOk(y) /\ "w" \in DOMAIN y /\ y.on /\ y.w = u /\ y.m = b BY DEF Given, LoopOk
<1>2. u \in Seq(B) BY Shorter
<1>3. Holds(b) /\ b.fp.clust = a.fp.clust /\ (Aborted(b) <=> Aborted(a)) /\ b.res = a.res
  BY AdvancedOk
<1> HIDE DEF y, b, u
<1>4. WriteInv(B, k, y) BY <1>1, <1>2, <1>3 DEF WriteInv
<1> QED BY <1>4 DEF y

LEMMA WriteCacheOk ==
  ASSUME NEW B, NEW k, NEW x, NEW a, \A e \in B : EntryOk(e),
         LoopOk(x), "w" \in DOMAIN x, x.on, x.w \in Seq(B),
         Holds(a), ~Aborted(a), a.res = "OK", a.fp.clust \in Cluster
  PROVE WriteInv(B, k, IntoCache(x, a))
<1> DEFINE o == a.fp.fptr % SS
           l == Len(x.w)
           n == Min2(SS - o, l)
           t == [i \in 1..SS |-> IF i \in o + 1..o + n THEN x.w[i - o] ELSE a.fp.buf[i]]
           b == SetBuf(a, t)
           c == Marked(b, "DIRTY")
           y == IntoCache(x, a)
<1>1. a.fp.fptr \in Nat /\ TableOk(a.fp.buf) BY DEF Holds, FileShape
<1>2. o \in 0..SS - 1 BY <1>1, DivMod, Geometry
<1>3. l \in Nat OBVIOUS
<1>4. y = Given(x, c, n)
  <2>1. "buf" \in DOMAIN a.fp /\ {"fp"} \subseteq DOMAIN a
    BY DEF Holds, FileShape, FileFields, Good, Machine, Fields
  <2>2. [a EXCEPT !.fp.buf = [i \in 1..SS |->
                        IF i \in o + 1..o + n THEN x.w[i - o] ELSE @[i]]] = b
    BY DEF SetBuf
  <2> QED BY <2>2 DEF IntoCache
<1> HIDE DEF o, l
<1>5. n \in Nat /\ n <= l BY <1>2, <1>3, CachePart
<1> HIDE DEF n
<1>6. TableOk(t)
  <2>1. DOMAIN t = 1..SS OBVIOUS
  <2> SUFFICES ASSUME NEW i \in 1..SS PROVE EntryOk(t[i]) BY <2>1 DEF TableOk
  <2>2. CASE i \in o + 1..o + n
    <3>1. i - o \in 1..l BY <1>2, <1>3, <1>5, <2>2, Geometry
    <3>2. x.w[i - o] \in B BY <3>1 DEF l
    <3> QED BY <2>2, <3>2
  <2>3. CASE i \notin o + 1..o + n BY <1>1, <2>3 DEF TableOk
  <2> QED BY <2>2, <2>3
<1> HIDE DEF t, y
<1>7. Stays(a, b) /\ b.res = a.res BY <1>6, SetBufOk
<1> HIDE DEF b
<1>8. Stays(b, c) /\ c.res = b.res BY <1>7, FlagOk, StaysOn
<1> HIDE DEF c
<1>9. Holds(c) /\ ~Aborted(c) /\ c.res = "OK" /\ c.fp.clust \in Cluster
  BY <1>7, <1>8 DEF Stays
<1>10. WriteInv(B, k, y) BY <1>4, <1>5, <1>9, GivenOk
<1> QED BY <1>10 DEF y

LEMMA SectorRun ==
  ASSUME NEW m, NEW n \in Nat, Holds(m), m.fp.clust \in Cluster, SectOf(m) + n <= CSize
  PROVE LET s == Clust2Sect(m.fp.clust) + SectOf(m)
        IN s \in Nat /\ \A t \in s..s + n - 1 : t \in Tables
<1> DEFINE b == Clust2Sect(m.fp.clust)
           o == SectOf(m)
           s == b + o
<1>1. o \in 0..CSize - 1 BY FileSector
<1>2. \A j \in 0..CSize - 1 : b + j \in Tables /\ b \in Nat BY ClusterPlace
<1> HIDE DEF b, o
<1>3. b \in Nat BY <1>1, <1>2
<1>4. \A t \in s..s + n - 1 : t \in Tables
  <2> TAKE t \in s..s + n - 1
  <2> DEFINE j == t - b
  <2>1. j \in 0..CSize - 1 /\ b + j = t BY <1>1, <1>3, Geometry DEF o
  <2> HIDE DEF j
  <2> QED BY <1>2, <2>1
<1>5. s \in Nat BY <1>1, <1>3, Geometry
<1> QED BY <1>4, <1>5 DEF b, o

LEMMA WriteSectorOk ==
  ASSUME NEW B, NEW k, NEW x, NEW g, \A e \in B : EntryOk(e),
         LoopOk(x), "w" \in DOMAIN x, x.on, x.w \in Seq(B),
         Holds(g), ~Aborted(g), g.res = "OK",
         g.val # 0 => g.fp.clust \in Cluster,
         g.val = 0 /\ g.fp.fptr > 0 => g.fp.clust \in Cluster
  PROVE WriteInv(B, k, IntoSector(x, g))
<1> DEFINE s == Clust2Sect(g.fp.clust) + SectOf(g)
           l == Len(x.w)
           cc == Contiguous(g, l)
           n == SS * cc
           a == WriteSectors(g, s, cc, x.w)
           b == CacheForWrite(g, s)
           z == Stop(x, g)
           y == IntoSector(x, g)
<1>1. y = IF g.val = 0 THEN z
          ELSE IF cc > 0 THEN IF a.res = "OK" THEN Given(x, a, n) ELSE Stop(x, a)
          ELSE IF b.res = "OK" THEN IntoCache(x, b) ELSE Stop(x, b)
  BY DEF IntoSector, OnOk
<1>2. LoopOk(z) /\ "w" \in DOMAIN z /\ z.w = x.w /\ ~z.on /\ z.m = g BY DEF Stop, LoopOk
<1>3. l \in Nat OBVIOUS
<1> HIDE DEF y, z
<1> SUFFICES WriteInv(B, k, y) BY DEF y
<1>4. CASE g.val = 0
  <2>1. y = z BY <1>1, <1>4
  <2> QED BY <1>2, <1>4, <2>1 DEF WriteInv
<1>5. CASE g.val # 0 /\ cc > 0
  <2>1. cc \in Nat \ {0} /\ n \in Nat /\ n <= l /\ SectOf(g) + cc <= CSize
    BY <1>3, <1>5, WholeSectors
  <2>2. cc \in Nat BY <2>1
  <2>3. s \in Nat /\ \A t \in s..s + cc - 1 : t \in Tables
    <3> HIDE DEF cc
    <3> QED BY <1>5, <2>1, <2>2, SectorRun
  <2>4. SS * cc <= Len(x.w) BY <2>1
  <2> HIDE DEF s, cc
  <2>5. Cached(g, a) BY <2>1, <2>3, <2>4, WriteSectorsOk
  <2> HIDE DEF a, n
  <2>6. y = Given(x, a, n) BY <1>1, <1>5, <2>5 DEF Cached
  <2>7. Holds(a) /\ ~Aborted(a) /\ a.res = "OK" /\ a.fp.clust \in Cluster
    BY <1>5, <2>5 DEF Cached, Stays
  <2> QED BY <2>1, <2>6, <2>7, GivenOk
<1>6. CASE g.val # 0 /\ ~(cc > 0)
  <2>1. s \in Tables BY <1>6, FileSector
  <2> HIDE DEF s
  <2>2. Cached(g, b) BY <2>1, CacheOk
  <2> HIDE DEF b
  <2>3. y = IntoCache(x, b) BY <1>1, <1>6, <2>2 DEF Cached
  <2>4. Holds(b) /\ ~Aborted(b) /\ b.res = "OK" /\ b.fp.clust \in Cluster
    BY <1>6, <2>2 DEF Cached, Stays
  <2> QED BY <2>3, <2>4, WriteCacheOk
<1> QED BY <1>4, <1>5, <1>6

LEMMA WriteSomeOk ==
  ASSUME NEW p, NEW k \in Nat, NEW x, WriteInv(p, k, x), x.on
  PROVE WriteInv(p, k + 1, WriteSome(x))
<1> DEFINE m == x.m
           g == WriteCluster(m)
           y == WriteSome(x)
<1>1. /\ \A e \in p : EntryOk(e)
      /\ LoopOk(x) /\ "w" \in DOMAIN x /\ x.w \in Seq(p) /\ Holds(m) /\ ~Aborted(m)
      /\ m.res = "OK" /\ (m.fp.fptr > 0 => m.fp.clust \in Cluster) /\ m.fp.fptr \in Nat
  BY DEF WriteInv, Holds, FileShape
<1>2. y = IF x.w = <<>> THEN Stop(x, Ok(m))
          ELSE IF AtSector(m) THEN IF g.res = "OK" THEN IntoSector(x, g) ELSE Stop(x, g)
          ELSE IntoCache(x, m)
  BY DEF WriteSome, OnOk
<1>3. \A a : /\ LoopOk(Stop(x, a)) /\ "w" \in DOMAIN Stop(x, a) /\ Stop(x, a).w = x.w
             /\ ~Stop(x, a).on /\ Stop(x, a).m = a
  BY <1>1 DEF Stop, LoopOk
<1> HIDE DEF y
<1> SUFFICES WriteInv(p, k + 1, y) BY DEF y
<1>4. CASE x.w = <<>>
  <2>1. Stays(m, Ok(m)) /\ Ok(m).res = "OK" BY <1>1, FailHolds
  <2> DEFINE z == Stop(x, Ok(m))
  <2>2. y = z BY <1>2, <1>4
  <2>3. LoopOk(z) /\ "w" \in DOMAIN z /\ z.w = x.w /\ ~z.on /\ z.m = Ok(m) BY <1>3
  <2> HIDE DEF z
  <2> QED BY <1>1, <2>1, <2>2, <2>3 DEF WriteInv, Stays
<1>5. CASE x.w # <<>> /\ AtSector(m)
  <2>1. Ready(m, g) BY <1>1, WriteClusterOk
  <2> HIDE DEF g
  <2>2. CASE g.res = "OK"
    <3>1. y = IntoSector(x, g) BY <1>2, <1>5, <2>2
    <3>2. /\ Holds(g) /\ ~Aborted(g) /\ (g.val # 0 => g.fp.clust \in Cluster)
          /\ (g.val = 0 /\ g.fp.fptr > 0 => g.fp.clust \in Cluster)
      BY <1>1, <2>1, <2>2 DEF Ready
    <3> QED BY <1>1, <2>2, <3>1, <3>2, WriteSectorOk
  <2>3. CASE g.res # "OK"
    <3> DEFINE z == Stop(x, g)
    <3>1. y = z BY <1>2, <1>5, <2>3
    <3>2. LoopOk(z) /\ "w" \in DOMAIN z /\ z.w = x.w /\ ~z.on /\ z.m = g BY <1>3
    <3> HIDE DEF z
    <3> QED BY <1>1, <2>1, <2>3, <3>1, <3>2 DEF WriteInv, Ready
  <2> QED BY <2>2, <2>3
<1>6. CASE x.w # <<>> /\ ~AtSector(m)
  <2>1. m.fp.fptr > 0
    <3>1. (SS * 0 + 0) % SS = 0 /\ SS * 0 + 0 = 0 BY DivModOf, Geometry
    <3> QED BY <1>1, <1>6, <3>1 DEF AtSector
  <2>2. y = IntoCache(x, m) BY <1>2, <1>6
  <2> QED BY <1>1, <2>1, <2>2, WriteCacheOk
<1> QED BY <1>4, <1>5, <1>6

LEMMA WrittenOk ==
  ASSUME NEW m, Holds(m), ~Aborted(m), m.fp.fptr > 0 => m.fp.clust \in Cluster
  PROVE Fit(Written(m))
<1> DEFINE n == IF m.fp.fptr > m.fp.fsize THEN m.fp.fptr ELSE m.fp.fsize
           a == SetSize(m, n)
           b == Marked(a, "WRITTEN")
           w == Written(m)
<1>1. m.fp.fptr \in Nat /\ m.fp.fsize \in Nat BY DEF Holds, FileShape
<1>2. n \in Nat /\ m.fp.fptr <= n BY <1>1
<1>3. w = Ok(b) BY DEF Written, SetSize
<1> HIDE DEF n, w
<1>4. /\ Holds(a) /\ a.fp.fptr = m.fp.fptr /\ a.fp.fsize = n /\ a.fp.clust = m.fp.clust
      /\ (Aborted(a) <=> Aborted(m))
  BY <1>2, SetSizeOk
<1> HIDE DEF a
<1>5. Stays(a, b) BY <1>4, FlagOk
<1> HIDE DEF b
<1>6. Stays(b, w) BY <1>3, <1>5, FailHolds, StaysOn
<1>7. Fit(a) BY <1>2, <1>4 DEF Fit, InFile
<1>8. Fit(w) BY <1>5, <1>6, <1>7, StaysOn
<1> QED BY <1>8 DEF w

LEMMA WriteFit ==
  ASSUME NEW m, NEW B, NEW u \in Seq(B), \A e \in B : EntryOk(e), Fit(m), m.res = "OK"
  PROVE Fit(FWrite(m, u))
<1> DEFINE g == IF m.fp.fsize + Len(u) >= FileLimit THEN <<>> ELSE u
           x == [on |-> TRUE, m |-> m, w |-> g]
           n == Len(g) + 1
           y == While(WriteSome, x, n)
<1>0. g \in Seq(B) OBVIOUS
<1>1. CASE Aborted(m) \/ "WRITE" \notin m.fp.flag
  <2>1. FWrite(m, u) = Fail(m, "INT_ERR") \/ FWrite(m, u) = Fail(m, "DENIED")
    BY <1>1 DEF FWrite, Aborted
  <2> QED BY <2>1, FailFit
<1>2. CASE ~Aborted(m) /\ "WRITE" \in m.fp.flag
  <2>1. FWrite(m, u) = IF y.m.res = "OK" THEN Written(y.m) ELSE y.m
    BY <1>2 DEF FWrite, WriteOn, Aborted, Then
  <2>2. InFile(m.fp) /\ Holds(m) BY <1>2 DEF Fit
  <2>4. n \in Nat BY <1>0
  <2> HIDE DEF g
  <2>3. WriteInv(B, 0, x) BY <1>0, <1>2, <2>2 DEF WriteInv, LoopOk, InFile
  <2> HIDE DEF x, n
  <2>5. ASSUME NEW k \in Nat, NEW v, WriteInv(B, k, v) PROVE WriteInv(B, k + 1, Round(WriteSome, v))
    <3>1. CASE v.on BY <2>5, <3>1, WriteSomeOk DEF Round
    <3>2. CASE ~v.on BY <2>5, <3>2 DEF Round, WriteInv
    <3> QED BY <3>1, <3>2
  <2>6. WriteInv(B, n, WritingLoop!While(WriteSome, x, n))
    BY <2>3, <2>4, <2>5, SetInduction, WritingLoop!WhileKeeps DEF Round, WritingLoop!Round
  <2>7. WriteInv(B, n, y) BY <2>6 DEF While, WritingLoop!While, Round, WritingLoop!Round
  <2> HIDE DEF y
  <2>8. CASE y.m.res = "OK"
    <3>1. FWrite(m, u) = Written(y.m) BY <2>1, <2>8
    <3> QED BY <2>7, <2>8, <3>1, WrittenOk DEF WriteInv
  <2>9. CASE y.m.res # "OK"
    <3>1. FWrite(m, u) = y.m BY <2>1, <2>9
    <3> QED BY <2>7, <2>9, <3>1 DEF WriteInv, Fit
  <2> QED BY <2>8, <2>9
<1> QED BY <1>1, <1>2

(* f_sync and f_close.                                                     *)
LEMMA UpdateOk ==
  ASSUME NEW m, Holds(m), m.winsect \in Tables
  PROVE Stays(m, UpdateEntry(m)) /\ UpdateEntry(m).res = m.res
<1> DEFINE i == m.fp.slot
           e == [m.win[i] EXCEPT !.size = m.fp.fsize, !.clst = m.fp.sclust]
           a == SetEntry(m, i, e)
           b == Unmarked(a, "WRITTEN")
<1>1. UpdateEntry(m) = b BY DEF UpdateEntry, SetEntry
<1>2. Good(m) /\ i \in 1..SS /\ m.fp.fsize \in Nat /\ m.fp.sclust \in MayBeNone
  BY DEF Holds, FileShape
<1>3. EntryOk(e)
  <2>1. EntryOk(m.win[i]) BY <1>2, TableGood DEF TableOk
  <2> QED BY <1>2, <2>1 DEF EntryOk
<1> HIDE DEF e, i
<1>4. EntryPut(m, i, e, a) BY <1>2, <1>3, EntryWritten
<1> HIDE DEF a
<1>5. Stays(m, a) /\ a.res = m.res BY <1>4, StaysOn DEF EntryPut
<1>6. Stays(a, b) /\ b.res = a.res BY <1>5, StaysOn, FlagOk
<1> HIDE DEF b
<1> QED BY <1>1, <1>5, <1>6, StaysOn

LEMMA FSyncOk ==
  ASSUME NEW m, Holds(m)
  PROVE Stays(m, FSync(m)) /\ FSync(m).res = "OK"
<1>1. CASE "WRITTEN" \notin m.fp.flag
  <2>1. FSync(m) = Ok(m) BY <1>1 DEF FSync
  <2> QED BY <2>1, FailHolds
<1>2. CASE "WRITTEN" \in m.fp.flag
  <2> DEFINE b == FlushBuf(m)
             d == b.fp.dirsect
             w == MoveWindow(b, d)
             u == UpdateEntry(w)
             s == Sync(u)
  <2>1. Stays(m, b) /\ b.res = "OK" /\ Good(b) BY FlushOk, StaysOn
  <2>2. d \in Tables /\ d \in Places /\ d # 0
    BY <2>1, Layout DEF Stays, Holds, FileShape, Places
  <2>3. FSync(m) = IF w.res = "OK" THEN s ELSE w BY <1>2, <2>1 DEF FSync, Then
  <2> HIDE DEF b, d
  <2>4. Moved(b, d, w) /\ Runs(b, w) BY <2>1, <2>2, MoveRuns
  <2>5. w.res = "OK" /\ w.winsect = d BY <2>2, <2>4 DEF Moved
  <2> HIDE DEF w
  <2>6. Stays(m, w) BY <2>1, <2>4, StaysOn
  <2>7. Stays(w, u) BY <2>2, <2>5, <2>6, StaysOn, UpdateOk
  <2> HIDE DEF u
  <2>8. Runs(u, s) /\ s.res = "OK" BY <2>7, StaysOn, SyncRuns
  <2> HIDE DEF s
  <2>9. FSync(m) = s BY <2>3, <2>5
  <2> QED BY <2>6, <2>7, <2>8, <2>9, StaysOn
<1> QED BY <1>1, <1>2

LEMMA SyncFit ==
  ASSUME NEW m, Fit(m)
  PROVE Fit(FSync(m))
<1>1. Stays(m, FSync(m)) BY FSyncOk DEF Fit
<1> QED BY <1>1, StaysOn

LEMMA CloseOk ==
  ASSUME NEW m, Fit(m)
  PROVE Good(FClose(m)) /\ FClose(m).fp = NoFil
<1> DEFINE s == FSync(m)
<1>1. Stays(m, s) /\ s.res = "OK" BY FSyncOk DEF Fit
<1>2. FClose(m) = FpPut(s, NoFil) BY <1>1 DEF FClose, Then, FpPut
<1> HIDE DEF s
<1>3. Good(s) BY <1>1, StaysOn
<1> QED BY <1>2, <1>3, FpPutOk

(* f_lseek.                                                                *)
LEMMA Multiples ==                \* of a sector
  /\ 0 % SS = 0 /\ BytesPerCluster % SS = 0 /\ BytesPerCluster \in Nat \ {0}
  /\ \A a, b \in Nat : a % SS = 0 /\ b % SS = 0 => (a + b) % SS = 0
  /\ \A q \in Nat : q * BytesPerCluster \in Nat /\ (q * BytesPerCluster) % SS = 0
<1>1. \A q \in Nat : SS * q \in Nat /\ (SS * q) % SS = 0
  <2> TAKE q \in Nat
  <2> DEFINE z == SS * q
  <2>1. (SS * q + 0) % SS = 0 BY DivModOf, Geometry
  <2>2. z \in Nat BY Times, Geometry
  <2>3. z % SS = 0
    <3>1. z + 0 = z BY <2>2
    <3>2. (z + 0) % SS = 0 BY <2>1
    <3> HIDE DEF z
    <3> QED BY <3>1, <3>2
  <2> QED BY <2>2, <2>3
<1>2. SS * 0 = 0 BY Geometry
<1>3. 0 % SS = 0 BY <1>1, <1>2
<1>4. BytesPerCluster = SS * CSize BY Times, Geometry DEF BytesPerCluster
<1>5. BytesPerCluster % SS = 0 BY <1>1, <1>4, Geometry
<1>6. BytesPerCluster \in Nat \ {0}
  <2>1. SS >= 1 /\ CSize >= 1 BY Geometry
  <2>2. 1 * SS <= CSize * SS /\ 1 * SS = SS BY <2>1, Times, Geometry, Z3
  <2>3. CSize * SS \in Nat BY Times, Geometry
  <2> QED BY <2>1, <2>2, <2>3, Geometry DEF BytesPerCluster
<1>7. ASSUME NEW a \in Nat, NEW b \in Nat, a % SS = 0, b % SS = 0 PROVE (a + b) % SS = 0
  <2> DEFINE p == a \div SS
             q == b \div SS
  <2>1. p \in Nat /\ a = SS * p BY <1>7, DivMod, Geometry
  <2>2. q \in Nat /\ b = SS * q BY <1>7, DivMod, Geometry
  <2> HIDE DEF p, q
  <2>3. SS * (p + q) = SS * p + SS * q BY <2>1, <2>2, Geometry, Z3
  <2>4. p + q \in Nat BY <2>1, <2>2
  <2>5. (SS * (p + q)) % SS = 0 BY <1>1, <2>4
  <2> QED BY <2>1, <2>2, <2>3, <2>5
<1>8. ASSUME NEW q \in Nat PROVE q * BytesPerCluster \in Nat /\ (q * BytesPerCluster) % SS = 0
  <2>1. CSize * q \in Nat BY Times, Geometry
  <2>2. q * BytesPerCluster = SS * (CSize * q) BY <1>4, Geometry, Z3
  <2> QED BY <1>1, <2>1, <2>2
<1> QED BY <1>3, <1>5, <1>6, <1>7, <1>8

SeekInv(p, k, y) ==
  /\ LoopOk(y) /\ {"c", "ofs"} \subseteq DOMAIN y /\ Holds(y.m)
  /\ ~Aborted(y.m) => y.m.fp.fptr % SS = 0 /\ y.m.fp.clust \in Cluster
  /\ y.on => ~Aborted(y.m) /\ y.ofs \in Nat /\ p = y.ofs + k * BytesPerCluster
  /\ ~y.on => IF y.m.res = "OK" THEN ~Aborted(y.m) /\ y.m.val \in 0..BytesPerCluster
              ELSE Aborted(y.m)
SeekingLoop == INSTANCE LoopProofs WITH Body <- SeekOne, Inv <- SeekInv

LEMMA SeekStep ==
  ASSUME NEW p, NEW k \in Nat, NEW x, SeekInv(p, k, x), x.on
  PROVE SeekInv(p, k + 1, SeekOne(x))
<1> DEFINE m == x.m
           B == BytesPerCluster
           wr == "WRITE" \in m.fp.flag
           g == IF wr THEN CreateChain(m, x.c) ELSE GetFat(m, x.c)
           a == SetClust(g, g.val)
           b == Advanced(a, B)
           z == [x EXCEPT !.m = b, !.c = g.val, !.ofs = @ - B]
           y == SeekOne(x)
<1>1. y = IF x.ofs <= B THEN Stop(x, Ok(SetVal(m, x.ofs)))
          ELSE IF wr /\ g.val = 0 THEN Stop(x, Ok(SetVal(g, B)))
          ELSE IF g.val = DiskErr THEN Stop(x, Abort(g, "DISK_ERR"))
          ELSE IF g.val \notin Cluster THEN Stop(x, Abort(g, "INT_ERR"))
          ELSE z
  <2>1. b = [g EXCEPT !.fp.clust = g.val, !.fp.fptr = @ + B]
    BY Zenon DEF Advanced, SetClust
  <2> HIDE DEF b
  <2> QED BY <2>1 DEF SeekOne, After, SetVal
<1>2. /\ LoopOk(x) /\ {"c", "ofs"} \subseteq DOMAIN x /\ Holds(m) /\ ~Aborted(m)
      /\ m.fp.fptr \in Nat /\ m.fp.fptr % SS = 0 /\ m.fp.clust \in Cluster /\ x.ofs \in Nat
      /\ p = x.ofs + k * B
  BY DEF SeekInv, Holds, FileShape
<1>3. B \in Nat \ {0} /\ B % SS = 0 /\ k * B \in Nat BY Multiples
<1>4. Stays(m, g)
  <2>1. Runs(m, CreateChain(m, x.c)) BY <1>2, CreateOk DEF Holds, Chained
  <2>2. Runs(m, GetFat(m, x.c)) BY <1>2, GetRuns DEF Holds
  <2> HIDE DEF wr
  <2>3. Runs(m, g) BY <2>1, <2>2
  <2> QED BY <1>2, <2>3, StaysOn
<1>5. z.m = b /\ z.c = g.val /\ z.ofs = x.ofs - B /\ z.on /\ LoopOk(z) /\ {"c", "ofs"} \subseteq DOMAIN z
  BY <1>2 DEF LoopOk
<1>6. ASSUME NEW q, Holds(q), ~Aborted(q) => q.fp.fptr % SS = 0 /\ q.fp.clust \in Cluster,
             IF q.res = "OK" THEN ~Aborted(q) /\ q.val \in 0..B ELSE Aborted(q)
      PROVE SeekInv(p, k + 1, Stop(x, q))
  <2> DEFINE u == Stop(x, q)
  <2>1. LoopOk(u) /\ {"c", "ofs"} \subseteq DOMAIN u /\ ~u.on /\ u.m = q
    BY <1>2 DEF Stop, LoopOk
  <2> HIDE DEF u
  <2>2. SeekInv(p, k + 1, u) BY <1>6, <2>1 DEF SeekInv
  <2> QED BY <2>2 DEF u
<1> HIDE DEF y, z, g
<1> SUFFICES SeekInv(p, k + 1, y) BY DEF y
<1>7. CASE x.ofs <= B
  <2> DEFINE v == x.ofs
             s == SetVal(m, v)
             o == Ok(s)
  <2>1. y = Stop(x, o) BY <1>1, <1>7
  <2>2. v \in 0..B BY <1>2, <1>3, <1>7
  <2> HIDE DEF v, B
  <2>3. Stays(m, s) /\ s.val = v /\ Holds(s) BY <1>2, ValHolds
  <2> HIDE DEF s
  <2>4. Stays(s, o) /\ o.res = "OK" /\ o.val = s.val BY <2>3, FailHolds
  <2> HIDE DEF o
  <2> QED BY <1>2, <1>6, <2>1, <2>2, <2>3, <2>4 DEF Stays
<1>8. CASE ~(x.ofs <= B) /\ wr /\ g.val = 0
  <2> DEFINE s == SetVal(g, B)
             o == Ok(s)
  <2>1. y = Stop(x, o) BY <1>1, <1>8
  <2>2. B \in 0..B BY <1>3
  <2> HIDE DEF B
  <2>3. Stays(g, s) /\ s.val = B /\ Holds(s) BY <1>4, ValHolds, StaysOn
  <2> HIDE DEF s
  <2>4. Stays(s, o) /\ o.res = "OK" /\ o.val = s.val BY <2>3, FailHolds
  <2> HIDE DEF o
  <2> QED BY <1>2, <1>4, <1>6, <2>1, <2>2, <2>3, <2>4 DEF Stays
<1>9. CASE ~(x.ofs <= B) /\ ~(wr /\ g.val = 0) /\ g.val \notin Cluster
  <2>1. PICK r \in {"DISK_ERR", "INT_ERR"} : y = Stop(x, Abort(g, r)) BY <1>1, <1>9
  <2> DEFINE q == Abort(g, r)
  <2>2. r # "OK" OBVIOUS
  <2>3. Holds(q) /\ Aborted(q) /\ q.res = r BY <1>4, AbortOk, StaysOn
  <2> HIDE DEF q
  <2> QED BY <1>6, <2>1, <2>2, <2>3 DEF q
<1>10. CASE ~(x.ofs <= B) /\ ~(wr /\ g.val = 0) /\ g.val \in Cluster
  <2>1. y = z BY <1>1, <1>10, Links
  <2>2. Holds(g) BY <1>4, StaysOn
  <2>3. Holds(a) /\ a.fp.fptr = g.fp.fptr /\ a.fp.clust = g.val /\ (Aborted(a) <=> Aborted(g))
    BY <2>2, SetClustOk
  <2> HIDE DEF a, B
  <2>4. B \in Nat BY <1>3
  <2>5. Holds(b) /\ b.fp.fptr = a.fp.fptr + B /\ b.fp.clust = a.fp.clust /\ (Aborted(b) <=> Aborted(a))
    BY <2>3, <2>4, AdvancedOk
  <2> HIDE DEF b
  <2>6. b.fp.fptr % SS = 0
    <3>1. a.fp.fptr = m.fp.fptr BY <1>4, <2>3 DEF Stays
    <3> QED BY <1>2, <1>3, <2>4, <2>5, <3>1, Multiples
  <2>7. p = z.ofs + (k + 1) * B /\ z.ofs \in Nat
    <3>1. (k + 1) * B = k * B + B BY <1>3, Times
    <3> DEFINE kb == k * B
               k1 == (k + 1) * B
    <3>2. kb \in Nat /\ k1 = kb + B /\ p = x.ofs + kb BY <1>2, <1>3, <3>1
    <3> HIDE DEF kb, k1
    <3>3. p = z.ofs + k1 /\ z.ofs \in Nat BY <1>2, <1>3, <1>5, <1>10, <3>2
    <3> QED BY <3>3 DEF k1
  <2>8. ~Aborted(b) BY <1>2, <1>4, <2>3, <2>5 DEF Stays
  <2> QED BY <1>5, <1>10, <2>1, <2>3, <2>5, <2>6, <2>7, <2>8 DEF SeekInv, B
<1> QED BY <1>7, <1>8, <1>9, <1>10

Sat(w) ==                         \* the chain is followed as far as it goes
  /\ Holds(w) /\ (~Aborted(w) => w.fp.fptr % SS = 0 /\ w.fp.clust \in Cluster)
  /\ IF w.res = "OK" THEN ~Aborted(w) /\ w.val \in 0..BytesPerCluster ELSE Aborted(w)

LEMMA SeekOnOk ==
  ASSUME NEW m, NEW c, NEW ofs \in Nat, Holds(m), ~Aborted(m), m.fp.fptr % SS = 0,
         m.fp.clust \in Cluster
  PROVE Sat(SeekOn(m, c, ofs))
<1> DEFINE x == [on |-> TRUE, m |-> m, c |-> c, ofs |-> ofs]
           B == BytesPerCluster
           q == ofs \div B
           n == q + 1
           y == While(SeekOne, x, n)
           s == SeekOn(m, c, ofs)
<1>1. s = Result(y) BY DEF SeekOn
<1>2. B \in Nat \ {0} BY Multiples
<1>3. q \in Nat /\ ofs = B * q + (ofs % B) /\ ofs % B \in 0..B - 1 BY <1>2, DivMod
<1>4. SeekInv(ofs, 0, x)
  <2>1. 0 * B = 0 BY <1>2
  <2>2. ofs = ofs + 0 * B BY <2>1
  <2> QED BY <2>2 DEF SeekInv, LoopOk
<1> HIDE DEF x, q
<1>5. n \in Nat BY <1>3
<1>6. ASSUME NEW k \in Nat, NEW u, SeekInv(ofs, k, u) PROVE SeekInv(ofs, k + 1, Round(SeekOne, u))
  <2>1. CASE u.on BY <1>6, <2>1, SeekStep DEF Round
  <2>2. CASE ~u.on BY <1>6, <2>2 DEF Round, SeekInv
  <2> QED BY <2>1, <2>2
<1>7. n * B > ofs
  <2>1. n * B = q * B + B /\ B * q = q * B /\ B * q \in Nat BY <1>2, <1>3, Times
  <2> DEFINE r == ofs % B
             bq == B * q
             qb == q * B
             nb == n * B
  <2>2. r \in 0..B - 1 /\ ofs = bq + r /\ bq = qb /\ bq \in Nat /\ nb = qb + B BY <1>3, <2>1
  <2> HIDE DEF r, bq, qb, nb
  <2>3. nb > ofs BY <1>2, <2>2
  <2> QED BY <2>3 DEF nb
<1>8. SeekInv(ofs, n, SeekingLoop!While(SeekOne, x, n))
  <2> HIDE DEF n
  <2> QED BY <1>4, <1>5, <1>6, SetInduction, SeekingLoop!WhileKeeps DEF Round, SeekingLoop!Round
<1>9. SeekInv(ofs, n, y) BY <1>8 DEF While, SeekingLoop!While, Round, SeekingLoop!Round
<1> HIDE DEF n, y, s
<1>10. ~y.on
  <2> SUFFICES ASSUME y.on PROVE FALSE OBVIOUS
  <2> DEFINE nb == n * B
  <2>1. y.ofs \in Nat /\ ofs = y.ofs + nb BY <1>9 DEF SeekInv
  <2>2. nb \in Nat /\ nb > ofs BY <1>2, <1>5, <1>7, Times
  <2> HIDE DEF nb
  <2> QED BY <2>1, <2>2
<1>11. s = y.m BY <1>1, <1>10 DEF Result
<1>12. Sat(s) BY <1>9, <1>10, <1>11 DEF SeekInv, Sat
<1> QED BY <1>12 DEF s

Located(w) ==                     \* the pointer is where it was asked for
  /\ Holds(w)
  /\ w.res = "OK" => /\ ~Aborted(w) /\ (w.fp.fptr > 0 => w.fp.clust \in Cluster)
                     /\ w.fp.fptr % SS # 0 => w.val \in Tables
  /\ w.res # "OK" => Aborted(w)

LEMMA SeekChainOk ==
  ASSUME NEW m, NEW c \in MayBeNone, NEW ofs \in Nat, Holds(m), ~Aborted(m), m.fp.fptr % SS = 0,
         m.fp.clust = c, c = 0 => m.fp.fptr = 0
  PROVE Located(SeekChain(m, c, ofs))
<1> DEFINE x == SeekOn(m, c, ofs)
           v == x.val
           t == IF v % SS = 0 THEN 0 ELSE Clust2Sect(x.fp.clust) + v \div SS
           a == SetVal(x, t)
           b == Advanced(a, v)
           w == SeekChain(m, c, ofs)
<1>1. w = IF c = 0 THEN Ok(SetVal(m, 0)) ELSE IF x.res = "OK" THEN b ELSE x
  BY DEF SeekChain, Then, SetVal
<1> HIDE DEF w
<1> SUFFICES Located(w) BY DEF w
<1>2. CASE c = 0
  <2> DEFINE s == SetVal(m, 0)
             o == Ok(s)
  <2>1. w = o BY <1>1, <1>2
  <2>2. Stays(m, s) /\ Holds(s) BY ValHolds
  <2> HIDE DEF s
  <2>3. Stays(s, o) /\ o.res = "OK" BY <2>2, FailHolds
  <2> HIDE DEF o
  <2> QED BY <1>2, <2>1, <2>2, <2>3 DEF Located, Stays
<1>3. CASE c # 0
  <2>1. c \in Cluster BY <1>3 DEF MayBeNone
  <2>2. Sat(x) BY <2>1, SeekOnOk
  <2> HIDE DEF x
  <2>3. CASE x.res # "OK"
    <3>1. w = x BY <1>1, <1>3, <2>3
    <3> QED BY <2>2, <2>3, <3>1 DEF Sat, Located
  <2>4. CASE x.res = "OK"
    <3>1. w = b BY <1>1, <1>3, <2>4
    <3>2. /\ Holds(x) /\ ~Aborted(x) /\ x.fp.fptr % SS = 0 /\ x.fp.clust \in Cluster
          /\ v \in 0..BytesPerCluster
      BY <2>2, <2>4 DEF Sat
    <3>3. v \in Nat BY <3>2, Multiples
    <3>4. v % SS # 0 => t \in Tables
      <4> SUFFICES ASSUME v % SS # 0 PROVE t \in Tables OBVIOUS
      <4> DEFINE j == v \div SS
      <4>1. BytesPerCluster = SS * CSize BY Times, Geometry DEF BytesPerCluster
      <4>2. v # BytesPerCluster BY Multiples
      <4> HIDE DEF v
      <4>3. v < SS * CSize
        <5> DEFINE z == BytesPerCluster
        <5>1. z \in Nat /\ v \in 0..z /\ v # z BY <3>2, <4>2, Multiples
        <5> HIDE DEF z
        <5>2. v < z BY <5>1
        <5> QED BY <5>2, <4>1 DEF z
      <4>4. j \in Nat /\ j < CSize BY <3>3, <4>3, BelowProduct, Geometry
      <4>5. t = Clust2Sect(x.fp.clust) + j OBVIOUS
      <4> HIDE DEF j, t
      <4>6. j \in 0..CSize - 1 BY <4>4, Geometry
      <4> QED BY <3>2, <4>5, <4>6, ClusterPlace
    <3> HIDE DEF v, t
    <3>5. Stays(x, a) /\ Holds(a) /\ a.res = x.res /\ a.val = t BY <3>2, ValHolds
    <3> HIDE DEF a
    <3>6. /\ Holds(b) /\ b.fp.fptr = a.fp.fptr + v /\ b.fp.clust = a.fp.clust
          /\ (Aborted(b) <=> Aborted(a)) /\ b.res = a.res /\ b.val = a.val
      BY <3>3, <3>5, AdvancedOk
    <3> HIDE DEF b
    <3>7. b.fp.fptr % SS # 0 => v % SS # 0
      <4> SUFFICES ASSUME v % SS = 0 PROVE b.fp.fptr % SS = 0 OBVIOUS
      <4> DEFINE f == x.fp.fptr
      <4>1. f \in Nat /\ b.fp.fptr = f + v BY <3>2, <3>5, <3>6 DEF Stays, Holds, FileShape
      <4>2. f % SS = 0 BY <3>2
      <4> HIDE DEF f
      <4> QED BY <3>3, <4>1, <4>2, Multiples
    <3> QED BY <2>4, <3>1, <3>2, <3>4, <3>5, <3>6, <3>7 DEF Located, Stays
  <2> QED BY <2>3, <2>4
<1> QED BY <1>2, <1>3

SetPtr(m, n) == [m EXCEPT !.fp.fptr = n]
LEMMA SetPtrOk ==
  ASSUME NEW m, NEW n \in Nat, Holds(m)
  PROVE LET w == SetPtr(m, n)
        IN /\ Holds(w) /\ w.fp.fptr = n /\ w.fp.clust = m.fp.clust /\ w.fp.sclust = m.fp.sclust
           /\ w.fp.fsize = m.fp.fsize /\ (Aborted(w) <=> Aborted(m)) /\ w.res = m.res /\ w.val = m.val
<1> DEFINE f == [m.fp EXCEPT !.fptr = n]
<1>1. SetPtr(m, n) = FpPut(m, f) BY DEF FpPut, SetPtr
<1>2. Good(m) /\ FileShape(m.fp) BY DEF Holds
<1>3. /\ FileShape(f) /\ f.fptr = n /\ f.fsize = m.fp.fsize /\ f.clust = m.fp.clust
      /\ f.sclust = m.fp.sclust /\ f.flag = m.fp.flag
  BY <1>2 DEF FileShape, FileFields
<1> HIDE DEF f
<1>4. Good(FpPut(m, f)) /\ FpPut(m, f).fp = f /\ FpPut(m, f).res = m.res /\ FpPut(m, f).val = m.val
  BY <1>2, FpPutOk
<1> QED BY <1>1, <1>3, <1>4 DEF Holds, Aborted

First(w) ==                       \* at the start of the file
  Holds(w) /\ ~Aborted(w) /\ w.fp.fptr = 0 /\ w.res = "OK" /\ w.fp.clust \in MayBeNone
LEMMA SeekFirstOk ==
  ASSUME NEW m, Holds(m), ~Aborted(m), m.fp.fptr = 0
  PROVE First(SeekFirst(m))
<1> DEFINE c == m.fp.sclust
           g == CreateChain(m, 0)
           v == g.val
           a == SetClust(m, c)
           d == SetSclust(g, v)
           e == SetClust(d, v)
           w == SeekFirst(m)
<1>1. w = IF c # 0 THEN Ok(a) ELSE IF Trouble(v) # "OK" THEN Abort(g, Trouble(v)) ELSE Ok(e)
  <2>1. e = [g EXCEPT !.fp.sclust = v, !.fp.clust = v] BY Zenon DEF SetClust, SetSclust
  <2> HIDE DEF e
  <2> QED BY <2>1 DEF SeekFirst, After, SetClust
<1>2. c \in MayBeNone BY DEF Holds, FileShape
<1> HIDE DEF w
<1> SUFFICES First(w) BY DEF w
<1>3. CASE c # 0
  <2> DEFINE o == Ok(a)
  <2>1. w = o BY <1>1, <1>3
  <2> HIDE DEF c
  <2>2. Holds(a) /\ a.fp.fptr = m.fp.fptr /\ a.fp.clust = c /\ (Aborted(a) <=> Aborted(m))
    BY SetClustOk
  <2> HIDE DEF a
  <2>3. Stays(a, o) /\ o.res = "OK" BY <2>2, FailHolds
  <2> HIDE DEF o
  <2> QED BY <1>2, <2>1, <2>2, <2>3 DEF First, Stays
<1>4. CASE c = 0
  <2>1. Chained(m, 0, g) BY CreateOk DEF Holds
  <2>2. Stays(m, g) /\ v \in MayBeNone /\ v \notin {1, DiskErr}
    BY <2>1, StaysOn, Links DEF Chained, MayBeNone
  <2>3. Trouble(v) = "OK" BY <2>2, TroubleOf
  <2> DEFINE o == Ok(e)
  <2>4. w = o BY <1>1, <1>4, <2>3
  <2> HIDE DEF g, v
  <2>5. Holds(d) /\ d.fp.fptr = g.fp.fptr /\ (Aborted(d) <=> Aborted(g)) BY <2>2, SetSclustOk, StaysOn
  <2> HIDE DEF d
  <2>6. Holds(e) /\ e.fp.fptr = d.fp.fptr /\ e.fp.clust = v /\ (Aborted(e) <=> Aborted(d))
    BY <2>5, SetClustOk
  <2> HIDE DEF e
  <2>7. Stays(e, o) /\ o.res = "OK" BY <2>6, FailHolds
  <2> HIDE DEF o
  <2> QED BY <2>2, <2>4, <2>5, <2>6, <2>7 DEF First, Stays
<1> QED BY <1>3, <1>4

LEMMA SoughtOk ==
  ASSUME NEW m, NEW ofs \in Nat, Holds(m), ~Aborted(m), m.fp.fptr > 0 => m.fp.clust \in Cluster
  PROVE Located(Sought(m, ofs))
<1> DEFINE B == BytesPerCluster
           was == m.fp.fptr
           i == (was - 1) \div B
           j == (ofs - 1) \div B
           base == i * B
           r == SetPtr(m, 0)
           s == SetVal(r, 0)
           f == SeekFirst(s)
           h == SetPtr(m, base)
           w == Sought(m, ofs)
<1>1. w = IF ofs = 0 THEN Ok(s)
          ELSE IF was > 0 /\ j >= i THEN SeekChain(h, m.fp.clust, ofs - base)
          ELSE IF f.res = "OK" THEN SeekChain(f, f.fp.clust, ofs) ELSE f
  <2>1. s = [m EXCEPT !.fp.fptr = 0, !.val = 0] BY Zenon DEF SetPtr, SetVal
  <2> HIDE DEF s
  <2> QED BY <2>1 DEF Sought, Then, SetPtr
<1>2. was \in Nat BY DEF Holds, FileShape
<1>3. B \in Nat \ {0} BY Multiples
<1> HIDE DEF w
<1>4. Holds(r) /\ r.fp.fptr = 0 /\ (Aborted(r) <=> Aborted(m)) BY SetPtrOk
<1> HIDE DEF r
<1>5. Stays(r, s) /\ Holds(s) BY <1>4, ValHolds
<1> HIDE DEF s
<1>6. Holds(s) /\ ~Aborted(s) /\ s.fp.fptr = 0 BY <1>4, <1>5 DEF Stays
<1> SUFFICES Located(w) BY DEF w
<1>7. CASE ofs = 0
  <2> DEFINE o == Ok(s)
  <2>1. w = o BY <1>1, <1>7
  <2>2. Stays(s, o) /\ o.res = "OK" BY <1>6, FailHolds
  <2> HIDE DEF o
  <2> QED BY <1>6, <2>1, <2>2, Multiples DEF Located, Stays
<1>8. CASE ofs # 0 /\ was > 0 /\ j >= i
  <2> DEFINE c == m.fp.clust
             d == ofs - base
  <2>1. w = SeekChain(h, c, d) BY <1>1, <1>8
  <2>2. c \in Cluster /\ c # 0 /\ c \in MayBeNone BY <1>8, Links DEF MayBeNone
  <2>3. was - 1 \in Nat /\ ofs - 1 \in Nat BY <1>2, <1>8
  <2>4. i \in Nat BY <1>3, <2>3, DivMod
  <2>5. j \in Nat /\ ofs - 1 = B * j + ((ofs - 1) % B) /\ (ofs - 1) % B \in 0..B - 1
    BY <1>3, <2>3, DivMod
  <2>6. base \in Nat /\ base % SS = 0 BY <2>4, Multiples
  <2>7. base <= ofs - 1
    <3>1. i * B <= j * B /\ B * j = j * B /\ j * B \in Nat BY <1>3, <1>8, <2>4, <2>5, Times
    <3> DEFINE jb == j * B
               bj == B * j
               rr == (ofs - 1) % B
    <3>2. base <= jb /\ bj = jb /\ jb \in Nat /\ ofs - 1 = bj + rr /\ rr \in 0..B - 1 BY <2>5, <3>1
    <3> HIDE DEF jb, bj, rr, base, i, j
    <3> QED BY <1>3, <2>6, <3>2
  <2> HIDE DEF base
  <2>8. d \in Nat BY <2>6, <2>7
  <2> HIDE DEF c, d
  <2>9. /\ Holds(h) /\ h.fp.fptr = base /\ h.fp.clust = m.fp.clust /\ (Aborted(h) <=> Aborted(m))
    BY <2>6, SetPtrOk
  <2> HIDE DEF h
  <2>10. h.fp.clust = c /\ h.fp.fptr % SS = 0 /\ ~Aborted(h) BY <2>6, <2>9 DEF c
  <2> QED BY <2>1, <2>2, <2>8, <2>9, <2>10, SeekChainOk
<1>9. CASE ofs # 0 /\ ~(was > 0 /\ j >= i)
  <2>1. First(f) BY <1>6, SeekFirstOk
  <2> HIDE DEF f
  <2> DEFINE c == f.fp.clust
  <2>2. w = SeekChain(f, c, ofs) BY <1>1, <1>9, <2>1 DEF First
  <2>3. /\ Holds(f) /\ ~Aborted(f) /\ f.fp.fptr % SS = 0 /\ f.fp.fptr = 0 /\ c \in MayBeNone
        /\ f.fp.clust = c
    BY <2>1, Multiples DEF First
  <2> HIDE DEF c
  <2> QED BY <2>2, <2>3, SeekChainOk
<1> QED BY <1>7, <1>8, <1>9

LEMMA SeekCacheOk ==
  ASSUME NEW m, Located(m), m.res = "OK"
  PROVE Located(SeekCache(m))
<1> DEFINE b == FlushBuf(m)
           l == LoadBuf(b, m.val)
           d == SetDsect(l, m.val)
           w == SeekCache(m)
<1>1. Holds(m) /\ ~Aborted(m) BY DEF Located
<1>2. Stays(m, b) /\ b.res = "OK" /\ b.val = m.val BY <1>1, FlushOk
<1> HIDE DEF b
<1>3. w = IF m.fp.fptr % SS = 0 \/ m.val = m.fp.dsect THEN m
          ELSE IF l.res = "OK" THEN d
          ELSE LET o == Abort(l, l.res) IN IF o.res = "OK" THEN [o EXCEPT !.fp.dsect = m.val] ELSE o
  BY <1>2 DEF SeekCache, Then, OrAbort, SetDsect, b
<1> HIDE DEF w
<1> SUFFICES Located(w) BY DEF w
<1>4. CASE m.fp.fptr % SS = 0 \/ m.val = m.fp.dsect
  <2>1. w = m BY <1>3, <1>4
  <2> QED BY <2>1
<1>5. CASE ~(m.fp.fptr % SS = 0 \/ m.val = m.fp.dsect)
  <2>1. m.val \in Tables BY <1>5 DEF Located
  <2>2. Stays(b, l) /\ l.res = "OK" /\ l.val = b.val BY <1>2, <2>1, LoadBufOk, StaysOn
  <2>3. w = d BY <1>3, <1>5, <2>2
  <2> HIDE DEF l
  <2>4. Stays(l, d) /\ d.res = l.res /\ d.val = l.val BY <2>1, <2>2, DsectOk, StaysOn
  <2> HIDE DEF d
  <2> QED BY <1>1, <1>2, <2>1, <2>2, <2>3, <2>4 DEF Located, Stays
<1> QED BY <1>4, <1>5

LEMMA GrownOk ==
  ASSUME NEW m, Located(m), m.res = "OK"
  PROVE Fit(Grown(m))
<1> DEFINE p == m.fp.fptr
           a == SetSize(m, p)
           b == Marked(a, "WRITTEN")
<1>1. /\ Holds(m) /\ ~Aborted(m) /\ (p > 0 => m.fp.clust \in Cluster)
      /\ p \in Nat /\ m.fp.fsize \in Nat
  BY DEF Located, Holds, FileShape
<1>2. CASE p > m.fp.fsize
  <2>1. Grown(m) = b BY <1>2 DEF Grown, SetSize
  <2> HIDE DEF p
  <2>2. /\ Holds(a) /\ a.fp.fptr = m.fp.fptr /\ a.fp.fsize = p /\ a.fp.clust = m.fp.clust
        /\ (Aborted(a) <=> Aborted(m))
    BY <1>1, SetSizeOk
  <2> HIDE DEF a
  <2>3. Fit(a) BY <1>1, <2>2 DEF Fit, InFile, p
  <2>4. Stays(a, b) BY <2>2, FlagOk
  <2> HIDE DEF b
  <2> QED BY <2>1, <2>3, <2>4, StaysOn
<1>3. CASE ~(p > m.fp.fsize)
  <2>1. Grown(m) = m BY <1>3 DEF Grown
  <2> QED BY <1>1, <1>3, <2>1 DEF Fit, InFile
<1> QED BY <1>2, <1>3

LEMMA LseekFit ==
  ASSUME NEW m, NEW ofs \in Nat, Fit(m)
  PROVE Fit(FLseek(m, ofs))
<1> DEFINE o == IF "WRITE" \in m.fp.flag THEN ofs ELSE Min2(ofs, m.fp.fsize)
           s == Sought(m, o)
           c == SeekCache(s)
           g == Grown(c)
<1>1. CASE Aborted(m)
  <2>1. FLseek(m, ofs) = Fail(m, "INT_ERR") BY <1>1 DEF FLseek, Aborted
  <2> QED BY <2>1, FailFit
<1>2. CASE ~Aborted(m)
  <2>1. FLseek(m, ofs) = LET a == IF s.res = "OK" THEN c ELSE s
                         IN IF a.res = "OK" THEN Grown(a) ELSE a
    BY <1>2 DEF FLseek, Then, Aborted
  <2>2. Holds(m) /\ (m.fp.fptr > 0 => m.fp.clust \in Cluster) /\ m.fp.fsize \in Nat
    BY <1>2 DEF Fit, InFile, Holds, FileShape
  <2>3. o \in Nat BY <2>2 DEF Min2
  <2> HIDE DEF o
  <2>4. Located(s) BY <1>2, <2>2, <2>3, SoughtOk
  <2> HIDE DEF s
  <2>5. s.res = "OK" => Located(c) BY <2>4, SeekCacheOk
  <2> HIDE DEF c
  <2> DEFINE a == IF s.res = "OK" THEN c ELSE s
  <2>6. Located(a) BY <2>4, <2>5
  <2>7. FLseek(m, ofs) = IF a.res = "OK" THEN Grown(a) ELSE a BY <2>1
  <2> HIDE DEF a
  <2>8. CASE a.res = "OK" BY <2>6, <2>7, <2>8, GrownOk
  <2>9. CASE a.res # "OK" BY <2>6, <2>7, <2>9 DEF Located, Fit
  <2> QED BY <2>8, <2>9
<1> QED BY <1>1, <1>2

(* Freeing a chain writes to the FAT only: what the tables hold is safe,   *)
(* whether it is on the disk or was in the window.                         *)
LEMMA SecuresOn ==
  ASSUME NEW m, NEW a, NEW b
  PROVE /\ Secures(m, a) /\ Secures(a, b) => Secures(m, b)
        /\ SameVol(m, a) => Secures(m, a)
        /\ Labelled(m, a) => Secures(m, a)
        /\ Secures(m, m)
BY DEF Secures, SameVol, Held, Seen, Labelled

LEMMA GetSecures ==
  ASSUME NEW m, NEW c, Good(m)
  PROVE Secures(m, GetFat(m, c))
<1> DEFINE s == FatSect(c)
           a == MoveWindow(m, s)
           w == GetFat(m, c)
<1>1. Machine(m) BY DEF Good
<1>2. CASE c \notin Cluster
  <2>1. w = SetVal(m, 1) BY <1>2 DEF GetFat, SetVal
  <2>2. Labelled(m, w) BY <1>1, <2>1, ValOk DEF SetVal
  <2> HIDE DEF w
  <2>3. Secures(m, w) BY <2>2, SecuresOn
  <2> QED BY <2>3 DEF w
<1>3. CASE c \in Cluster
  <2> DEFINE v == IF a.res = "OK" THEN a.win[c % PerFat] ELSE DiskErr
  <2>1. w = SetVal(a, v) BY <1>3 DEF GetFat, After, SetVal
  <2>2. s \in Places BY <1>3, FatPlace DEF Places
  <2> HIDE DEF s, v
  <2>3. Moved(m, s, a) /\ Runs(m, a) BY <2>2, MoveRuns
  <2> HIDE DEF a, w
  <2>4. Labelled(a, w) BY <2>1, <2>3, ValOk DEF SetVal, Runs, Good
  <2>5. Secures(m, w) BY <2>3, <2>4, SecuresOn DEF Moved
  <2> QED BY <2>5 DEF w
<1> QED BY <1>2, <1>3

LEMMA FreedSecures ==
  ASSUME NEW m, NEW c \in Cluster, Good(m)
  PROVE Secures(m, Counted(PutFat(m, c, 0), 1))
<1> DEFINE s == FatSect(c)
           i == c % PerFat
           a == MoveWindow(m, s)
           b == [[a EXCEPT !.wflag = TRUE] EXCEPT !.win[i] = 0]
           w == Counted(b, 1)
<1>1. s \in Places /\ s \in FatArea /\ s # 0 /\ s \notin Tables BY FatPlace, Layout DEF Places
<1> HIDE DEF s, i
<1>2. Moved(m, s, a) BY <1>1, MoveRuns
<1>3. PutFat(m, c, 0) = b
  <2> DEFINE k == [a EXCEPT !.wflag = TRUE]
  <2>1. k.res = a.res BY <1>2 DEF Moved, Base, Machine, Fields
  <2>2. k.res = "OK" BY <2>1, <1>2 DEF Moved
  <2> HIDE DEF a
  <2> QED BY <2>2 DEF PutFat, Then, a, s, i
<1> HIDE DEF a
<1>4. Machine(a) /\ a.winsect = s BY <1>1, <1>2 DEF Moved, Base
<1>5. b.disk = a.disk /\ b.winsect = s /\ Machine(b) BY <1>4 DEF Machine, Fields
<1> HIDE DEF b
<1>6. w.disk = a.disk /\ w.winsect = s BY <1>5 DEF Counted, Machine, Fields
<1> HIDE DEF w
<1>7. Secures(a, w) BY <1>1, <1>4, <1>6 DEF Secures, Held, Seen
<1>8. Secures(m, w) BY <1>2, <1>7, SecuresOn DEF Moved
<1> QED BY <1>3, <1>8 DEF w

ClearInv(p, k, y) == FreeInv(p, k, y) /\ Secures(p, y.m)
ClearLoop == INSTANCE LoopProofs WITH Body <- FreeOne, Inv <- ClearInv

LEMMA ClearStep ==
  ASSUME NEW p, NEW k \in Nat, NEW x, ClearInv(p, k, x), x.on
  PROVE ClearInv(p, k + 1, FreeOne(x))
<1> DEFINE m == x.m
           g == GetFat(m, x.c)
           w == FreeOne(x)
<1>1. FreeInv(p, k + 1, w) BY FreeStep DEF ClearInv
<1>2. LoopOk(x) /\ Good(m) /\ Secures(p, m) /\ "c" \in DOMAIN x BY DEF ClearInv, FreeInv, Runs
<1>3. ASSUME NEW a, Secures(p, a), w = Stop(x, a) PROVE Secures(p, w.m)
  BY <1>2, <1>3 DEF Stop, LoopOk
<1> SUFFICES Secures(p, w.m) BY <1>1 DEF ClearInv
<1>4. CASE x.c >= NFatEnt
  <2>1. w = Stop(x, Ok(m)) BY <1>4 DEF FreeOne
  <2>2. Secures(p, Ok(m)) BY <1>2, FailOk, SecuresOn DEF Good
  <2> QED BY <2>1, <2>2, <1>3
<1>5. CASE ~(x.c >= NFatEnt)
  <2>1. GotFat(m, x.c, g) /\ Good(g) /\ Secures(p, g)
    BY <1>2, GetRuns, GetSecures, SecuresOn DEF Runs
  <2>2. w = IF g.val = 0 THEN Stop(x, Ok(g))
            ELSE IF Trouble(g.val) # "OK" THEN Stop(x, Fail(g, Trouble(g.val)))
            ELSE OnOk(x, PutFat(g, x.c, 0), LAMBDA q :
                   [x EXCEPT !.m = Counted(q, 1), !.c = g.val])
    BY <1>5 DEF FreeOne, After
  <2> HIDE DEF g, w
  <2>3. CASE g.val = 0
    <3>1. Secures(p, Ok(g)) BY <2>1, FailOk, SecuresOn DEF Good
    <3> QED BY <3>1, <2>2, <2>3, <1>3
  <2>4. CASE g.val # 0 /\ Trouble(g.val) # "OK"
    <3>1. Secures(p, Fail(g, Trouble(g.val))) BY <2>1, FailOk, SecuresOn DEF Good
    <3> QED BY <3>1, <2>2, <2>4, <1>3
  <2>5. CASE g.val # 0 /\ Trouble(g.val) = "OK"
    <3> DEFINE q == PutFat(g, x.c, 0)
    <3>1. x.c \in Cluster BY <2>1, <2>5 DEF GotFat, Trouble
    <3>2. Fat(g, x.c) # 0 BY <2>1, <2>5, <3>1 DEF GotFat, SameFat
    <3>3. q.res = "OK" BY <3>1, <3>2, <2>1, FreedOne
    <3>4. Secures(g, Counted(q, 1)) BY <3>1, <2>1, FreedSecures
    <3>5. w = [x EXCEPT !.m = Counted(q, 1), !.c = g.val]
      BY <2>2, <2>5, <3>3 DEF OnOk
    <3> HIDE DEF q
    <3>6. Secures(p, Counted(q, 1)) BY <3>4, <2>1, SecuresOn
    <3>7. w.m = Counted(q, 1) BY <1>2, <3>5 DEF LoopOk
    <3> QED BY <3>6, <3>7
  <2> QED BY <2>3, <2>4, <2>5
<1> QED BY <1>4, <1>5

LEMMA RemoveSecures ==
  ASSUME NEW m, NEW c, Good(m)
  PROVE Secures(m, RemoveChain(m, c))
<1> DEFINE x == [on |-> TRUE, m |-> m, c |-> c]
           n == NClusters + 1
           y == While(FreeOne, x, n)
           f == FreeFrom(m, c)
<1>1. ClearInv(m, 0, x) BY RunsOn, SecuresOn DEF FreeInv, ClearInv, LoopOk
<1>2. ASSUME NEW k \in Nat, NEW z, ClearInv(m, k, z) PROVE ClearInv(m, k + 1, Round(FreeOne, z))
  <2>1. CASE z.on BY <1>2, <2>1, ClearStep DEF Round
  <2>2. CASE ~z.on BY <1>2, <2>2 DEF Round, ClearInv, FreeInv
  <2> QED BY <2>1, <2>2
<1>3. n \in Nat BY Geometry
<1>4. f = Result(y) BY DEF FreeFrom
<1> HIDE DEF x, n, f
<1>5. ClearInv(m, n, ClearLoop!While(FreeOne, x, n))
  BY <1>1, <1>2, <1>3, SetInduction, ClearLoop!WhileKeeps DEF Round, ClearLoop!Round
<1>6. ClearInv(m, n, y) BY <1>5 DEF While, ClearLoop!While, Round, ClearLoop!Round
<1> HIDE DEF y
<1>7. Machine(y.m) /\ Secures(m, y.m) BY <1>6 DEF ClearInv, FreeInv, Runs, Good
<1>8. Labelled(y.m, Fail(y.m, "INT_ERR")) BY <1>7, FailOk
<1>9. Secures(m, f) BY <1>4, <1>7, <1>8, SecuresOn DEF Result
<1>10. Secures(m, Fail(m, "INT_ERR")) BY FailOk, SecuresOn DEF Good
<1> QED BY <1>9, <1>10 DEF RemoveChain, f

(* f_open cuts a file to nothing; the window comes back to its entry.      *)
SetLast(m, n) == [m EXCEPT !.last = n]
LEMMA SetLastOk ==
  ASSUME NEW m, NEW n \in Nat, Good(m)
  PROVE LET w == SetLast(m, n) IN Runs(m, w) /\ Secures(m, w) /\ w.res = m.res
<1> DEFINE w == SetLast(m, n)
<1>1. /\ Machine(w) /\ w.disk = m.disk /\ w.win = m.win /\ w.winsect = m.winsect
      /\ w.wflag = m.wflag /\ w.free = m.free /\ w.fsi = m.fsi /\ w.last = n
      /\ SameObjects(m, w) /\ w.res = m.res
  BY DEF SetLast, Good, Machine, Fields, SameObjects
<1> HIDE DEF w
<1>2. SameFat(m, w) BY <1>1 DEF SameFat, Fat, Seen
<1>3. CountOk(w) BY <1>1, <1>2, SameFatCount DEF Good, VolOk
<1>4. Good(w) BY <1>1, <1>3 DEF Good, VolOk, BaseOk, DiskOk, WinOk, CopiesOk, InfoOk
<1>5. Secures(m, w) BY <1>1 DEF Secures, Held, Seen
<1> QED BY <1>1, <1>4, <1>5 DEF Runs, w

LEMMA NewEntryOk ==
  ASSUME NEW s, NEW a, NEW c \in MayBeNone, NEW n \in Nat
  PROVE EntryOk(Entry(s, a, c, n)) /\ Entry(s, a, c, n).kind = "entry"
BY DEF Entry, EntryOk

LEMMA EmptiedOk ==
  ASSUME NEW m, OnFile(m)
  PROVE LET w == Emptied(m) IN Runs(m, w) /\ (w.res = "OK" => OnFile(w))
<1> DEFINE e == Here(m)
           c == e.clst
           d == Entry(e.sfn, "file", 0, 0)
           bare == Put(m, d)
           s == m.winsect
           r == RemoveChain(bare, c)
           a == SetLast(r, c - 1)
           b == MoveWindow(a, s)
           w == Emptied(m)
<1>1. w = IF c = 0 THEN Ok(bare) ELSE IF r.res = "OK" THEN b ELSE r
  BY DEF Emptied, Then, SetLast
<1>2. c \in MayBeNone /\ s \in Tables BY FileHere
<1>3. 0 \in MayBeNone /\ 0 \in Nat BY DEF MayBeNone
<1>4. EntryOk(d) /\ d.kind = "entry" BY <1>3, NewEntryOk
<1> HIDE DEF w, d, e
<1>5. Runs(m, bare) /\ OnEntry(bare) /\ Here(bare) = d /\ Good(m) /\ bare.winsect = s
  BY <1>4, PutRuns DEF OnFile, OnEntry, Runs, SameObjects
<1>6. bare.wflag = TRUE /\ bare.winsect = s
  BY <1>5 DEF Put, OnEntry, Good, Machine, Fields
<1>7. OnFile(bare) BY <1>4, <1>5 DEF OnFile
<1>8. Good(bare) BY <1>5 DEF Runs
<1> SUFFICES Runs(m, w) /\ (w.res = "OK" => OnFile(w)) BY DEF w
<1> HIDE DEF bare
<1>9. CASE c = 0
  <2> DEFINE o == Ok(bare)
  <2>1. w = o BY <1>1, <1>9
  <2>2. Labelled(bare, o) BY <1>8, FailOk DEF Good
  <2> HIDE DEF o
  <2>3. Runs(m, o) BY <1>5, <2>2, RunsOn
  <2>4. OnFile(o)
    BY <1>7, <2>2, <2>3 DEF OnFile, OnEntry, Labelled, SameVol, SameObjects, Here, Runs
  <2> QED BY <2>1, <2>3, <2>4
<1>10. CASE c # 0
  <2>1. Runs(bare, r) /\ Secures(bare, r) BY <1>8, RemoveRuns, RemoveSecures
  <2> HIDE DEF r
  <2>2. Runs(m, r) /\ Good(r) BY <1>5, <2>1, RunsOn DEF Runs
  <2>3. CASE r.res # "OK"
    <3>1. w = r BY <1>1, <1>10, <2>3
    <3> QED BY <2>2, <2>3, <3>1
  <2>4. CASE r.res = "OK"
    <3>1. w = b BY <1>1, <1>10, <2>4
    <3> DEFINE l == c - 1
    <3>2. l \in Nat BY <1>2, <1>10, Links DEF MayBeNone
    <3> HIDE DEF l, c
    <3>3. a = SetLast(r, l) BY DEF l
    <3> HIDE DEF a
    <3>4. Runs(r, a) /\ Secures(r, a) BY <2>2, <3>2, <3>3, SetLastOk
    <3>5. Good(a) /\ Runs(m, a) /\ Secures(bare, a) BY <2>1, <2>2, <3>4, RunsOn, SecuresOn DEF Runs
    <3>6. s \in Places /\ s # 0 BY <1>2, Layout DEF Places
    <3> HIDE DEF s
    <3>7. Moved(a, s, b) /\ Runs(a, b) BY <3>5, <3>6, MoveRuns
    <3> HIDE DEF b
    <3>8. Runs(m, b) /\ Secures(bare, b) /\ b.winsect = s
      BY <3>5, <3>6, <3>7, RunsOn, SecuresOn DEF Moved
    <3>9. b.win = bare.win
      <4>1. Held(bare, s) BY <1>6 DEF Held
      <4>2. Seen(b, s) = Seen(bare, s) BY <1>2, <3>8, <4>1 DEF Secures
      <4> QED BY <1>6, <3>8, <4>2 DEF Seen
    <3>10. b.dj = bare.dj BY <1>5, <3>8 DEF Runs, SameObjects
    <3>11. OnFile(b)
      BY <1>6, <1>7, <3>8, <3>9, <3>10 DEF OnFile, OnEntry, Here, Runs
    <3> QED BY <3>1, <3>8, <3>11
  <2> QED BY <2>3, <2>4
<1> QED BY <1>9, <1>10

(* f_open.                                                                 *)
OpenedTo(m, w) ==                 \* a file object, or none as before
  Good(w) /\ DjOk(w.dj) /\ FilOk(w.fp) /\ (w.fp.open => w.res = "OK")

LEMMA NewFile ==
  ASSUME NEW flag, NEW e, NEW s \in Tables, NEW n \in 1..SS,
         e.clst \in MayBeNone, e.size \in Nat
  PROVE LET f == Fil(flag, e, s, n) IN FileOk(f) /\ f.open = TRUE
<1> DEFINE f == Fil(flag, e, s, n)
<1>1. /\ FileFields \subseteq DOMAIN f /\ f.open = TRUE
      /\ f.sclust = e.clst /\ f.fsize = e.size /\ f.fptr = 0 /\ f.dsect = 0
      /\ f.buf = Cleared /\ f.dirsect = s /\ f.slot = n
  BY DEF Fil, FileFields
<1> HIDE DEF f
<1>2. 0 \in Nat /\ 0 \in {0} \union Tables OBVIOUS
<1>3. 0 <= e.size OBVIOUS
<1> SUFFICES FileOk(f) /\ f.open = TRUE BY DEF f
<1> QED BY <1>1, <1>2, <1>3, ClearedOk DEF FileOk

LEMMA OpenedOk ==
  ASSUME NEW m, NEW access, OnFile(m), m.res = "OK"
  PROVE OpenedTo(m, Opened(m, access))
<1> DEFINE e == Here(m)
           n == (m.dj.index % SS) + 1
           s == m.winsect
           f == Fil(access, e, s, n)
           w == FpPut(m, f)
<1>1. e.clst \in MayBeNone /\ e.size \in Nat /\ s \in Tables BY FileHere
<1>2. Good(m) /\ DjOk(m.dj) BY DEF OnFile, OnEntry
<1>3. n \in 1..SS BY <1>2, SlotOk
<1>4. Opened(m, access) = w BY DEF Opened, FpPut
<1> HIDE DEF e, n, s
<1>5. FileOk(f) /\ f.open = TRUE BY <1>1, <1>3, NewFile
<1> HIDE DEF f
<1>6. Good(w) /\ w.fp = f /\ w.dj = m.dj /\ w.res = m.res BY <1>2, FpPutOk
<1> HIDE DEF w
<1> QED BY <1>2, <1>4, <1>5, <1>6 DEF OpenedTo, FilOk

LEMMA NotOpened ==                \* a call that gives no file object
  ASSUME NEW m, NEW w, m.fp = NoFil, DirRuns(m, w)
  PROVE /\ OpenedTo(m, w)
        /\ \A r : OpenedTo(m, Fail(w, r))
<1>1. NoFil.open = FALSE BY DEF NoFil
<1>2. Good(w) /\ DjOk(w.dj) /\ w.fp = NoFil BY DEF DirRuns
<1>3. OpenedTo(m, w) BY <1>1, <1>2 DEF OpenedTo, FilOk
<1>4. ASSUME NEW r PROVE OpenedTo(m, Fail(w, r))
  <2> DEFINE f == Fail(w, r)
  <2>1. DirRuns(m, f) BY DirFails
  <2> HIDE DEF f
  <2>2. Good(f) /\ DjOk(f.dj) /\ f.fp = NoFil BY <2>1 DEF DirRuns
  <2>3. OpenedTo(m, f) BY <1>1, <2>2 DEF OpenedTo, FilOk
  <2> QED BY <2>3 DEF f
<1> QED BY <1>3, <1>4

LEMMA EmptiedOpened ==
  ASSUME NEW m, NEW f, NEW a, m.fp = NoFil, DirRuns(m, f), OnFile(f)
  PROVE OpenedTo(m, IF Emptied(f).res = "OK" THEN Opened(Emptied(f), a) ELSE Emptied(f))
<1> DEFINE x == Emptied(f)
<1>1. Runs(f, x) /\ (x.res = "OK" => OnFile(x)) BY EmptiedOk
<1> HIDE DEF x
<1>2. DirRuns(m, x) BY <1>1, DirRunsOn
<1>3. OpenedTo(m, x) BY <1>2, NotOpened
<1>4. x.res = "OK" => OpenedTo(x, Opened(x, a)) BY <1>1, OpenedOk
<1>5. x.res = "OK" => OpenedTo(m, Opened(x, a)) BY <1>4 DEF OpenedTo
<1> QED BY <1>3, <1>5 DEF x

LEMMA OpenFoundOk ==
  ASSUME NEW m, NEW f, NEW mode, NEW access, m.fp = NoFil, DirRuns(m, f), OnFile(f), f.res = "OK"
  PROVE OpenedTo(m, OpenFound(f, mode, access))
<1> DEFINE a == access \union {"WRITTEN"}
           x == IF Emptied(f).res = "OK" THEN Opened(Emptied(f), a) ELSE Emptied(f)
<1>1. OpenedTo(m, x) BY EmptiedOpened
<1>2. \A r : OpenedTo(m, Fail(f, r)) BY NotOpened
<1>3. OpenedTo(m, Opened(f, access))
  <2>1. OpenedTo(f, Opened(f, access)) BY OpenedOk
  <2> QED BY <2>1 DEF OpenedTo
<1>4. Then(Emptied(f), LAMBDA z : Opened(z, access \union {"WRITTEN"})) = x BY DEF Then
<1> HIDE DEF x, a
<1> QED BY <1>1, <1>2, <1>3, <1>4 DEF OpenFound

LEMMA OpenOk ==
  ASSUME NEW m, NEW way, NEW mode, NEW access, Len(way) \in Nat, way # <<>>,
         Slots[Last(way)] \in Nat, Good(m), DjOk(m.dj), m.fp = NoFil
  PROVE OpenedTo(m, FOpen(m, way, mode, access))
<1> DEFINE f == FollowPath(m, way)
           n == Last(way)
           r == DirRegister(f, n)
           a == access \union {"WRITTEN"}
           x == IF Emptied(r).res = "OK" THEN Opened(Emptied(r), a) ELSE Emptied(r)
           w == FOpen(m, way, mode, access)
<1>1. Followed(m, way, f) BY FollowOk
<1>2. w = IF f.res = "OK"
          THEN IF f.dj.entry THEN OpenFound(f, mode, access) ELSE Fail(f, "INVALID_NAME")
          ELSE IF f.res = "NO_FILE" /\ mode \in Creating
          THEN IF r.res = "OK" THEN x ELSE r
          ELSE f
  BY DEF FOpen, After, Then
<1> HIDE DEF f, n
<1>3. DirRuns(m, f) /\ Good(f) /\ DjOk(f.dj) /\ (f.res = "OK" => OnFile(f))
  BY <1>1 DEF Followed, Reached
<1>4. Met(f, r) BY <1>3, RegisterOk DEF n
<1> HIDE DEF r
<1>5. DirRuns(m, r) /\ (r.res = "OK" => OnFile(r)) BY <1>3, <1>4, DirRunsOn DEF Met
<1>6. r.res = "OK" => OpenedTo(m, x) BY <1>5, EmptiedOpened
<1> HIDE DEF x
<1>7. OpenedTo(m, r) BY <1>5, NotOpened
<1>8. OpenedTo(m, f) /\ OpenedTo(m, Fail(f, "INVALID_NAME")) BY <1>3, NotOpened
<1>9. f.res = "OK" => OpenedTo(m, OpenFound(f, mode, access)) BY <1>3, OpenFoundOk
<1> HIDE DEF w
<1> SUFFICES OpenedTo(m, w) BY DEF w
<1> QED BY <1>2, <1>6, <1>7, <1>8, <1>9

(* What the calls with a path have in common: they end with the volume as  *)
(* it has to be, whatever they return, and touch no file object.           *)
LEMMA ThenRuns ==                 \* sync and remove_chain behind a call
  ASSUME NEW m, NEW a, NEW c, DirRuns(m, a)
  PROVE /\ DirRuns(m, Sync(a)) /\ DirRuns(m, RemoveChain(a, c))
        /\ DirRuns(m, DirRemove(a)) /\ DirRuns(m, Then(a, Sync)) /\ DirRuns(m, Then(a, DirRemove))
<1>1. Good(a) /\ DjOk(a.dj) BY DirRunsOn
<1>2. Runs(a, Sync(a)) /\ Runs(a, RemoveChain(a, c)) BY <1>1, SyncRuns, RemoveRuns
<1>3. DirRuns(a, DirRemove(a)) BY <1>1, RemoveOk
<1>4. DirRuns(m, Sync(a)) /\ DirRuns(m, RemoveChain(a, c)) /\ DirRuns(m, DirRemove(a))
  BY <1>2, <1>3, DirRunsOn
<1> QED BY <1>4 DEF Then

(* f_unlink.                                                               *)
LEMMA EmptinessOk ==
  ASSUME NEW m, NEW c \in MayBeNone, Good(m), DjOk(m.dj)
  PROVE DirRuns(m, Emptiness(m, c))
<1> DEFINE d == [m EXCEPT !.dj.sclust = c]
           s == DirSdi(d, 2)
           q == DirRead(s)
           t == IF s.res = "OK" THEN q ELSE s
           r == DjPut(t, m.dj)
           w == Emptiness(m, c)
<1>1. DirRuns(m, d)
  <2>1. TRUE \in BOOLEAN OBVIOUS
  <2> QED BY <2>1, DjSet
<1>2. w = CASE r.res = "OK" -> Fail(r, "DENIED")
            [] r.res = "NO_FILE" -> Ok(r)
            [] OTHER -> r
  BY DEF Emptiness, After, Then, DjPut
<1> HIDE DEF d, w
<1>3. Good(d) /\ DjOk(d.dj) BY <1>1, DirRunsOn
<1>4. Pointed(d, 2, s) BY <1>3, SdiOk
<1> HIDE DEF s
<1>5. DirRuns(m, s) /\ Good(s) /\ DjOk(s.dj) /\ (s.res = "OK" => Points(s.dj))
  BY <1>1, <1>4, DirRunsOn DEF Pointed
<1>6. s.res = "OK" => Met(s, q) BY <1>5, ReadOk
<1> HIDE DEF q
<1>7. DirRuns(m, t) BY <1>5, <1>6, DirRunsOn DEF Met
<1> HIDE DEF t
<1>8. Good(t) BY <1>7, DirRunsOn
<1>9. DirRuns(t, r) BY <1>8, DjPutOk
<1>10. DirRuns(m, r) BY <1>7, <1>9, DirRunsOn
<1> HIDE DEF r
<1>11. DirRuns(m, Fail(r, "DENIED")) /\ DirRuns(m, Ok(r)) BY <1>10, DirFails
<1>12. w \in {Fail(r, "DENIED"), Ok(r), r} BY <1>2
<1> QED BY <1>10, <1>11, <1>12 DEF w

LEMMA RemovableOk ==
  ASSUME NEW m, NEW f, DirRuns(m, f), OnFile(f)
  PROVE DirRuns(m, Removable(f))
<1> DEFINE c == Here(f).clst
           e == Emptiness(f, c)
<1>1. c \in MayBeNone BY FileHere
<1>2. Good(f) /\ DjOk(f.dj) BY DirRunsOn
<1>3. Removable(f) \in {Fail(f, "DENIED"), f, Fail(f, "INT_ERR"), e} BY DEF Removable
<1> HIDE DEF c
<1>4. DirRuns(f, e) BY <1>1, <1>2, EmptinessOk
<1> HIDE DEF e
<1>5. DirRuns(m, e) BY <1>4, DirRunsOn
<1>6. DirRuns(m, Fail(f, "DENIED")) /\ DirRuns(m, Fail(f, "INT_ERR")) BY DirFails
<1> QED BY <1>3, <1>5, <1>6

LEMMA UnlinkOk ==
  ASSUME NEW m, NEW way, Len(way) \in Nat, way # <<>>, Good(m), DjOk(m.dj)
  PROVE DirRuns(m, FUnlink(m, way))
<1> DEFINE f == FollowPath(m, way)
           c == Here(f).clst
           a == Removable(f)
           b == Then(a, DirRemove)
           d == IF c = 0 THEN b ELSE RemoveChain(b, c)
           w == FUnlink(m, way)
<1>1. Followed(m, way, f) BY FollowOk
<1>2. w = IF f.res = "OK" THEN (IF b.res = "OK" THEN Then(d, Sync) ELSE b) ELSE f
  BY DEF FUnlink, Then
<1> HIDE DEF f, w
<1>3. DirRuns(m, f) /\ (f.res = "OK" => OnFile(f)) BY <1>1 DEF Followed, Reached
<1>4. CASE f.res # "OK" BY <1>2, <1>3, <1>4 DEF w
<1>5. CASE f.res = "OK"
  <2>1. DirRuns(m, a) BY <1>3, <1>5, RemovableOk
  <2> HIDE DEF a, c
  <2>2. DirRuns(m, b) BY <2>1, ThenRuns
  <2> HIDE DEF b
  <2>3. DirRuns(m, d) BY <2>2, ThenRuns
  <2> HIDE DEF d
  <2>4. DirRuns(m, Then(d, Sync)) BY <2>3, ThenRuns
  <2> QED BY <1>2, <1>5, <2>2, <2>4 DEF w
<1> QED BY <1>4, <1>5

(* f_chmod.                                                                *)
LEMMA ChmodOk ==
  ASSUME NEW m, NEW way, NEW ro, Len(way) \in Nat, way # <<>>, Good(m), DjOk(m.dj)
  PROVE DirRuns(m, FChmod(m, way, ro))
<1> DEFINE f == FollowPath(m, way)
           e == [Here(f) EXCEPT !.ro = ro]
           p == Put(f, e)
           w == FChmod(m, way, ro)
<1>1. Followed(m, way, f) BY FollowOk
<1>2. w \in {f, Sync(p), Fail(f, "INVALID_NAME")} /\ (w = Sync(p) => f.res = "OK" \/ w = f)
  BY DEF FChmod, Then
<1> HIDE DEF f, w
<1>3. DirRuns(m, f) /\ (f.res = "OK" => OnFile(f)) BY <1>1 DEF Followed, Reached
<1>4. DirRuns(m, Fail(f, "INVALID_NAME")) BY <1>3, DirFails
<1>5. ASSUME f.res = "OK" PROVE DirRuns(m, Sync(p))
  <2>1. EntryOk(Here(f)) /\ {"clst", "size", "kind"} \subseteq DOMAIN Here(f) BY <1>3, <1>5, FileHere
  <2>2. EntryOk(e) BY <2>1 DEF EntryOk
  <2> HIDE DEF e
  <2>3. Runs(f, p) BY <1>3, <1>5, <2>2, PutRuns DEF OnFile
  <2> HIDE DEF p
  <2>4. DirRuns(m, p) BY <1>3, <2>3, DirRunsOn
  <2> QED BY <2>4, ThenRuns
<1> QED BY <1>2, <1>3, <1>4, <1>5 DEF w

(* f_opendir and f_readdir: the directory object stays on an entry.        *)
LEMMA OpendirOk ==
  ASSUME NEW m, NEW way, Len(way) \in Nat, Good(m), DjOk(m.dj)
  PROVE LET w == FOpendir(m, way) IN DirRuns(m, w) /\ (w.res = "OK" => Points(w.dj))
<1> DEFINE f == FollowPath(m, way)
           c == Here(f).clst
           d == [f EXCEPT !.dj.sclust = c]
           s0 == DirSdi(f, 0)
           s1 == DirSdi(d, 0)
           r == IF f.res = "OK"
                THEN IF ~f.dj.entry THEN s0
                     ELSE IF Here(f).attr = "dir" THEN s1 ELSE Fail(f, "NO_PATH")
                ELSE f
           w == FOpendir(m, way)
           Leads(v) == DirRuns(m, v) /\ (v.res = "OK" => Points(v.dj))
<1>1. Followed(m, way, f) BY FollowOk
<1>2. w = IF r.res = "NO_FILE" THEN Fail(r, "NO_PATH") ELSE r BY DEF FOpendir, After, Then
<1> HIDE DEF f, w
<1>3. DirRuns(m, f) /\ Good(f) /\ DjOk(f.dj) /\ (f.res = "OK" /\ f.dj.entry => OnFile(f))
  BY <1>1 DEF Followed, Reached
<1>4. Pointed(f, 0, s0) BY <1>3, SdiOk
<1>5. Leads(s0) BY <1>3, <1>4, DirRunsOn DEF Pointed
<1>6. ASSUME f.res = "OK", f.dj.entry PROVE Leads(s1)
  <2>1. c \in MayBeNone BY <1>3, <1>6, FileHere
  <2>2. TRUE \in BOOLEAN OBVIOUS
  <2> HIDE DEF c
  <2>3. DirRuns(f, d) BY <1>3, <2>1, <2>2, DjSet
  <2> HIDE DEF d
  <2>4. Good(d) /\ DjOk(d.dj) BY <2>3, DirRunsOn
  <2>5. Pointed(d, 0, s1) BY <2>4, SdiOk
  <2> HIDE DEF s1
  <2> QED BY <1>3, <2>3, <2>5, DirRunsOn DEF Pointed
<1> HIDE DEF s0, s1
<1>7. DirRuns(m, Fail(f, "NO_PATH")) /\ Fail(f, "NO_PATH").res = "NO_PATH" BY <1>3, DirFails
<1>8. Leads(r) BY <1>3, <1>5, <1>6, <1>7
<1> HIDE DEF r
<1>9. DirRuns(m, Fail(r, "NO_PATH")) /\ Fail(r, "NO_PATH").res = "NO_PATH" BY <1>8, DirFails
<1> QED BY <1>2, <1>8, <1>9 DEF w

LEMMA ShownOk ==
  ASSUME NEW m, NEW a, NEW v, DirRuns(m, a)
  PROVE LET w == Shown(a, v) IN DirRuns(m, w) /\ w.dj = a.dj /\ w.val = v
BY ValDir DEF Shown

LEMMA EndedOk ==
  ASSUME NEW m, NEW a, NEW v, DirRuns(m, a)
  PROVE LET w == Ended(a, v) IN DirRuns(m, w) /\ w.dj.sect = 0 /\ w.val = v
<1> DEFINE d == [a.dj EXCEPT !.sect = 0]
           b == DjPut(a, d)
           c == Ok(b)
           w == Shown(c, v)
<1>1. Good(a) /\ DjOk(a.dj) BY DirRunsOn
<1>2. DjOk(d) /\ d.sect = 0 BY <1>1 DEF DjOk
<1>3. Ended(a, v) = w BY DEF Ended, DjPut
<1> HIDE DEF d
<1>4. DirRuns(a, b) /\ b.dj = d BY <1>1, <1>2, DjPutOk
<1> HIDE DEF b
<1>5. DirRuns(m, b) BY <1>4, DirRunsOn
<1>6. DirRuns(m, c) /\ c.dj = b.dj BY <1>5, DirFails
<1> HIDE DEF c
<1>7. DirRuns(m, w) /\ w.dj = c.dj /\ w.val = v BY <1>6, ShownOk
<1> QED BY <1>2, <1>3, <1>4, <1>6, <1>7

TellsOf(m, w) ==                    \* a listing goes on from an entry, or is over
  DirRuns(m, w) /\ (w.val # <<>> /\ w.dj.sect # 0 => Points(w.dj))

LEMMA SteppedOk ==
  ASSUME NEW m, NEW r, NEW sfn, DirRuns(m, r), Points(r.dj)
  PROVE TellsOf(m, Stepped(r, sfn))
<1> DEFINE n == DirNext(r, FALSE)
           v == IF n.res = "OK" THEN sfn ELSE <<>>
           w == Stepped(r, sfn)
<1>1. Good(r) /\ DjOk(r.dj) /\ FALSE \in BOOLEAN BY DirRunsOn
<1>2. NextOk(r, n) BY <1>1, NextEntry
<1>3. w = IF n.res = "NO_FILE" THEN Ended(n, sfn) ELSE Shown(n, v) BY DEF Stepped, After
<1> HIDE DEF n, w
<1>4. DirRuns(m, n) /\ (n.res = "OK" => Points(n.dj)) BY <1>2, DirRunsOn DEF NextOk
<1>5. n.res # "OK" => v = <<>> OBVIOUS
<1> HIDE DEF v
<1>6. DirRuns(m, Ended(n, sfn)) /\ Ended(n, sfn).dj.sect = 0 BY <1>4, EndedOk
<1>7. DirRuns(m, Shown(n, v)) /\ Shown(n, v).dj = n.dj /\ Shown(n, v).val = v BY <1>4, ShownOk
<1>8. CASE n.res = "NO_FILE" BY <1>3, <1>6, <1>8 DEF TellsOf, w
<1>9. CASE n.res # "NO_FILE" BY <1>3, <1>4, <1>5, <1>7, <1>9 DEF TellsOf, w
<1> QED BY <1>8, <1>9

LEMMA ReaddirOk ==
  ASSUME NEW m, Good(m), DjOk(m.dj), Points(m.dj)
  PROVE TellsOf(m, FReaddir(m))
<1> DEFINE r == DirRead(m)
           a == Stepped(r, Here(r).sfn)
           w == FReaddir(m)
<1>1. Met(m, r) BY ReadOk
<1>2. w = CASE r.res = "OK" -> a
            [] r.res = "NO_FILE" -> Ended(r, <<>>)
            [] OTHER -> Shown(r, <<>>)
  BY DEF FReaddir, After
<1> HIDE DEF r, w
<1>3. DirRuns(m, r) /\ (r.res = "OK" => Points(r.dj)) BY <1>1 DEF Met, OnFile, OnEntry
<1>4. r.res = "OK" => TellsOf(m, a) BY <1>3, SteppedOk
<1> HIDE DEF a
<1>5. DirRuns(m, Ended(r, <<>>)) /\ Ended(r, <<>>).dj.sect = 0 BY <1>3, EndedOk
<1>6. DirRuns(m, Shown(r, <<>>)) /\ Shown(r, <<>>).val = <<>> BY <1>3, ShownOk
<1>7. CASE r.res = "OK" BY <1>2, <1>4, <1>7 DEF w
<1>8. CASE r.res = "NO_FILE"
  <2>1. w = Ended(r, <<>>) BY <1>2, <1>8
  <2> QED BY <1>5, <2>1 DEF TellsOf, w
<1>9. CASE r.res \notin {"OK", "NO_FILE"}
  <2>1. w = Shown(r, <<>>) BY <1>2, <1>9
  <2> QED BY <1>6, <2>1 DEF TellsOf, w
<1> QED BY <1>7, <1>8, <1>9

(* f_mkdir.  While the sectors of the new table are written the window may *)
(* hold the dots under the number of a sector of the FAT, so the invariant *)
(* speaks of the window on the first of the new sectors.                   *)
DotsInv(p, k, y) ==
  /\ \A j \in 0..CSize - 1 : p.winsect + j \in Tables
  /\ LoopOk(y) /\ {"s", "n"} \subseteq DOMAIN y
  /\ y.on => /\ y.n \in 0..CSize /\ k = CSize - y.n /\ y.s = p.winsect + k
             /\ y.m.wflag = FALSE /\ Machine(y.m) /\ Runs(p, WindowAt(y.m, p.winsect))
             /\ k >= 1 => Good(y.m)
  /\ ~y.on => Runs(p, y.m) /\ y.m.res = "OK"
DotsLoop == INSTANCE LoopProofs WITH Body <- PutDotsOne, Inv <- DotsInv

WinAs(m, t) == [m EXCEPT !.win = t]
LEMMA WinAsOk ==
  ASSUME NEW m, NEW t, Machine(m)
  PROVE LET w == WinAs(m, t)
        IN /\ Machine(w) /\ w.disk = m.disk /\ SameInfo(m, w) /\ SameObjects(m, w)
           /\ w.winsect = m.winsect /\ w.wflag = m.wflag /\ w.win = t /\ w.res = m.res
BY DEF WinAs, Machine, Fields, SameInfo, SameObjects

DirtyAt(m, s) == [m EXCEPT !.winsect = s, !.wflag = TRUE]
LEMMA DirtyAtOk ==
  ASSUME NEW m, NEW s, Machine(m)
  PROVE LET w == DirtyAt(m, s)
        IN /\ Machine(w) /\ w.disk = m.disk /\ SameInfo(m, w) /\ SameObjects(m, w)
           /\ w.winsect = s /\ w.wflag = TRUE /\ w.win = m.win /\ w.res = m.res
BY DEF DirtyAt, Machine, Fields, SameInfo, SameObjects

LEMMA DotsStep ==
  ASSUME NEW p, NEW k \in Nat, NEW x, DotsInv(p, k, x), x.on
  PROVE DotsInv(p, k + 1, PutDotsOne(x))
<1> DEFINE m == x.m
           w == PutDotsOne(x)
           t == WindowAt(m, p.winsect)
<1>1. /\ LoopOk(x) /\ {"s", "n"} \subseteq DOMAIN x /\ x.n \in 0..CSize /\ k = CSize - x.n
      /\ x.s = p.winsect + k /\ m.wflag = FALSE /\ Machine(m) /\ Runs(p, t)
      /\ (k >= 1 => Good(m)) /\ \A j \in 0..CSize - 1 : p.winsect + j \in Tables
  BY DEF DotsInv
<1>3. /\ t.disk = m.disk /\ SameInfo(m, t) /\ SameObjects(m, t) /\ t.winsect = p.winsect
      /\ t.win = m.win /\ t.wflag = FALSE
  BY <1>1, WindowAtOk
<1>2. p.winsect \in Tables /\ p.winsect \in Nat
  <2>1. p.winsect + 0 \in Tables BY <1>1, Geometry
  <2>2. t.winsect \in Nat BY <1>1, WindowPlace DEF Runs
  <2> QED BY <1>3, <2>1, <2>2
<1> HIDE DEF t
<1>4. Good(t) /\ TableOk(m.win) BY <1>1, <1>2, <1>3, TableGood DEF Runs
<1>5. CASE x.n = 0
  <2> DEFINE b == Ok(m)
  <2>1. w = Stop(x, b) BY <1>5 DEF PutDotsOne
  <2>2. Good(m) BY <1>1, <1>5, Geometry
  <2>3. Labelled(m, b) /\ b.res = "OK" BY <1>1, FailOk
  <2> HIDE DEF b
  <2>4. SameObjects(p, b) BY <1>1, <1>3, <2>3 DEF Labelled, SameObjects, Runs
  <2>5. Runs(p, b) BY <2>2, <2>3, <2>4 DEF Labelled, Runs
  <2>6. LoopOk(w) /\ {"s", "n"} \subseteq DOMAIN w /\ ~w.on /\ w.m = b
    BY <2>1, <1>1 DEF LoopOk, Stop
  <2> HIDE DEF w
  <2> QED BY <1>1, <2>3, <2>5, <2>6 DEF DotsInv, w
<1>6. CASE x.n # 0
  <2> DEFINE u == DirtyAt(m, x.s)
             v == MoveWindow(u, 0)
             z == WinAs(v, Cleared)
  <2>1. x.n \in 1..CSize /\ k \in 0..CSize - 1 BY <1>1, <1>6, Geometry
  <2>2. x.s \in Tables /\ x.s \in Nat BY <1>1, <2>1, Layout
  <2>3. /\ Machine(u) /\ u.disk = m.disk /\ SameInfo(m, u) /\ SameObjects(m, u)
        /\ u.winsect = x.s /\ u.wflag = TRUE /\ u.win = m.win
    <3>1. Machine(m) BY <1>1
    <3> HIDE DEF m
    <3> QED BY <3>1, DirtyAtOk
  <2>4. w = OnOk(x, v, LAMBDA a : [x EXCEPT !.m = [a EXCEPT !.win = Cleared],
                                             !.s = @ + 1, !.n = @ - 1])
    BY <1>6 DEF PutDotsOne, DirtyAt
  <2> HIDE DEF u
  <2>5. Good(u)
    <3>1. u.disk = t.disk /\ SameInfo(t, u) BY <1>3, <2>3 DEF SameInfo
    <3> QED BY <1>2, <1>3, <1>4, <2>2, <2>3, <3>1, TableWindow
  <2>6. Moved(u, 0, v) /\ Runs(u, v) BY <2>5, MoveRuns DEF Places
  <2>7. v.res = "OK" /\ v.winsect = x.s /\ v.wflag = FALSE
        /\ Good(v) /\ Machine(v)
    BY <2>3, <2>6 DEF Moved, Runs, Good
  <2>8. w = [x EXCEPT !.m = z, !.s = @ + 1, !.n = @ - 1]
    BY <2>4, <2>7 DEF OnOk, WinAs
  <2> HIDE DEF v
  <2>9. /\ Machine(z) /\ z.disk = v.disk /\ SameInfo(v, z) /\ SameObjects(v, z)
        /\ z.winsect = x.s /\ z.wflag = FALSE /\ z.win = Cleared
    BY <2>7, WinAsOk
  <2> HIDE DEF z
  <2>10. Good(z) BY <2>2, <2>7, <2>9, ClearedOk, TableWindow
  <2>11. Runs(p, WindowAt(z, p.winsect))
    <3> DEFINE e == WindowAt(z, p.winsect)
    <3>1. /\ Machine(e) /\ e.disk = z.disk /\ SameInfo(z, e) /\ SameObjects(z, e)
          /\ e.winsect = p.winsect /\ e.wflag = FALSE /\ e.win = Cleared
      BY <2>9, WindowAtOk
    <3> HIDE DEF e
    <3>2. Good(e) BY <1>2, <2>2, <2>9, <2>10, <3>1, ClearedOk, TableWindow
    <3>3. SameObjects(p, e)
      BY <1>1, <1>3, <2>3, <2>6, <2>9, <3>1 DEF Runs, SameObjects
    <3> QED BY <3>2, <3>3 DEF Runs, e
  <2>12. /\ LoopOk(w) /\ {"s", "n"} \subseteq DOMAIN w /\ w.on /\ w.m = z
         /\ w.n = x.n - 1 /\ w.s = x.s + 1
    BY <2>8, <1>1 DEF LoopOk
  <2> HIDE DEF w
  <2>13. w.n \in 0..CSize /\ k + 1 = CSize - w.n /\ w.s = p.winsect + (k + 1)
    BY <1>1, <1>2, <2>1, <2>12, Geometry
  <2> QED BY <1>1, <2>9, <2>10, <2>11, <2>12, <2>13 DEF DotsInv, w
<1> QED BY <1>5, <1>6

LEMMA PutDotsOk ==
  ASSUME NEW m, NEW s, Machine(m), m.wflag = FALSE, Good(WindowAt(m, s)),
         \A j \in 0..CSize - 1 : s + j \in Tables
  PROVE LET w == PutDots(m, s)
        IN Good(w) /\ SameObjects(m, w) /\ w.res = "OK"
<1> DEFINE x == [on |-> TRUE, m |-> m, s |-> s, n |-> CSize]
           p == WindowAt(m, s)
           n == CSize + 1
           y == While(PutDotsOne, x, n)
<1>1. n \in Nat /\ CSize \in 0..CSize /\ 0 = CSize - CSize BY Geometry
<1>2. /\ SameObjects(m, p) /\ p.winsect = s BY WindowAtOk
<1>3. s \in Nat
  <2>1. p.winsect \in Nat BY WindowPlace
  <2> QED BY <1>2, <2>1
<1>4. DotsInv(p, 0, x)
  <2>1. Runs(p, p) BY RunsOn
  <2>2. x.m = m /\ x.s = s /\ x.n = CSize /\ LoopOk(x) /\ {"s", "n"} \subseteq DOMAIN x /\ x.on
    BY DEF LoopOk
  <2>3. WindowAt(x.m, p.winsect) = p BY <1>2, <2>2
  <2> HIDE DEF x, p
  <2> QED BY <1>1, <1>2, <1>3, <2>1, <2>2, <2>3 DEF DotsInv
<1>5. ASSUME NEW k \in Nat, NEW u, DotsInv(p, k, u) PROVE DotsInv(p, k + 1, Round(PutDotsOne, u))
  <2>1. CASE u.on BY <1>5, <2>1, DotsStep DEF Round
  <2>2. CASE ~u.on BY <1>5, <2>2 DEF Round, DotsInv
  <2> QED BY <2>1, <2>2
<1>6. PutDots(m, s) = Result(y) BY DEF PutDots
<1> HIDE DEF x, p
<1>7. DotsInv(p, n, DotsLoop!While(PutDotsOne, x, n))
  BY <1>1, <1>4, <1>5, SetInduction, DotsLoop!WhileKeeps DEF Round, DotsLoop!Round
<1>8. DotsInv(p, n, y) BY <1>7 DEF While, DotsLoop!While, Round, DotsLoop!Round
<1> HIDE DEF y
<1>9. ~y.on BY <1>8, Geometry DEF DotsInv
<1>10. Runs(p, y.m) /\ y.m.res = "OK" /\ Result(y) = y.m BY <1>8, <1>9 DEF DotsInv, Result
<1> QED BY <1>2, <1>6, <1>10 DEF Runs, SameObjects

LEMMA DotsOk ==
  ASSUME NEW m, NEW c
  PROVE TableOk(Dots(m, c)) /\ \A k : EntryOk(Dot("dotdot", k))
<1>1. \A k : EntryOk(Dot("dotdot", k)) /\ EntryOk(Dot("dot", k)) BY DEF EntryOk, Dot
<1>2. EntryOk(Blank) BY DEF EntryOk, Blank
<1>3. DOMAIN Dots(m, c) = 1..SS BY DEF Dots
<1>4. ASSUME NEW i \in 1..SS PROVE EntryOk(Dots(m, c)[i])
  <2>1. Dots(m, c)[i] = CASE i = 1 -> Dot("dot", c)
                          [] i = 2 -> Dot("dotdot", ParentOf(m))
                          [] OTHER -> Blank
    BY DEF Dots
  <2>2. CASE i = 1 BY <1>1, <2>1, <2>2
  <2>3. CASE i = 2 BY <1>1, <2>1, <2>3
  <2>4. CASE i \notin {1, 2} BY <1>2, <2>1, <2>4
  <2> QED BY <2>2, <2>3, <2>4
<1> QED BY <1>1, <1>3, <1>4 DEF TableOk

LEMMA TableMade ==
  ASSUME NEW m, NEW c \in Cluster, Good(m)
  PROVE LET w == Then(MoveWindow(m, 0), LAMBDA a :
                   PutDots([a EXCEPT !.win = Dots(a, c)], Clust2Sect(c)))
        IN Runs(m, w) /\ w.res = "OK"
<1> DEFINE v == MoveWindow(m, 0)
           t == Dots(v, c)
           a == WinAs(v, t)
           s == Clust2Sect(c)
           p == WindowAt(a, s)
           d == PutDots(a, s)
<1>1. Moved(m, 0, v) /\ Runs(m, v) BY MoveRuns DEF Places
<1>2. v.res = "OK" /\ v.wflag = FALSE /\ Good(v) /\ Machine(v) BY <1>1 DEF Moved, Runs, Good
<1>3. Then(v, LAMBDA b : PutDots([b EXCEPT !.win = Dots(b, c)], s)) = d
  BY <1>2 DEF Then, WinAs
<1>4. TableOk(t) BY DotsOk
<1>5. \A j \in 0..CSize - 1 : s + j \in Tables BY ClusterPlace
<1>6. s \in Tables
  <2>1. s + 0 \in Tables /\ s \in Nat BY <1>5, ClusterPlace, Geometry
  <2> QED BY <2>1
<1> HIDE DEF v, t, s
<1>7. /\ Machine(a) /\ a.disk = v.disk /\ SameInfo(v, a) /\ SameObjects(v, a)
      /\ a.wflag = FALSE /\ a.win = t
  BY <1>2, WinAsOk
<1> HIDE DEF a
<1>8. /\ Machine(p) /\ p.disk = v.disk /\ SameInfo(v, p) /\ p.winsect = s /\ p.wflag = FALSE
      /\ p.win = t
  BY <1>7, WindowAtOk DEF SameInfo
<1>9. Good(p)
  <2> HIDE DEF p
  <2> QED BY <1>2, <1>4, <1>6, <1>8, TableWindow
<1>10. Good(d) /\ SameObjects(a, d) /\ d.res = "OK" BY <1>5, <1>7, <1>9, PutDotsOk
<1> HIDE DEF d
<1>11. Runs(m, d) BY <1>1, <1>7, <1>10 DEF Runs, SameObjects
<1> QED BY <1>3, <1>10, <1>11 DEF s, v

LEMMA MakeTableOk ==
  ASSUME NEW m, NEW c \in Cluster, NEW n, Slots[n] \in Nat, Good(m), DjOk(m.dj)
  PROVE DirRuns(m, MakeTable(m, c, n))
<1> DEFINE d == Then(MoveWindow(m, 0), LAMBDA a :
                   PutDots([a EXCEPT !.win = Dots(a, c)], Clust2Sect(c)))
           r == DirRegister(d, n)
           e == [Here(r) EXCEPT !.attr = "dir", !.clst = c]
           p == Put(r, e)
           b == RemoveChain(r, c)
           w == MakeTable(m, c, n)
<1>1. Runs(m, d) /\ d.res = "OK" BY TableMade
<1>2. w = IF r.res = "OK" THEN Sync(p) ELSE Fail(b, r.res)
  BY <1>1 DEF MakeTable, After, Then, Announced
<1> HIDE DEF d
<1>3. DirRuns(m, d) /\ Good(d) /\ DjOk(d.dj) BY <1>1, DirRunsOn
<1>4. Met(d, r) BY <1>3, RegisterOk
<1> HIDE DEF r, w
<1>5. DirRuns(m, r) /\ (r.res = "OK" => OnFile(r)) BY <1>3, <1>4, DirRunsOn DEF Met
<1> SUFFICES DirRuns(m, w) BY DEF w
<1>6. CASE r.res = "OK"
  <2>1. EntryOk(Here(r)) /\ {"clst", "size", "kind"} \subseteq DOMAIN Here(r) BY <1>5, <1>6, FileHere
  <2>2. c \in MayBeNone BY DEF MayBeNone
  <2>3. EntryOk(e) BY <2>1, <2>2 DEF EntryOk
  <2> HIDE DEF e
  <2>4. Runs(r, p) BY <1>5, <1>6, <2>3, PutRuns DEF OnFile
  <2> HIDE DEF p
  <2>5. DirRuns(m, p) BY <1>5, <2>4, DirRunsOn
  <2> QED BY <1>2, <1>6, <2>5, ThenRuns
<1>7. CASE r.res # "OK"
  <2>1. DirRuns(m, b) BY <1>5, ThenRuns
  <2> HIDE DEF b
  <2>2. DirRuns(m, Fail(b, r.res)) BY <2>1, DirFails
  <2> QED BY <1>2, <1>7, <2>2
<1> QED BY <1>6, <1>7

LEMMA NewTableOk ==
  ASSUME NEW m, NEW n, Slots[n] \in Nat, Good(m), DjOk(m.dj)
  PROVE DirRuns(m, NewTable(m, n))
<1> DEFINE g == CreateChain(m, 0)
           r == IF g.val = 0 THEN "DENIED" ELSE Trouble(g.val)
           o == Ok(g)
           c == g.val
           t == MakeTable(o, c, n)
<1>1. Chained(m, 0, g) BY CreateOk
<1>2. NewTable(m, n) = IF c \in Cluster THEN t ELSE Fail(g, r)
  BY DEF NewTable, After
<1> HIDE DEF g
<1>3. DirRuns(m, g) BY <1>1, DirRunsOn DEF Chained
<1>4. DirRuns(m, Fail(g, r)) /\ DirRuns(m, o) BY <1>3, DirFails
<1> HIDE DEF o, c
<1>5. Good(o) /\ DjOk(o.dj) BY <1>4, DirRunsOn
<1>6. c \in Cluster => DirRuns(o, t) BY <1>5, MakeTableOk
<1> QED BY <1>2, <1>4, <1>6, DirRunsOn

LEMMA MkdirOk ==
  ASSUME NEW m, NEW way, Len(way) \in Nat, way # <<>>, Slots[Last(way)] \in Nat,
         Good(m), DjOk(m.dj)
  PROVE DirRuns(m, FMkdir(m, way))
<1> DEFINE f == FollowPath(m, way)
           n == Last(way)
           t == NewTable(f, n)
<1>1. Followed(m, way, f) BY FollowOk
<1>2. FMkdir(m, way) \in {Fail(f, "EXIST"), t, f} BY DEF FMkdir, After
<1> HIDE DEF f, n
<1>3. DirRuns(m, f) /\ Good(f) /\ DjOk(f.dj) BY <1>1 DEF Followed
<1>4. DirRuns(f, t) BY <1>3, NewTableOk DEF n
<1> HIDE DEF t
<1>5. DirRuns(m, t) /\ DirRuns(m, Fail(f, "EXIST")) BY <1>3, <1>4, DirRunsOn, DirFails
<1> QED BY <1>2, <1>3, <1>5

(* f_rename.                                                               *)
LEMMA ToParentOk ==
  ASSUME NEW m, NEW a, NEW old, NEW e, e.clst \in MayBeNone, DirRuns(m, a)
  PROVE DirRuns(m, ToParent(a, old, e))
<1> DEFINE s == Clust2Sect(e.clst)
           v == MoveWindow(a, s)
           t == Dot("dotdot", ParentOf(v))
           q == SetEntry(v, 2, t)
           w == ToParent(a, old, e)
<1>1. Good(a) BY DirRunsOn
<1>2. w \in {a, Fail(a, "INT_ERR")} \/ (s # 0 /\ w \in {q, v})
  BY DEF ToParent, Then, SetEntry
<1>3. DirRuns(m, Fail(a, "INT_ERR")) BY DirFails
<1>4. ASSUME s # 0 PROVE DirRuns(m, v) /\ DirRuns(m, q)
  <2>1. e.clst \in Cluster BY <1>4 DEF Clust2Sect
  <2>2. s \in Tables
    <3>1. s + 0 \in Tables /\ s \in Nat BY <2>1, ClusterPlace, Geometry
    <3> QED BY <3>1
  <2>3. s \in Places BY <2>2 DEF Places
  <2>4. EntryOk(t) BY DotsOk
  <2> HIDE DEF t, s
  <2>5. Moved(a, s, v) /\ Runs(a, v) BY <1>1, <2>3, MoveRuns
  <2>6. Good(v) /\ v.winsect \in Tables BY <1>4, <2>2, <2>5 DEF Moved, Runs
  <2> HIDE DEF v
  <2>7. Runs(v, q) BY <2>4, <2>6, EntryWritten DEF EntryPut
  <2> HIDE DEF q
  <2> QED BY <2>5, <2>7, DirRunsOn
<1> HIDE DEF s, v, t, q, w
<1> QED BY <1>2, <1>3, <1>4 DEF w

Entered(f, n, e, d) ==             \* the new entry, then the old one goes
  Then(Then(DirRegister(f, n),
            LAMBDA r : ToParent(Put(r, [e EXCEPT !.sfn = Here(r).sfn]), d, e)),
       LAMBDA r : Then(DirRemove([r EXCEPT !.dj = d]), Sync))

LEMMA EnteredOk ==
  ASSUME NEW m, NEW f, NEW n, NEW e, NEW d, Slots[n] \in Nat, DirRuns(m, f), DjOk(d),
         EntryOk(e), e.kind = "entry", {"clst", "size", "kind"} \subseteq DOMAIN e
  PROVE DirRuns(m, Entered(f, n, e, d))
<1> DEFINE r == DirRegister(f, n)
           c == [e EXCEPT !.sfn = Here(r).sfn]
           p == Put(r, c)
           t == ToParent(p, d, e)
           a == IF r.res = "OK" THEN t ELSE r
           b == DjPut(a, d)
           x == DirRemove(b)
           y == Then(x, Sync)
           w == IF a.res = "OK" THEN y ELSE a
<1>1. Entered(f, n, e, d) = w BY DEF Entered, Then, DjPut
<1>2. Good(f) /\ DjOk(f.dj) BY DirRunsOn
<1>3. Met(f, r) BY <1>2, RegisterOk
<1>4. e.clst \in MayBeNone BY DEF EntryOk
<1>5. EntryOk(c) BY DEF EntryOk
<1> HIDE DEF r, c
<1>6. DirRuns(m, r) /\ (r.res = "OK" => OnFile(r)) BY <1>3, DirRunsOn DEF Met
<1>7. ASSUME r.res = "OK" PROVE DirRuns(m, t)
  <2>1. Runs(r, p) BY <1>5, <1>6, <1>7, PutRuns DEF OnFile
  <2> HIDE DEF p
  <2>2. DirRuns(m, p) BY <1>6, <2>1, DirRunsOn
  <2> QED BY <1>4, <2>2, ToParentOk
<1> HIDE DEF t
<1>8. DirRuns(m, a) BY <1>6, <1>7
<1> HIDE DEF a
<1>9. Good(a) BY <1>8, DirRunsOn
<1>10. DirRuns(a, b) BY <1>9, DjPutOk
<1> HIDE DEF b
<1>11. DirRuns(m, b) BY <1>8, <1>10, DirRunsOn
<1>12. DirRuns(m, x) BY <1>11, ThenRuns
<1> HIDE DEF x
<1>13. DirRuns(m, y) BY <1>12, ThenRuns
<1> HIDE DEF y
<1>14. DirRuns(m, w) BY <1>8, <1>13
<1> QED BY <1>1, <1>14

LEMMA RenameOk ==
  ASSUME NEW m, NEW from, NEW to, Len(from) \in Nat, from # <<>>, Len(to) \in Nat, to # <<>>,
         Slots[Last(to)] \in Nat, Good(m), DjOk(m.dj)
  PROVE DirRuns(m, FRename(m, from, to))
<1> DEFINE o == FollowPath(m, from)
           e == Here(o)
           f == FollowPath(o, to)
           n == Last(to)
           d == o.dj
           a == Entered(f, n, e, d)
           w == FRename(m, from, to)
<1>1. Followed(m, from, o) BY FollowOk
<1>2. w = IF o.res = "OK"
          THEN CASE f.res = "OK" -> Fail(f, "EXIST")
                 [] f.res = "NO_FILE" -> a
                 [] OTHER -> f
          ELSE o
  BY Zenon DEF FRename, Then, After, Entered
<1> HIDE DEF o, w
<1>3. DirRuns(m, o) /\ Good(o) /\ DjOk(o.dj) /\ (o.res = "OK" => OnFile(o))
  BY <1>1 DEF Followed, Reached
<1>4. Followed(o, to, f) BY <1>3, FollowOk
<1> HIDE DEF f
<1>5. DirRuns(m, f) BY <1>3, <1>4, DirRunsOn DEF Followed
<1>6. DirRuns(m, Fail(f, "EXIST")) BY <1>5, DirFails
<1>7. ASSUME o.res = "OK" PROVE DirRuns(m, a)
  <2>1. EntryOk(e) /\ e.kind = "entry" /\ {"clst", "size", "kind"} \subseteq DOMAIN e
    BY <1>3, <1>7, FileHere
  <2>2. Slots[n] \in Nat OBVIOUS
  <2>3. DjOk(d) BY <1>3
  <2> HIDE DEF e, n, d
  <2> QED BY <1>5, <2>1, <2>2, <2>3, EnteredOk
<1> HIDE DEF a
<1>8. w \in {Fail(f, "EXIST"), a, f, o} /\ (w = a /\ w # f /\ w # o /\ w # Fail(f, "EXIST") => o.res = "OK")
  BY <1>2
<1> QED BY <1>3, <1>5, <1>6, <1>7, <1>8 DEF w

(* The calls of the program: every one that is not cut off by a loss of    *)
(* power runs without a fault, on the volume as the last one left it.      *)
LEMMA NoFaults ==
  ASSUME Dead \subseteq {TRUE}, NEW f \in Faults, ~f.dead
  PROVE f = NoFault
BY DEF Faults

LEMMA ViewIs ==
  ASSUME NEW fp, NEW dj
  PROVE LET w == View(NoFault, fp, dj)
        IN /\ Machine(w) /\ SameVol(vol, w) /\ w.fp = fp /\ w.dj = dj /\ w.res = "OK"
           /\ VolOk(vol) => Good(w)
<1> DEFINE w == View(NoFault, fp, dj)
<1>1. Machine(w) /\ SameVol(vol, w) /\ w.fp = fp /\ w.dj = dj /\ w.res = "OK"
  BY DEF View, NoFault, Machine, Fields, SameVol, SameInfo
<1> HIDE DEF w
<1>2. VolOk(vol) => Good(w) BY <1>1, SameVolOk DEF Good
<1> QED BY <1>1, <1>2 DEF w

LEMMA CheckedOk ==                \* the volume is mounted for the call
  ASSUME FatInv, ~lost
  PROVE LET w == Checked(NoFault) IN Good(w) /\ w.res = "OK" /\ w.fp = NoFil /\ DjOk(w.dj)
<1> DEFINE v == View(NoFault, NoFil, NoDir)
           u == Mount(v)
           w == Checked(NoFault)
<1>1. Machine(v) /\ SameVol(vol, v) /\ v.fp = NoFil /\ v.dj = NoDir /\ v.res = "OK"
      /\ (VolOk(vol) => Good(v))
  BY ViewIs
<1>2. w = IF vol.mounted THEN v ELSE u BY DEF Checked, After
<1> HIDE DEF v, w
<1>3. DjOk(NoDir)
  <2>1. 0 \in MayBeNone /\ NoLong \in Nat /\ 0 \in Nat /\ FALSE \in BOOLEAN BY DEF MayBeNone, NoLong
  <2> QED BY <2>1 DEF DjOk, NoDir
<1>4. CASE vol.mounted
  <2>1. VolOk(vol) BY <1>4 DEF FatInv
  <2> QED BY <1>1, <1>2, <1>3, <1>4, <2>1 DEF w
<1>5. CASE ~vol.mounted
  <2>1. vol = OffLine(Formatted) BY <1>5 DEF FatInv
  <2>2. v.disk = Formatted BY <1>1, <2>1 DEF OffLine, SameVol
  <2>3. Runs(v, u) /\ u.res = "OK" BY <1>1, <2>2, MountOk
  <2> HIDE DEF u
  <2>4. Good(u) /\ u.res = "OK" /\ u.fp = NoFil /\ u.dj = NoDir BY <1>1, <2>3 DEF Runs, SameObjects
  <2> QED BY <1>2, <1>3, <1>5, <2>4 DEF w
<1> QED BY <1>4, <1>5

LEMMA KeptOk ==
  ASSUME FatInv, ~lost, NEW m, Good(m)
  PROVE Kept(NoFault, m).mounted = TRUE /\ VolOk(Kept(NoFault, m))
<1> DEFINE k == Kept(NoFault, m)
<1>0. Checked(NoFault).res = "OK" BY CheckedOk
<1>1. SameVol(m, k) /\ k.mounted = TRUE BY <1>0 DEF Kept, SameVol, SameInfo
<1> HIDE DEF k
<1>2. VolOk(k) BY <1>1, SameVolOk DEF Good
<1> QED BY <1>1, <1>2 DEF k

LEMMA FileView ==                 \* an open file object and its volume
  ASSUME FatInv, ~lost, NEW h \in Handle, fil[h].open
  PROVE LET w == View(NoFault, fil[h], NoDir) IN Fit(w) /\ w.res = "OK"
<1> DEFINE f == fil[h]
           w == View(NoFault, f, NoDir)
<1>1. vol.mounted /\ VolOk(vol) /\ FilOk(f) BY DEF FatInv
<1>2. Good(w) /\ w.fp = f /\ w.res = "OK" BY <1>1, ViewIs
<1>3. f.open = TRUE /\ FileOk(f) BY <1>1 DEF FilOk
<1> HIDE DEF w, f
<1>4. Fit(w) BY <1>2, <1>3, FitFile
<1> QED BY <1>2, <1>4 DEF w, f

(* What a step leaves behind.                                              *)
LEMMA DarkKeeps ==
  ASSUME NEW f, NEW m, NEW call, Dark(f, m, call), call # "none"
  PROVE FatInv'
<1>1. lost' BY DEF Dark, lost
<1>2. fil' \in [Handle -> {fil'[h] : h \in Handle}] BY DEF Dark
<1>3. DOMAIN list' = DOMAIN NotListing /\ list'.on \in BOOLEAN
  BY DEF Dark, NotListing
<1> QED BY <1>1, <1>2, <1>3 DEF FatInv

LEMMA FileKeeps ==                \* a call on the file object h has returned
  ASSUME FatInv, NEW h \in Handle, NEW m, vol' = Kept(NoFault, m), UNCHANGED cut, list' = list,
         fil' = [fil EXCEPT ![h] = m.fp], ~lost => Good(m) /\ FilOk(m.fp)
  PROVE FatInv'
<1>1. fil' \in [Handle -> {fil'[x] : x \in Handle}] BY DEF FatInv
<1>2. CASE lost BY <1>1, <1>2 DEF FatInv, lost
<1>3. CASE ~lost
  <2>1. vol'.mounted = TRUE /\ VolOk(vol') BY <1>3, KeptOk
  <2>2. \A x \in Handle : fil'[x] = IF x = h THEN m.fp ELSE fil[x] BY DEF FatInv
  <2>3. \A x \in Handle : FilOk(fil'[x]) BY <1>3, <2>2 DEF FatInv
  <2>4. list'.on => DjOk(list'.dj) /\ Points(list'.dj) BY <1>3 DEF FatInv
  <2>5. DOMAIN list' = DOMAIN NotListing /\ list'.on \in BOOLEAN BY DEF FatInv
  <2> QED BY <1>1, <2>1, <2>3, <2>4, <2>5 DEF FatInv
<1> QED BY <1>2, <1>3

Listing(d) ==                     \* what FatInv says of a listing d
  /\ DOMAIN d = DOMAIN NotListing /\ d.on \in BOOLEAN
  /\ ~lost /\ d.on => DjOk(d.dj) /\ Points(d.dj)

LEMMA PathKeeps ==                \* a call that touches no file object has returned
  ASSUME FatInv, NEW m, vol' = Kept(NoFault, m), UNCHANGED cut, UNCHANGED fil,
         ~lost => Good(m), NEW d, list' = d, Listing(d)
  PROVE FatInv'
<1>1. fil' \in [Handle -> {fil'[x] : x \in Handle}] BY DEF FatInv
<1>2. CASE lost BY <1>1, <1>2 DEF FatInv, lost, Listing
<1>3. CASE ~lost
  <2>1. vol'.mounted = TRUE /\ VolOk(vol') BY <1>3, KeptOk
  <2>3. \A x \in Handle : FilOk(fil'[x]) BY <1>3 DEF FatInv
  <2> QED BY <1>1, <1>3, <2>1, <2>3 DEF FatInv, Listing
<1> QED BY <1>2, <1>3

LEMMA StayKeeps ==                \* a listing that only forgets what has gone
  ASSUME FatInv, NEW s
  PROVE Listing(list) /\ Listing([list EXCEPT !.stay = s]) /\ Listing(NotListing)
        /\ Listing([NotListing EXCEPT !.seen = s])
<1>1. Listing(list) BY DEF Listing, FatInv
<1>2. Listing([list EXCEPT !.stay = s]) BY <1>1 DEF Listing, NotListing
<1>3. Listing(NotListing) BY DEF Listing, NotListing
<1>4. Listing([NotListing EXCEPT !.seen = s]) BY DEF Listing, NotListing
<1> QED BY <1>1, <1>2, <1>3, <1>4

LEMMA PathNames ==
  ASSUME NEW p \in Path \union Folder
  PROVE Len(p) \in Nat /\ p # <<>> /\ Slots[Last(p)] \in Nat
<1>1. p \in Seq(Names) /\ p # <<>> BY CallsAssumption DEF CallsAssumption
<1>2. Len(p) \in 1..Len(p) /\ Len(p) \in Nat BY <1>1, LenProperties, EmptySeq
<1>3. p[Len(p)] \in Names BY <1>1, <1>2, ElementOfSeq
<1>4. Last(p) \in Names BY <1>3 DEF Last
<1> QED BY <1>1, <1>2, <1>4, NamesAssumption DEF NamesAssumption

LEMMA FitIs ==
  ASSUME NEW m, Fit(m)
  PROVE Good(m) /\ FilOk(m.fp)
BY FitFile DEF FilOk

(* A call on the file object h, cut off or returned.                       *)
FileStep(f, m, h, call) ==
  \/ Dark(f, m, call)
  \/ Returns(f, m) /\ fil' = [fil EXCEPT ![h] = m.fp] /\ UNCHANGED list

LEMMA FileCalled ==
  ASSUME Dead \subseteq {TRUE}, FatInv, NEW h \in Handle, NEW f \in Faults, NEW m,
         NEW call, call # "none", FileStep(f, m, h, call),
         f = NoFault /\ ~lost => Good(m) /\ FilOk(m.fp)
  PROVE FatInv'
<1>1. CASE Dark(f, m, call) BY <1>1, DarkKeeps
<1>2. CASE Returns(f, m) /\ fil' = [fil EXCEPT ![h] = m.fp] /\ UNCHANGED list
  <2>1. f = NoFault /\ vol' = Kept(NoFault, m) /\ UNCHANGED cut BY <1>2, NoFaults DEF Returns
  <2> QED BY <1>2, <2>1, FileKeeps
<1> QED BY <1>1, <1>2 DEF FileStep

LEMMA OpenKeeps ==
  ASSUME Dead \subseteq {TRUE}, FatInv, NEW h \in Handle, NEW p \in Path, NEW mode, NEW access,
         Open(h, p, mode, access)
  PROVE FatInv'
<1> DEFINE call == IF mode = "CREATE" THEN "overwrite" ELSE "other"
           c == Checked(NoFault)
           o == FOpen(c, p, mode, access)
<1>0. PICK f \in Faults : \E m : /\ m = OnPath(f, LAMBDA x : FOpen(x, p, mode, access))
                                 /\ FileStep(f, m, h, call)
  BY DEF Open, FileStep
<1>1. PICK m : /\ m = OnPath(f, LAMBDA x : FOpen(x, p, mode, access))
               /\ FileStep(f, m, h, call)
  BY <1>0
<1>2. call # "none" OBVIOUS
<1>3. ASSUME f = NoFault, ~lost PROVE Good(m) /\ FilOk(m.fp)
  <2>1. m = IF c.res = "OK" THEN o ELSE c BY <1>1, <1>3 DEF OnPath, Then
  <2>2. Good(c) /\ c.fp = NoFil /\ DjOk(c.dj) BY <1>3, CheckedOk
  <2>3. Len(p) \in Nat /\ p # <<>> /\ Slots[Last(p)] \in Nat BY PathNames
  <2> HIDE DEF c
  <2>4. OpenedTo(c, o) BY <2>2, <2>3, OpenOk
  <2>5. FilOk(NoFil) BY DEF FilOk, NoFil
  <2> HIDE DEF o
  <2> QED BY <2>1, <2>2, <2>4, <2>5 DEF OpenedTo
<1> HIDE DEF call
<1> QED BY <1>1, <1>2, <1>3, FileCalled

LEMMA ReadKeeps ==
  ASSUME Dead \subseteq {TRUE}, FatInv, NEW h \in Handle, NEW n \in Nat, Read(h, n)
  PROVE FatInv'
<1> DEFINE v == View(NoFault, fil[h], NoDir)
           w == FRead(v, n)
<1>0. PICK f \in Faults : \E m : m = OnFil(f, h, LAMBDA x : FRead(x, n)) /\ FileStep(f, m, h, "other")
  BY DEF Read, FileStep
<1>1. PICK m : m = OnFil(f, h, LAMBDA x : FRead(x, n)) /\ FileStep(f, m, h, "other")
  BY <1>0
<1>2. "other" # "none" OBVIOUS
<1>3. ASSUME f = NoFault, ~lost PROVE Good(m) /\ FilOk(m.fp)
  <2>1. m = w BY <1>1, <1>3 DEF OnFil
  <2>2. fil[h].open BY DEF Read
  <2>3. Fit(v) /\ v.res = "OK" BY <1>3, <2>2, FileView
  <2> HIDE DEF v
  <2>4. Fit(w) BY <2>3, ReadFit
  <2> QED BY <2>1, <2>4, FitIs
<1> QED BY <1>1, <1>2, <1>3, FileCalled

LEMMA StampedOk ==
  ASSUME NEW n \in Nat
  PROVE \E B : Stamped(n) \in Seq(B) /\ \A e \in B : EntryOk(e)
<1> DEFINE B == {[kind |-> "byte", of |-> <<moves, i>>] : i \in 1..n}
<1>1. Stamped(n) \in [1..n -> B] BY DEF Stamped
<1>2. Stamped(n) \in Seq(B)
  <2> HIDE DEF B
  <2> QED BY <1>1, SeqDef
<1>3. \A e \in B : EntryOk(e) BY DEF EntryOk
<1> QED BY <1>2, <1>3

LEMMA WriteKeeps ==
  ASSUME Dead \subseteq {TRUE}, FatInv, NEW h \in Handle, NEW n \in Nat, Write(h, n)
  PROVE FatInv'
<1> DEFINE v == View(NoFault, fil[h], NoDir)
           w == FWrite(v, Stamped(n))
<1>0. PICK f \in Faults : \E m : m = OnFil(f, h, LAMBDA x : FWrite(x, Stamped(n))) /\ FileStep(f, m, h, "other")
  BY DEF Write, FileStep
<1>1. PICK m : m = OnFil(f, h, LAMBDA x : FWrite(x, Stamped(n))) /\ FileStep(f, m, h, "other")
  BY <1>0
<1>2. "other" # "none" OBVIOUS
<1>3. ASSUME f = NoFault, ~lost PROVE Good(m) /\ FilOk(m.fp)
  <2>1. m = w BY <1>1, <1>3 DEF OnFil
  <2>2. fil[h].open BY DEF Write, Writers, WritersOf
  <2>3. Fit(v) /\ v.res = "OK" BY <1>3, <2>2, FileView
  <2> DEFINE u == Stamped(n)
  <2>4. PICK B : u \in Seq(B) /\ \A e \in B : EntryOk(e) BY StampedOk
  <2>5. w = FWrite(v, u) OBVIOUS
  <2> HIDE DEF v, u, w
  <2>6. Fit(w) BY <2>3, <2>4, <2>5, WriteFit
  <2> QED BY <2>1, <2>6, FitIs
<1> QED BY <1>1, <1>2, <1>3, FileCalled

LEMMA LseekKeeps ==
  ASSUME Dead \subseteq {TRUE}, FatInv, NEW h \in Handle, NEW ofs \in Nat, Lseek(h, ofs)
  PROVE FatInv'
<1> DEFINE v == View(NoFault, fil[h], NoDir)
           w == FLseek(v, ofs)
<1>0. PICK f \in Faults : \E m : m = OnFil(f, h, LAMBDA x : FLseek(x, ofs)) /\ FileStep(f, m, h, "other")
  BY DEF Lseek, OfFil, FileStep
<1>1. PICK m : m = OnFil(f, h, LAMBDA x : FLseek(x, ofs)) /\ FileStep(f, m, h, "other")
  BY <1>0
<1>2. "other" # "none" OBVIOUS
<1>3. ASSUME f = NoFault, ~lost PROVE Good(m) /\ FilOk(m.fp)
  <2>1. m = w BY <1>1, <1>3 DEF OnFil
  <2>2. fil[h].open BY DEF Lseek, OfFil
  <2>3. Fit(v) /\ v.res = "OK" BY <1>3, <2>2, FileView
  <2> HIDE DEF v
  <2>4. Fit(w) BY <2>3, LseekFit
  <2> QED BY <2>1, <2>4, FitIs
<1> QED BY <1>1, <1>2, <1>3, FileCalled

LEMMA SyncKeeps ==
  ASSUME Dead \subseteq {TRUE}, FatInv, NEW h \in Handle, SyncFile(h)
  PROVE FatInv'
<1> DEFINE v == View(NoFault, fil[h], NoDir)
           w == FSync(v)
<1>0. PICK f \in Faults : \E m : m = OnFil(f, h, FSync) /\ FileStep(f, m, h, "other")
  BY DEF SyncFile, OfFil, FileStep
<1>1. PICK m : m = OnFil(f, h, FSync) /\ FileStep(f, m, h, "other")
  BY <1>0
<1>2. "other" # "none" OBVIOUS
<1>3. ASSUME f = NoFault, ~lost PROVE Good(m) /\ FilOk(m.fp)
  <2>1. m = w BY <1>1, <1>3 DEF OnFil
  <2>2. fil[h].open BY DEF SyncFile, OfFil
  <2>3. Fit(v) /\ v.res = "OK" BY <1>3, <2>2, FileView
  <2> HIDE DEF v
  <2>4. Fit(w) BY <2>3, SyncFit
  <2> QED BY <2>1, <2>4, FitIs
<1> QED BY <1>1, <1>2, <1>3, FileCalled

LEMMA CloseKeeps ==
  ASSUME Dead \subseteq {TRUE}, FatInv, NEW h \in Handle, Close(h)
  PROVE FatInv'
<1> DEFINE v == View(NoFault, fil[h], NoDir)
           w == FClose(v)
<1>0. PICK f \in Faults : \E m : m = OnFil(f, h, FClose) /\ FileStep(f, m, h, "other")
  BY DEF Close, OfFil, FileStep
<1>1. PICK m : m = OnFil(f, h, FClose) /\ FileStep(f, m, h, "other")
  BY <1>0
<1>2. "other" # "none" OBVIOUS
<1>3. ASSUME f = NoFault, ~lost PROVE Good(m) /\ FilOk(m.fp)
  <2>1. m = w BY <1>1, <1>3 DEF OnFil
  <2>2. fil[h].open BY DEF Close, OfFil
  <2>3. Fit(v) /\ v.res = "OK" BY <1>3, <2>2, FileView
  <2> HIDE DEF v
  <2>4. Good(w) /\ w.fp = NoFil BY <2>3, CloseOk
  <2>5. FilOk(NoFil) BY DEF FilOk, NoFil
  <2> QED BY <2>1, <2>4, <2>5
<1> QED BY <1>1, <1>2, <1>3, FileCalled

(* A call on a path that may change the volume, cut off or returned.       *)
PathStep(f, m, call, q) ==
  \/ Dark(f, m, call)
  \/ Returns(f, m) /\ Stay(q) /\ UNCHANGED fil

LEMMA PathCalled ==
  ASSUME Dead \subseteq {TRUE}, FatInv, NEW f \in Faults, NEW m, NEW q,
         NEW call, call # "none", PathStep(f, m, call, q),
         f = NoFault /\ ~lost => Good(m)
  PROVE FatInv'
<1>1. CASE Dark(f, m, call) BY <1>1, DarkKeeps
<1>2. CASE Returns(f, m) /\ Stay(q) /\ UNCHANGED fil
  <2>1. f = NoFault /\ vol' = Kept(NoFault, m) /\ UNCHANGED cut BY <1>2, NoFaults DEF Returns
  <2> DEFINE s == IF list.on THEN list.stay \ {q} ELSE list.stay
             d == [list EXCEPT !.stay = s]
  <2>2. list' = d BY <1>2 DEF Stay
  <2>3. Listing(d)
    <3> HIDE DEF s
    <3> QED BY StayKeeps
  <2> HIDE DEF d
  <2> QED BY <1>2, <2>1, <2>2, <2>3, PathKeeps
<1> QED BY <1>1, <1>2 DEF PathStep

LEMMA PathView ==                 \* the call begins on a volume that is mounted
  ASSUME FatInv, ~lost, NEW m, NEW w,
         m = IF Checked(NoFault).res = "OK" THEN w ELSE Checked(NoFault),
         DirRuns(Checked(NoFault), w)
  PROVE Good(m)
BY CheckedOk, DirRunsOn

LEMMA UnlinkKeeps ==
  ASSUME Dead \subseteq {TRUE}, FatInv, NEW p \in Path \union Folder, Unlink(p)
  PROVE FatInv'
<1> DEFINE c == Checked(NoFault)
           w == FUnlink(c, p)
<1>0. PICK f \in Faults : \E m : m = OnPath(f, LAMBDA x : FUnlink(x, p)) /\ PathStep(f, m, "unlink", p)
  BY DEF Unlink, OfPath, PathStep
<1>1. PICK m : m = OnPath(f, LAMBDA x : FUnlink(x, p)) /\ PathStep(f, m, "unlink", p)
  BY <1>0
<1>2. "unlink" # "none" OBVIOUS
<1>3. ASSUME f = NoFault, ~lost PROVE Good(m)
  <2>1. m = IF c.res = "OK" THEN w ELSE c BY <1>1, <1>3 DEF OnPath, Then
  <2>2. Good(c) /\ DjOk(c.dj) BY <1>3, CheckedOk
  <2>3. Len(p) \in Nat /\ p # <<>> /\ Slots[Last(p)] \in Nat BY PathNames
  <2> HIDE DEF c
  <2>4. DirRuns(c, w) BY <2>2, <2>3, UnlinkOk
  <2> HIDE DEF w
  <2> QED BY <1>3, <2>1, <2>4, PathView DEF c
<1> QED BY <1>1, <1>2, <1>3, PathCalled

LEMMA MkdirKeeps ==
  ASSUME Dead \subseteq {TRUE}, FatInv, NEW p \in Folder, Mkdir(p)
  PROVE FatInv'
<1> DEFINE c == Checked(NoFault)
           w == FMkdir(c, p)
<1>0. PICK f \in Faults : \E m : m = OnPath(f, LAMBDA x : FMkdir(x, p)) /\ PathStep(f, m, "other", <<>>)
  BY DEF Mkdir, OfPath, PathStep
<1>1. PICK m : m = OnPath(f, LAMBDA x : FMkdir(x, p)) /\ PathStep(f, m, "other", <<>>)
  BY <1>0
<1>2. "other" # "none" OBVIOUS
<1>3. ASSUME f = NoFault, ~lost PROVE Good(m)
  <2>1. m = IF c.res = "OK" THEN w ELSE c BY <1>1, <1>3 DEF OnPath, Then
  <2>2. Good(c) /\ DjOk(c.dj) BY <1>3, CheckedOk
  <2>3. Len(p) \in Nat /\ p # <<>> /\ Slots[Last(p)] \in Nat BY PathNames
  <2> HIDE DEF c
  <2>4. DirRuns(c, w) BY <2>2, <2>3, MkdirOk
  <2> HIDE DEF w
  <2> QED BY <1>3, <2>1, <2>4, PathView DEF c
<1> QED BY <1>1, <1>2, <1>3, PathCalled

LEMMA RenameKeeps ==
  ASSUME Dead \subseteq {TRUE}, FatInv, NEW p \in Path, NEW q \in Path, Rename(p, q)
  PROVE FatInv'
<1> DEFINE c == Checked(NoFault)
           w == FRename(c, p, q)
<1>0. PICK f \in Faults : \E m : m = OnPath(f, LAMBDA x : FRename(x, p, q)) /\ PathStep(f, m, "rename", p)
  BY DEF Rename, OfPath, PathStep
<1>1. PICK m : m = OnPath(f, LAMBDA x : FRename(x, p, q)) /\ PathStep(f, m, "rename", p)
  BY <1>0
<1>2. "rename" # "none" OBVIOUS
<1>3. ASSUME f = NoFault, ~lost PROVE Good(m)
  <2>1. m = IF c.res = "OK" THEN w ELSE c BY <1>1, <1>3 DEF OnPath, Then
  <2>2. Good(c) /\ DjOk(c.dj) BY <1>3, CheckedOk
  <2>3. Len(p) \in Nat /\ p # <<>> /\ Slots[Last(p)] \in Nat
        /\ Len(q) \in Nat /\ q # <<>> /\ Slots[Last(q)] \in Nat BY PathNames
  <2> HIDE DEF c
  <2>4. DirRuns(c, w) BY <2>2, <2>3, RenameOk
  <2> HIDE DEF w
  <2> QED BY <1>3, <2>1, <2>4, PathView DEF c
<1> QED BY <1>1, <1>2, <1>3, PathCalled

LEMMA ChmodKeeps ==
  ASSUME Dead \subseteq {TRUE}, FatInv, NEW p \in Path, NEW ro \in BOOLEAN, Chmod(p, ro)
  PROVE FatInv'
<1> DEFINE c == Checked(NoFault)
           w == FChmod(c, p, ro)
<1>0. PICK f \in Faults : \E m : m = OnPath(f, LAMBDA x : FChmod(x, p, ro)) /\ PathStep(f, m, "other", <<>>)
  BY DEF Chmod, OfPath, PathStep
<1>1. PICK m : m = OnPath(f, LAMBDA x : FChmod(x, p, ro)) /\ PathStep(f, m, "other", <<>>)
  BY <1>0
<1>2. "other" # "none" OBVIOUS
<1>3. ASSUME f = NoFault, ~lost PROVE Good(m)
  <2>1. m = IF c.res = "OK" THEN w ELSE c BY <1>1, <1>3 DEF OnPath, Then
  <2>2. Good(c) /\ DjOk(c.dj) BY <1>3, CheckedOk
  <2>3. Len(p) \in Nat /\ p # <<>> /\ Slots[Last(p)] \in Nat BY PathNames
  <2> HIDE DEF c
  <2>4. DirRuns(c, w) BY <2>2, <2>3, ChmodOk
  <2> HIDE DEF w
  <2> QED BY <1>3, <2>1, <2>4, PathView DEF c
<1> QED BY <1>1, <1>2, <1>3, PathCalled

LEMMA GetfreeKeeps == ASSUME FatInv, Getfree PROVE FatInv'
<1> DEFINE c == Checked(NoFault)
           w == GetFree(c)
<1>1. PICK m : m = OnPath(NoFault, GetFree) /\ Returns(NoFault, m) BY DEF Getfree
<1>2. UNCHANGED fil /\ list' = list BY DEF Getfree
<1>3. vol' = Kept(NoFault, m) /\ UNCHANGED cut BY <1>1 DEF Returns
<1>4. ASSUME ~lost PROVE Good(m)
  <2>1. m = IF c.res = "OK" THEN w ELSE c BY <1>1 DEF OnPath, Then
  <2>2. Good(c) BY <1>4, CheckedOk
  <2> HIDE DEF c
  <2>3. Good(w) BY <2>2, GetFreeOk DEF Runs
  <2> QED BY <2>1, <2>2, <2>3
<1>5. Listing(list) BY StayKeeps
<1> QED BY <1>2, <1>3, <1>4, <1>5, PathKeeps

LEMMA OpendirKeeps ==
  ASSUME FatInv, NEW p \in Folder \union {<<>>}, Opendir(p)
  PROVE FatInv'
<1> DEFINE c == Checked(NoFault)
           w == FOpendir(c, p)
           s == {q \in Path \union Folder : Front(q) = p /\ At(q).kind = "entry"}
<1>1. PICK m : /\ m = OnPath(NoFault, LAMBDA x : FOpendir(x, p))
               /\ Returns(NoFault, m) /\ m.res = "OK"
               /\ list' = [on |-> TRUE, of |-> p, dj |-> m.dj, seen |-> <<>>, stay |-> s]
  BY DEF Opendir
<1> HIDE DEF s
<1>2. UNCHANGED fil BY DEF Opendir
<1>3. vol' = Kept(NoFault, m) /\ UNCHANGED cut BY <1>1 DEF Returns
<1>4. ASSUME ~lost PROVE Good(m) /\ DjOk(m.dj) /\ Points(m.dj)
  <2>1. m = IF c.res = "OK" THEN w ELSE c BY <1>1 DEF OnPath, Then
  <2>2. Good(c) /\ DjOk(c.dj) BY <1>4, CheckedOk
  <2>3. Len(p) \in Nat
    <3>1. CASE p \in Folder BY <3>1, PathNames
    <3>2. CASE p = <<>> BY <3>2
    <3> QED BY <3>1, <3>2
  <2> HIDE DEF c
  <2>4. DirRuns(c, w) /\ (w.res = "OK" => Points(w.dj)) BY <2>2, <2>3, OpendirOk
  <2> HIDE DEF w
  <2> QED BY <1>1, <2>1, <2>2, <2>4, DirRunsOn
<1> DEFINE d == [on |-> TRUE, of |-> p, dj |-> m.dj, seen |-> <<>>, stay |-> s]
<1>5. list' = d BY <1>1
<1>6. Listing(d) BY <1>4 DEF Listing, NotListing
<1> HIDE DEF d
<1> QED BY <1>2, <1>3, <1>4, <1>5, <1>6, PathKeeps

LEMMA ReaddirKeeps == ASSUME FatInv, Readdir PROVE FatInv'
<1> DEFINE v == View(NoFault, NoFil, list.dj)
           r == FReaddir(v)
           told == IF r.val = <<>> THEN <<>> ELSE <<r.val>>
           s == list.seen \o told
           d == IF r.val = <<>> \/ r.dj.sect = 0
                THEN [NotListing EXCEPT !.seen = told]
                ELSE [list EXCEPT !.dj = r.dj, !.seen = s]
<1>1. Returns(NoFault, r) /\ list' = d BY DEF Readdir
<1>2. UNCHANGED fil /\ list.on BY DEF Readdir
<1>3. vol' = Kept(NoFault, r) /\ UNCHANGED cut BY <1>1 DEF Returns
<1>4. ASSUME ~lost PROVE TellsOf(v, r)
  <2>1. VolOk(vol) /\ DjOk(list.dj) /\ Points(list.dj) BY <1>2, <1>4 DEF FatInv
  <2>2. Good(v) /\ v.dj = list.dj BY <2>1, ViewIs
  <2> HIDE DEF v
  <2> QED BY <2>1, <2>2, ReaddirOk
<1> HIDE DEF r, v, told, s
<1>5. ~lost => Good(r) /\ DjOk(r.dj)
               /\ (~(r.val = <<>> \/ r.dj.sect = 0) => Points(r.dj))
  BY <1>4, DirRunsOn DEF TellsOf
<1>6. Listing(d)
  <2>1. CASE r.val = <<>> \/ r.dj.sect = 0
    <3>1. d = [NotListing EXCEPT !.seen = told] BY <2>1
    <3> HIDE DEF d
    <3> QED BY <3>1, StayKeeps
  <2>2. CASE ~(r.val = <<>> \/ r.dj.sect = 0)
    <3>1. d = [list EXCEPT !.dj = r.dj, !.seen = s] BY <2>2
    <3> HIDE DEF d
    <3>2. DOMAIN list = DOMAIN NotListing /\ list.on \in BOOLEAN BY DEF FatInv
    <3>3. {"on", "dj", "seen"} \subseteq DOMAIN list BY <3>2 DEF NotListing
    <3>4. DOMAIN d = DOMAIN list /\ d.on = list.on /\ d.dj = r.dj BY <3>1, <3>3
    <3> QED BY <1>5, <2>2, <3>2, <3>4 DEF Listing
  <2> QED BY <2>1, <2>2
<1> HIDE DEF d
<1> QED BY <1>1, <1>2, <1>3, <1>5, <1>6, PathKeeps

LEMMA FatInit == ASSUME Init PROVE FatInv
<1>1. fil \in [Handle -> {fil[h] : h \in Handle}] BY DEF Init
<1>2. DOMAIN list = DOMAIN NotListing /\ list.on = FALSE BY DEF Init, NotListing
<1>3. vol = OffLine(Formatted) /\ vol.mounted = FALSE BY DEF Init, OffLine
<1>4. \A h \in Handle : fil[h] = NoFil BY DEF Init
<1>5. NoFil.open = FALSE BY DEF NoFil
<1> QED BY <1>1, <1>2, <1>3, <1>4, <1>5 DEF FatInv, FilOk

LEMMA FatNext ==
  ASSUME Dead \subseteq {TRUE}, FatInv, [Next]_vars
  PROVE FatInv'
<1>1. CASE UNCHANGED vars
  <2>1. vol' = vol /\ fil' = fil /\ list' = list /\ cut' = cut BY <1>1 DEF vars
  <2> QED BY <2>1 DEF FatInv, lost
<1>2. ASSUME NEW h \in Handle, FileCall(h) PROVE FatInv'
  <2>1. WriteLens \subseteq Nat /\ ReadLens \subseteq Nat /\ Offsets \subseteq Nat
    BY CallsAssumption DEF CallsAssumption
  <2>2. CASE \E p \in Path, mode \in Modes, access \in Accesses : Open(h, p, mode, access)
    BY <2>2, OpenKeeps
  <2>3. CASE \E n \in ReadLens : Read(h, n) BY <2>1, <2>3, ReadKeeps
  <2>4. CASE \E n \in WriteLens : Write(h, n) BY <2>1, <2>4, WriteKeeps
  <2>5. CASE \E ofs \in Offsets : Lseek(h, ofs) BY <2>1, <2>5, LseekKeeps
  <2>6. CASE SyncFile(h) BY <2>6, SyncKeeps
  <2>7. CASE Close(h) BY <2>7, CloseKeeps
  <2> QED BY <1>2, <2>2, <2>3, <2>4, <2>5, <2>6, <2>7 DEF FileCall
<1>3. CASE PathCall
  <2>1. CASE \E p \in Path \union Folder : Unlink(p) BY <2>1, UnlinkKeeps
  <2>2. CASE \E p \in Folder : Mkdir(p) BY <2>2, MkdirKeeps
  <2>3. CASE \E p, q \in Path : Rename(p, q) BY <2>3, RenameKeeps
  <2>4. CASE \E p \in Path, ro \in BOOLEAN : Chmod(p, ro) BY <2>4, ChmodKeeps
  <2>5. CASE Getfree BY <2>5, GetfreeKeeps
  <2>6. CASE \E p \in Folder \union {<<>>} : Opendir(p) BY <2>6, OpendirKeeps
  <2>7. CASE Readdir BY <2>7, ReaddirKeeps
  <2> QED BY <1>3, <2>1, <2>2, <2>3, <2>4, <2>5, <2>6, <2>7 DEF PathCall
<1> QED BY <1>1, <1>2, <1>3 DEF Next

(* Whatever a program calls and in which order, and wherever the power is   *)
(* lost: after each call the volume, the file objects and the listing are   *)
(* as the next call relies on.  Dead: an access fails by loss of power only,*)
(* which ends the program; a disk error it survives breaks the copies of    *)
(* the FAT (move_window ignores the write of the second one).               *)
THEOREM FatInvariance ==
  ASSUME Dead \subseteq {TRUE}
  PROVE Spec => []FatInv
<1>1. Init => FatInv BY FatInit
<1>2. FatInv /\ [Next]_vars => FatInv' BY FatNext
<1> QED BY <1>1, <1>2, PTL DEF Spec

(* The free count of create_chain, remove_chain and f_getfree is the number *)
(* of free clusters, also when it comes from FSInfo, and move_window leaves *)
(* the two FATs alike, but for the sector the window still has to write.    *)
THEOREM FatCorrect ==
  ASSUME Dead \subseteq {TRUE}
  PROVE Spec => []FatConsistent
<1>1. FatInv => FatConsistent
  <2> SUFFICES ASSUME FatInv, vol.mounted, ~lost PROVE FreeCountRight /\ CopiesAgree
    BY DEF FatConsistent
  <2>1. CountOk(vol) /\ CopiesOk(vol) BY DEF FatInv, VolOk, BaseOk
  <2>2. FreeCountRight BY <2>1 DEF FreeCountRight, CountOk, FreeSet
  <2>3. CopiesAgree BY <2>1 DEF CopiesAgree, CopiesOk, FatArea
  <2> QED BY <2>2, <2>3
<1> QED BY <1>1, FatInvariance, PTL
=============================================================================
