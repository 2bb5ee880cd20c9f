---------------------------- MODULE MmcFsProofs ----------------------------
(* What holds of the descriptors and of mmcfs's slots for every number of  *)
(* either: nobody joins a device that is locked, an open file has a slot   *)
(* of its own.                                                             *)
EXTENDS MmcFs, FiniteSetTheorems, SequenceTheorems, TLAPS

Field == [dev : {"none", "uart", "null", "mmcfs"}, priv : Slot \union {-1}, flags : Int,
          excl : BOOLEAN]
Object == [owner : Int, asked : Int, file : Files \union {"none"},
           flag : SUBSET {"READ", "WRITE"}, fptr : Int, fsize : Int]

(* The types; an open file has two numbers of slots.                       *)
TypeInv ==
  /\ alt_fd_list \in [Fd -> Field]
  /\ alt_max_fd \in Int
  /\ stack \in Seq(Slot)
  /\ table \in [Slot -> Object]
  /\ size \in [Files -> Int]
  /\ lost \in Nat /\ flagged \in BOOLEAN
FileInv == \A fd \in Fd : IsFile(fd) => At(fd).priv \in Slot /\ At(fd).flags \in Slot
Shape == TypeInv /\ FileInv

(* What a lock rests on: no descriptor in use is beyond alt_max_fd, where  *)
(* open looks for locks, and only devices are locked.                      *)
LockInv ==
  /\ \A fd \in Fd : At(fd).dev # "none" => fd <= alt_max_fd
  /\ \A fd \in Fd : At(fd).excl => At(fd).dev \notin {"none", "mmcfs"}
------------------------------------------------------------------------------
(* What a descriptor's entry may become, and that the others stay.         *)
LEMMA SetsType ==
  ASSUME NEW fd \in Fd, NEW v \in Field, alt_fd_list \in [Fd -> Field], Sets(fd, v)
  PROVE  /\ alt_fd_list' \in [Fd -> Field]
         /\ alt_fd_list'[fd] = v
         /\ \A g \in Fd : g # fd => alt_fd_list'[g] = alt_fd_list[g]
BY DEF Sets

(* The entry of a descriptor that is free, and a device's.                 *)
LEMMA Entries ==
  /\ Unused \in Field /\ Unused.dev = "none" /\ Unused.excl = FALSE
  /\ \A d \in {"uart", "null"}, acc \in Int :
       /\ Opened(d, acc) \in Field /\ Opened(d, acc).dev = d
       /\ Opened(d, acc).excl = FALSE
<1>1. -1 \in Slot \union {-1}
  OBVIOUS
<1> QED
  BY <1>1 DEF Unused, Opened, Field

(* A file object is one: closed, just opened, or moved.                    *)
LEMMA ClosedType == Closed \in Object
BY DEF Closed, Object

(* Initially the shape is right.                                           *)
LEMMA ShapeInit == Init => Shape
<1> USE MmcFsAssumption
<1> SUFFICES ASSUME Init PROVE Shape
  OBVIOUS
<1>2. alt_fd_list \in [Fd -> Field]
  BY Entries DEF Init, RDONLY, WRONLY
<1>3. stack \in Seq(Slot)
  <2>1. stack \in [1..NSlots -> Slot]
    BY DEF Init, Slot
  <2> QED
    BY <2>1
<1>5. table \in [Slot -> Object]
  BY ClosedType DEF Init
<1>6. size \in [Files -> Int]
  BY DEF Init
<1>7. TypeInv
  <2>1. alt_max_fd \in Int /\ lost \in Nat
    BY DEF Init
  <2>2. flagged \in BOOLEAN
    BY Zenon DEF Init
  <2> QED
    BY <1>2, <1>3, <1>5, <1>6, <2>1, <2>2 DEF TypeInv
<1>9. FileInv
  BY Entries DEF FileInv, Init, At, IsFile, RDONLY, WRONLY
<1> QED
  BY <1>7, <1>9 DEF Shape

(* An entry that replaces another keeps FileInv, if it names two slots.    *)
LEMMA FileUpdate ==
  ASSUME NEW fd \in Fd, NEW v \in Field, alt_fd_list \in [Fd -> Field], Sets(fd, v), FileInv,
         v.dev = "mmcfs" => v.priv \in Slot /\ v.flags \in Slot
  PROVE  FileInv'
BY SetsType DEF FileInv, At, IsFile

(* The slot that an open takes, and the stack it leaves.                   *)
LEMMA TopType ==
  ASSUME stack \in Seq(Slot), stack # <<>>
  PROVE  LET rest == SubSeq(stack, 1, Len(stack) - 1)
         IN  /\ TopSlot \in Slot /\ rest \in Seq(Slot) /\ Len(rest) = Len(stack) - 1
             /\ \A i \in 1..Len(stack) - 1 : rest[i] = stack[i]
<1> DEFINE k == Len(stack) - 1
<1>1. Len(stack) \in Nat \ {0} /\ k \in Nat
  OBVIOUS
<1>2. TopSlot \in Slot
  BY <1>1 DEF TopSlot
<1>3. \A i \in 1..k : stack[i] \in Slot
  BY <1>1
<1> HIDE DEF k
<1>4. /\ SubSeq(stack, 1, k) \in Seq(Slot)
      /\ Len(SubSeq(stack, 1, k)) = IF 1 <= k THEN k - 1 + 1 ELSE 0
      /\ \A i \in 1..k - 1 + 1 : SubSeq(stack, 1, k)[i] = stack[1 + i - 1]
  BY <1>1, <1>3, SubSeqProperties
<1>5. /\ SubSeq(stack, 1, k) \in Seq(Slot) /\ Len(SubSeq(stack, 1, k)) = k
      /\ \A i \in 1..k : SubSeq(stack, 1, k)[i] = stack[i]
  BY <1>1, <1>4
<1> QED
  BY <1>2, <1>5 DEF k

(* What f_open leaves in a file object has the right type, and its bytes   *)
(* are a number.                                                           *)
LEMMA OpenType ==
  ASSUME NEW fd \in Fd, NEW f \in Files, NEW acc \in Int, NEW mode, size \in [Files -> Int]
  PROVE  FOpen(fd, f, acc, mode) \in Object /\ FOpen(fd, f, acc, mode).owner = fd
<1>1. fd \in Int /\ size[f] \in Int
  BY DEF Fd
<1>2. (IF "CREATE" \in mode \/ size[f] = -1 THEN 0 ELSE size[f]) \in Int
  BY <1>1
<1>3. mode \intersect {"READ", "WRITE"} \in SUBSET {"READ", "WRITE"}
  OBVIOUS
<1> QED
  BY <1>1, <1>2, <1>3 DEF FOpen, Object

(* An object that is moved is the same object at another position.         *)
LEMMA MovedType ==
  ASSUME NEW s \in Slot, NEW pos \in Int, NEW end \in Int, table \in [Slot -> Object],
         table' = [table EXCEPT ![s] = [@ EXCEPT !.fptr = pos, !.fsize = end]]
  PROVE  /\ table' \in [Slot -> Object]
         /\ \A t \in Slot : table'[t].owner = table[t].owner
<1> DEFINE o == [table[s] EXCEPT !.fptr = pos, !.fsize = end]
<1>1. table[s] \in Object
  OBVIOUS
<1>2. o \in Object /\ o.owner = table[s].owner
  BY <1>1 DEF Object
<1>3. table' = [table EXCEPT ![s] = o]
  OBVIOUS
<1> QED
  BY <1>2, <1>3

(* open() of a file keeps the shape.                                       *)
LEMMA OpenFileShape ==
  ASSUME Shape, NEW fd \in GetFd, NEW f \in Files, NEW acc \in {RDONLY, WRONLY, RDWR},
         NEW flags, OpenFile(fd, f, acc, flags)
  PROVE  Shape'
<1> DEFINE mode == Mode(acc, flags)
           v == [dev |-> "mmcfs", priv |-> TopSlot, flags |-> TopSlot, excl |-> FALSE]
<1>0. fd \in Fd /\ fd \in Int /\ acc \in Int
  BY MmcFsAssumption DEF GetFd, Free, Fd, RDONLY, WRONLY, RDWR
<1>1. alt_max_fd' \in Int
  BY <1>0 DEF OpenFile, Highest, Shape, TypeInv
<1>2. lost' \in Nat /\ flagged' = flagged
  BY DEF OpenFile, Shape, TypeInv
<1>3. CASE stack # <<>> /\ Sets(fd, v)
           /\ table' = [table EXCEPT ![TopSlot] = FOpen(fd, f, acc, mode)]
           /\ stack' = SubSeq(stack, 1, Len(stack) - 1)
           /\ size' = [size EXCEPT ![f] = FOpen(fd, f, acc, mode).fsize]
  <2>1. TopSlot \in Slot /\ stack' \in Seq(Slot)
    BY <1>3, TopType DEF Shape, TypeInv
  <2>2. v \in Field /\ v.priv \in Slot /\ v.flags \in Slot
    BY <2>1 DEF Field, Slot
  <2>3. FOpen(fd, f, acc, mode) \in Object
    BY <1>0, OpenType DEF Shape, TypeInv
  <2>4. table' \in [Slot -> Object]
    BY <1>3, <2>1, <2>3 DEF Shape, TypeInv
  <2>5. FOpen(fd, f, acc, mode).fsize \in Int
    BY <2>3 DEF Object
  <2>6. size' \in [Files -> Int]
    BY <1>3, <2>5 DEF Shape, TypeInv
  <2>7. alt_fd_list' \in [Fd -> Field]
    BY <1>0, <1>3, <2>2, SetsType DEF Shape, TypeInv
  <2>8. FileInv'
    BY <1>0, <1>3, <2>2, FileUpdate DEF Shape, TypeInv
  <2>9. flagged' \in BOOLEAN
    BY <1>2, Zenon DEF Shape, TypeInv
  <2> QED
    BY <1>1, <1>2, <2>1, <2>4, <2>6, <2>7, <2>8, <2>9 DEF Shape, TypeInv
<1>4. CASE OpenFails(fd)
  <2>1. alt_fd_list' \in [Fd -> Field] /\ FileInv'
    BY <1>0, <1>4, Entries, FileUpdate, SetsType DEF OpenFails, Released, Shape, TypeInv
  <2>2. table' \in [Slot -> Object] /\ stack' \in Seq(Slot) /\ size' \in [Files -> Int]
    BY <1>4, Zenon DEF OpenFails, Shape, TypeInv
  <2>3. flagged' \in BOOLEAN
    BY <1>2, Zenon DEF Shape, TypeInv
  <2> QED
    BY <1>1, <1>2, <2>1, <2>2, <2>3 DEF Shape, TypeInv
<1> QED
  BY <1>3, <1>4 DEF OpenFile

(* A step that gives one descriptor another entry, and leaves the slots    *)
(* alone, keeps the shape.                                                 *)
LEMMA EntryShape ==
  ASSUME Shape, NEW fd \in Fd, NEW v \in Field, Sets(fd, v), alt_max_fd' \in Int,
         v.dev = "mmcfs" => v.priv \in Slot /\ v.flags \in Slot,
         flagged' \in BOOLEAN, UNCHANGED <<stack, table, size, lost>>
  PROVE  Shape'
<1>1. alt_fd_list' \in [Fd -> Field] /\ FileInv'
  BY FileUpdate, SetsType DEF Shape, TypeInv
<1>2. TypeInv'
  BY <1>1 DEF Shape, TypeInv
<1> QED
  BY <1>1, <1>2 DEF Shape

(* open() of a device keeps the shape.                                     *)
LEMMA OpenDevShape ==
  ASSUME Shape, NEW fd \in GetFd, NEW acc \in {RDONLY, WRONLY}, OpenDev(fd, "null", acc)
  PROVE  Shape'
<1>0. fd \in Fd /\ fd \in Int /\ acc \in Int
  BY MmcFsAssumption DEF GetFd, Free, Fd, RDONLY, WRONLY
<1>1. alt_max_fd' \in Int
  BY <1>0 DEF OpenDev, Highest, Shape, TypeInv
<1>2. flagged' \in BOOLEAN
  BY Zenon DEF OpenDev, Shape, TypeInv
<1>3. CASE Sets(fd, Unused)
  BY <1>0, <1>1, <1>2, <1>3, Entries, EntryShape DEF OpenDev
<1>4. CASE Sets(fd, Opened("null", acc))
  BY <1>0, <1>1, <1>2, <1>4, Entries, EntryShape DEF OpenDev
<1> QED
  BY <1>3, <1>4 DEF OpenDev, Released

(* What an entry becomes in SetFl, Lock and Unlock.                        *)
LEMMA EntryFields ==
  ASSUME Shape, NEW fd \in Fd, NEW n \in Slot, NEW on \in BOOLEAN
  PROVE  LET v == [At(fd) EXCEPT !.flags = n]
             w == [At(fd) EXCEPT !.excl = on]
         IN  /\ v \in Field /\ v.dev = At(fd).dev /\ v.priv = At(fd).priv
             /\ v.flags = n /\ v.excl = At(fd).excl
             /\ w \in Field /\ w.dev = At(fd).dev /\ w.priv = At(fd).priv
             /\ w.flags = At(fd).flags /\ (w.excl <=> on)
<1>1. At(fd) \in Field
  BY DEF Shape, TypeInv, At
<1>2. n \in Int
  BY DEF Slot
<1> QED
  BY <1>1, <1>2 DEF Field

(* F_SETFL keeps the shape.                                                *)
LEMMA SetFlShape ==
  ASSUME Shape, NEW fd \in Fd, NEW on \in BOOLEAN, SetFl(fd, on)
  PROVE  Shape'
<1> DEFINE n == WithAppend(At(fd).flags, on)
           v == [At(fd) EXCEPT !.flags = n]
<1>1. n \in Slot /\ Sets(fd, v) /\ alt_max_fd' \in Int
  BY DEF SetFl, Shape, TypeInv
<1>2. v \in Field /\ v.dev = At(fd).dev /\ v.priv = At(fd).priv /\ v.flags = n
  BY <1>1, EntryFields
<1>3. v.dev = "mmcfs" => v.priv \in Slot /\ v.flags \in Slot
  BY <1>1, <1>2 DEF Shape, FileInv, IsFile
<1>4. flagged' \in BOOLEAN
  BY DEF SetFl, Shape, TypeInv
<1> QED
  BY <1>1, <1>2, <1>3, <1>4, EntryShape DEF SetFl

(* alt_fd_lock and alt_fd_unlock keep the shape.                           *)
LEMMA LockShape ==
  ASSUME Shape, NEW fd \in Fd, Lock(fd) \/ Unlock(fd)
  PROVE  Shape'
<1>1. PICK on \in BOOLEAN : Sets(fd, [At(fd) EXCEPT !.excl = on])
  BY DEF Lock, Unlock
<1> DEFINE w == [At(fd) EXCEPT !.excl = on]
<1>2. alt_max_fd' \in Int /\ UNCHANGED <<stack, table, size, lost>>
  BY DEF Lock, Unlock, Shape, TypeInv
<1>3. 0 \in Slot
  BY MmcFsAssumption DEF Slot
<1>4. w \in Field /\ w.dev = At(fd).dev /\ w.priv = At(fd).priv /\ w.flags = At(fd).flags
  BY <1>3, EntryFields
<1>5. w.dev = "mmcfs" => w.priv \in Slot /\ w.flags \in Slot
  BY <1>4 DEF Shape, FileInv, IsFile
<1>6. flagged' \in BOOLEAN
  BY Zenon DEF Lock, Unlock, Shape, TypeInv
<1> QED
  BY <1>1, <1>2, <1>4, <1>5, <1>6, EntryShape

(* close() keeps the shape.                                                *)
LEMMA CloseShape ==
  ASSUME Shape, NEW fd \in Fd, Close(fd)
  PROVE  Shape'
<1>1. alt_fd_list' \in [Fd -> Field] /\ FileInv'
  BY Entries, FileUpdate, SetsType DEF Close, Released, Shape, TypeInv
<1>2. alt_max_fd' \in Int
  BY DEF Close, Shape, TypeInv
<1>3. flagged' \in BOOLEAN
  BY Zenon DEF Close, Shape, TypeInv
<1>4. CASE ~IsFile(fd) /\ UNCHANGED <<stack, table, size, lost>>
  BY <1>1, <1>2, <1>3, <1>4 DEF Shape, TypeInv
<1>5. CASE IsFile(fd)
  <2>1. At(fd).priv \in Slot /\ SlotOf(fd) \in Slot
    BY <1>5 DEF Shape, FileInv, SlotOf
  <2>2. table' \in [Slot -> Object]
    BY <1>5, <2>1, ClosedType DEF Close, FClosed, NotClosed, Shape, TypeInv
  <2>3. Fil(fd) \in Object /\ Fil(fd).fsize \in Int
    BY <2>1 DEF Fil, Shape, TypeInv, Object
  <2>4. size' \in [Files -> Int]
    BY <1>5, <2>3 DEF Close, FClosed, NotClosed, Shape, TypeInv
  <2>5. stack' \in Seq(Slot) /\ lost' \in Nat
    <3>0. stack \in Seq(Slot) /\ lost \in Nat
      BY DEF Shape, TypeInv
    <3>1. CASE stack' = Append(stack, SlotOf(fd)) /\ lost' = lost
      BY <2>1, <3>0, <3>1
    <3>2. CASE stack' = stack /\ lost' = lost + 1
      BY <3>0, <3>2
    <3> QED
      BY <1>5, <3>1, <3>2 DEF Close
  <2> QED
    BY <1>1, <1>2, <1>3, <2>2, <2>4, <2>5 DEF Shape, TypeInv
<1> QED
  BY <1>4, <1>5 DEF Close

(* read(), write() and lseek() move one object, to a place that is a       *)
(* number.                                                                 *)
LEMMA Moves ==
  ASSUME Shape, Transfer
  PROVE  \E fd \in Held, pos, end \in Int : Becomes(fd, pos, end)
<1>0. ASSUME NEW fd \in Given, IsFile(fd)
      PROVE  fd \in Held /\ Fil(fd).fptr \in Int /\ Fil(fd).fsize \in Int /\ Cap \in Int
  BY <1>0, MmcFsAssumption
     DEF Held, Given, Fil, Shape, TypeInv, FileInv, Object
<1>1. PICK fd \in Given, n \in 1..Cap :
        \/ Read(fd, n)
        \/ Write(fd, n)
        \/ \E dir \in {"SET", "CUR", "END"}, ptr \in {-n, 0, n} : Lseek(fd, ptr, dir)
  BY DEF Transfer
<1>2. n \in Int
  BY MmcFsAssumption
<1>3. CASE Read(fd, n)
  BY <1>0, <1>2, <1>3 DEF Read, FRead, Smaller
<1>4. CASE Write(fd, n)
  BY <1>0, <1>2, <1>4 DEF Write, FWrite, Smaller, Larger
<1>5. ASSUME NEW dir \in {"SET", "CUR", "END"}, NEW ptr \in {-n, 0, n}, Lseek(fd, ptr, dir)
      PROVE  \E pos, end \in Int : fd \in Held /\ Becomes(fd, pos, end)
  <2>1. ptr \in Int /\ IsFile(fd) /\ Fil(fd).fptr \in Int /\ Fil(fd).fsize \in Int /\ Cap \in Int
    BY <1>0, <1>2, <1>5 DEF Lseek
  <2>2. PICK ofs \in Int : FLseek(fd, ofs)
    <3>1. CASE dir = "SET"
      BY <1>5, <2>1, <3>1 DEF Lseek
    <3>2. CASE dir = "CUR"
      BY <1>5, <2>1, <3>2 DEF Lseek
    <3>3. CASE dir = "END"
      BY <1>5, <2>1, <3>3 DEF Lseek
    <3> QED
      BY <3>1, <3>2, <3>3
  <2> QED
    BY <1>0, <2>1, <2>2 DEF FLseek, Smaller, Larger
<1> QED
  BY <1>1, <1>3, <1>4, <1>5

(* They keep the shape, the entries and the owners.                        *)
LEMMA TransferShape ==
  ASSUME Shape, Transfer
  PROVE  Shape' /\ \A s \in Slot : table'[s].owner = table[s].owner
<1>1. PICK fd \in Held, pos \in Int, end \in Int : Becomes(fd, pos, end)
  BY Moves
<1>2. At(fd).priv \in Slot
  BY DEF Held, Given, Shape, FileInv
<1>3. /\ table' \in [Slot -> Object]
      /\ \A s \in Slot : table'[s].owner = table[s].owner
  BY <1>1, <1>2, MovedType DEF Becomes, Shape, TypeInv
<1>4. TypeInv'
  BY <1>3 DEF Transfer, Shape, TypeInv
<1>5. FileInv'
  BY DEF Transfer, Shape, FileInv, IsFile, At
<1> QED
  BY <1>3, <1>4, <1>5 DEF Shape

(* Every step keeps the shape.                                             *)
LEMMA ShapeNext == Shape /\ [Next]_vars => Shape'
<1> SUFFICES ASSUME Shape, [Next]_vars PROVE Shape'
  OBVIOUS
<1>1. CASE UNCHANGED vars
  BY <1>1 DEF vars, Shape, TypeInv, FileInv, IsFile, At
<1>2. CASE Next
  BY <1>2, OpenFileShape, OpenDevShape, TransferShape, CloseShape, LockShape, SetFlShape DEF Next
<1> QED
  BY <1>1, <1>2

(* The descriptors, the slots and the file objects keep their types, and   *)
(* the two numbers an open file has are slots.                             *)
THEOREM TypeCorrect == Spec => []Shape
BY ShapeInit, ShapeNext, PTL DEF Spec
------------------------------------------------------------------------------
(* One entry replaced: nobody joins a lock if the entry's device stays or  *)
(* is not locked elsewhere, and the entry is locked only if it was.        *)
LEMMA LockUpdate ==
  ASSUME Shape, LockInv, NEW fd \in Fd, NEW v \in Field, Sets(fd, v),
         alt_max_fd' \in Int, alt_max_fd <= alt_max_fd', fd <= alt_max_fd',
         v.dev = At(fd).dev \/ \A h \in Fd : At(h).excl => At(h).dev # v.dev,
         v.excl => At(fd).excl /\ v.dev = At(fd).dev
  PROVE  LockInv' /\ LockStep
<1>1. \A g \in Fd : At(g)' = IF g = fd THEN v ELSE At(g)
  BY SetsType DEF Shape, TypeInv, At
<1>2. Fd \subseteq Int /\ alt_max_fd \in Int
  BY MmcFsAssumption DEF Fd, Shape, TypeInv
<1>3. (\A g \in Fd : At(g).dev # "none" => g <= alt_max_fd)'
  BY <1>1, <1>2 DEF LockInv
<1>4. (\A g \in Fd : At(g).excl => At(g).dev \notin {"none", "mmcfs"})'
  BY <1>1 DEF LockInv
<1>5. LockStep
  <2> SUFFICES ASSUME NEW h \in Fd, At(h)'.excl, NEW g \in Fd, g # h, At(g)'.dev = At(h)'.dev
               PROVE  At(h).excl /\ At(g).dev = At(h).dev
    BY DEF LockStep, Others
  <2>1. At(h).excl /\ At(h)'.dev = At(h).dev
    BY <1>1
  <2> QED
    BY <1>1, <2>1
<1> QED
  BY <1>3, <1>4, <1>5 DEF LockInv

(* A descriptor that becomes free.                                         *)
LEMMA LockReleased ==
  ASSUME Shape, LockInv, NEW fd \in Fd, Released(fd),
         alt_max_fd' \in Int, alt_max_fd <= alt_max_fd', fd <= alt_max_fd'
  PROVE  LockInv' /\ LockStep
BY Entries, LockUpdate DEF Released, LockInv

(* The descriptor an open takes may become the highest.                    *)
LEMMA HighestType ==
  ASSUME Shape, NEW fd \in Fd, Highest(fd)
  PROVE  alt_max_fd' \in Int /\ alt_max_fd <= alt_max_fd' /\ fd <= alt_max_fd'
BY MmcFsAssumption DEF Fd, Highest, Shape, TypeInv

(* Opening a file: it is no device, so no lock is about it.                *)
LEMMA LockOpenFile ==
  ASSUME Shape, LockInv, NEW fd \in GetFd, NEW f \in Files, NEW acc \in {RDONLY, WRONLY, RDWR},
         NEW flags, OpenFile(fd, f, acc, flags)
  PROVE  LockInv' /\ LockStep
<1> DEFINE v == [dev |-> "mmcfs", priv |-> TopSlot, flags |-> TopSlot, excl |-> FALSE]
<1>1. fd \in Fd /\ alt_max_fd' \in Int /\ alt_max_fd <= alt_max_fd' /\ fd <= alt_max_fd'
  BY HighestType DEF GetFd, Free, OpenFile
<1>2. CASE OpenFails(fd)
  BY <1>1, <1>2, LockReleased DEF OpenFails
<1>3. CASE stack # <<>> /\ Sets(fd, v)
  <2>1. TopSlot \in Slot
    BY <1>3, TopType DEF Shape, TypeInv
  <2>2. v \in Field /\ v.dev = "mmcfs" /\ v.excl = FALSE
    BY <2>1 DEF Field, Slot
  <2>3. \A h \in Fd : At(h).excl => At(h).dev # v.dev
    BY <2>2 DEF LockInv
  <2> HIDE DEF v
  <2> QED
    BY <1>1, <1>3, <2>2, <2>3, LockUpdate
<1> QED
  BY <1>2, <1>3 DEF OpenFile

(* Opening a device: alt_file_locked looks at every descriptor in use.     *)
LEMMA LockOpenDev ==
  ASSUME Shape, LockInv, NEW fd \in GetFd, NEW acc \in {RDONLY, WRONLY}, OpenDev(fd, "null", acc)
  PROVE  LockInv' /\ LockStep
<1>1. fd \in Fd /\ alt_max_fd' \in Int /\ alt_max_fd <= alt_max_fd' /\ fd <= alt_max_fd'
  BY HighestType DEF GetFd, Free, OpenDev
<1>2. CASE Locked("null")
  BY <1>1, <1>2, LockReleased DEF OpenDev
<1>3. CASE ~Locked("null")
  <2>1. Sets(fd, Opened("null", acc)) /\ acc \in Int
    BY <1>3 DEF OpenDev, RDONLY, WRONLY
  <2>2. \A h \in Fd : At(h).dev # "none" => h <= alt_max_fd'
    BY <1>1, MmcFsAssumption DEF LockInv, Fd, Shape, TypeInv
  <2>3. \A h \in Fd : At(h).excl => At(h).dev # "null"
    BY <1>3, <2>2 DEF Locked
  <2> QED
    BY <1>1, <2>1, <2>3, Entries, LockUpdate
<1> QED
  BY <1>2, <1>3

(* F_SETFL does not touch the lock.                                        *)
LEMMA LockSetFl ==
  ASSUME Shape, LockInv, NEW fd \in Fd, NEW on \in BOOLEAN, SetFl(fd, on)
  PROVE  LockInv' /\ LockStep
<1> DEFINE n == WithAppend(At(fd).flags, on)
           v == [At(fd) EXCEPT !.flags = n]
<1>1. n \in Slot /\ Sets(fd, v) /\ alt_max_fd' = alt_max_fd
  BY DEF SetFl
<1>2. v \in Field /\ v.dev = At(fd).dev /\ v.excl = At(fd).excl
  BY <1>1, EntryFields
<1>3. alt_max_fd \in Int /\ fd <= alt_max_fd
  BY DEF SetFl, Given, LockInv, Shape, TypeInv
<1> HIDE DEF v
<1> QED
  BY <1>1, <1>2, <1>3, LockUpdate

(* A lock: the descriptors alt_fd_lock looks at have another device, so    *)
(* the only one left is the highest.                                       *)
LEMMA LockLock ==
  ASSUME Shape, LockInv, NEW fd \in Fd, Lock(fd)
  PROVE  LockInv' /\ LockStep
<1> DEFINE w == [At(fd) EXCEPT !.excl = TRUE]
<1>1. Sets(fd, w) /\ alt_max_fd' = alt_max_fd /\ alt_max_fd \in Int
  BY DEF Lock, Shape, TypeInv
<1>2. 0 \in Slot
  BY MmcFsAssumption DEF Slot
<1>3. w \in Field /\ w.dev = At(fd).dev
  BY <1>2, EntryFields
<1>4. At(fd).dev \notin {"none", "mmcfs"}
  BY DEF Lock
<1>5. \A g \in Fd : At(g)' = IF g = fd THEN w ELSE At(g)
  BY <1>1, <1>3, SetsType DEF Shape, TypeInv, At
<1> HIDE DEF w
<1>6. \A g \in Fd : At(g)'.dev = At(g).dev /\ (g # fd => At(g)'.excl = At(g).excl)
  BY <1>3, <1>5
<1>7. LockInv'
  BY <1>1, <1>4, <1>6 DEF LockInv
<1>8. \A g \in Others(fd) : g = alt_max_fd
  <2> SUFFICES ASSUME NEW g \in Fd, g # fd, At(g).dev = At(fd).dev
               PROVE  g = alt_max_fd
    BY DEF Others
  <2>1. g <= alt_max_fd
    BY <1>4 DEF LockInv
  <2>2. ~(g < alt_max_fd)
    BY DEF Lock, Shared, Searched
  <2> QED
    BY <1>1, <2>1, <2>2, MmcFsAssumption DEF Fd
<1>9. \A h \in Fd : Others(h)' = Others(h)
  BY <1>6 DEF Others
<1>10. LockStep
  BY <1>6, <1>8, <1>9 DEF LockStep
<1> QED
  BY <1>7, <1>10

(* A lock taken back.                                                      *)
LEMMA LockUnlock ==
  ASSUME Shape, LockInv, NEW fd \in Fd, Unlock(fd)
  PROVE  LockInv' /\ LockStep
<1> DEFINE w == [At(fd) EXCEPT !.excl = FALSE]
<1>1. Sets(fd, w) /\ alt_max_fd' = alt_max_fd /\ alt_max_fd \in Int
  BY DEF Unlock, Shape, TypeInv
<1>2. 0 \in Slot
  BY MmcFsAssumption DEF Slot
<1>3. w \in Field /\ w.dev = At(fd).dev /\ w.excl = FALSE
  BY <1>2, EntryFields
<1>4. fd <= alt_max_fd
  BY DEF Unlock, LockInv
<1> HIDE DEF w
<1> QED
  BY <1>1, <1>3, <1>4, LockUpdate

(* Every step keeps LockInv, and is one that LockKept allows.              *)
LEMMA LockNext == Shape /\ LockInv /\ [Next]_vars => LockInv' /\ [LockStep]_vars
<1> SUFFICES ASSUME Shape, LockInv, [Next]_vars PROVE LockInv' /\ [LockStep]_vars
  OBVIOUS
<1>1. CASE UNCHANGED vars
  BY <1>1 DEF vars, LockInv, At
<1>2. CASE Transfer
  <2>1. \A g \in Fd : At(g)' = At(g)
    BY <1>2 DEF Transfer, At
  <2>2. LockStep
    BY <2>1 DEF LockStep, Others
  <2> QED
    BY <1>2, <2>1, <2>2 DEF Transfer, LockInv
<1>3. ASSUME NEW fd \in Fd, Close(fd) PROVE LockInv' /\ LockStep
  <2>1. alt_max_fd' = alt_max_fd /\ alt_max_fd \in Int /\ fd <= alt_max_fd
    BY <1>3 DEF Close, Given, Shape, TypeInv, LockInv
  <2> QED
    BY <1>3, <2>1, LockReleased DEF Close
<1> QED
  BY <1>1, <1>2, <1>3, LockOpenFile, LockOpenDev, LockSetFl, LockLock, LockUnlock DEF Next

(* Initially nothing is locked.                                            *)
LEMMA LockInit == Init => LockInv
BY Entries, MmcFsAssumption DEF Init, LockInv, At, Fd, RDONLY, WRONLY

(* A lock is granted beside no other user of the device but the highest    *)
(* descriptor, and nobody joins while it lasts.                            *)
THEOREM LockCorrect == Spec => LockKept
<1> QED
  BY ShapeInit, ShapeNext, LockInit, LockNext, PTL DEF Spec, LockKept
------------------------------------------------------------------------------
(* Why an open file has a slot of its own: its object names the descriptor *)
(* as its owner, and the objects of the free slots have none.              *)
ConsoleInv == \A fd \in Fd : fd <= 2 => At(fd).dev = "uart"
OwnerInv == \A fd \in Fd : IsFile(fd) => Fil(fd).owner = fd /\ At(fd).flags = At(fd).priv
FreeInv ==
  /\ \A i \in 1..Len(stack) : table[stack[i]].owner = -1
  /\ \A i, j \in 1..Len(stack) : stack[i] = stack[j] => i = j
CountInv == Len(stack) + Cardinality(Held) + lost = NSlots
OwnInv == ConsoleInv /\ (~flagged => OwnerInv /\ FreeInv /\ CountInv)

(* The descriptors with a file are a finite set.                           *)
LEMMA HeldFinite == IsFiniteSet(Held) /\ Cardinality(Held) \in Nat
<1>1. IsFiniteSet(Fd)
  BY MmcFsAssumption, FS_Interval DEF Fd
<1>2. Held \in SUBSET Fd
  BY DEF Held, Given
<1> QED
  BY <1>1, <1>2, FS_Subset, FS_CardinalityType

(* What an entry that replaces another makes of the set of open files.     *)
LEMMA HeldUpdate ==
  ASSUME Shape, ConsoleInv, ConsoleInv', NEW fd \in Fd, NEW v \in Field, Sets(fd, v)
  PROVE  /\ \A g \in Fd : At(g)' = IF g = fd THEN v ELSE At(g)
         /\ \A g \in Fd : IsFile(g)' <=> (IF g = fd THEN v.dev = "mmcfs" ELSE IsFile(g))
         /\ Held = {g \in Fd : IsFile(g)}
         /\ Held' = IF v.dev = "mmcfs" THEN Held \union {fd} ELSE Held \ {fd}
<1>1. \A g \in Fd : At(g)' = IF g = fd THEN v ELSE At(g)
  BY SetsType DEF Shape, TypeInv, At
<1>2. \A g \in Fd : IsFile(g)' <=> (IF g = fd THEN v.dev = "mmcfs" ELSE IsFile(g))
  BY <1>1 DEF IsFile
<1>3. Held = {g \in Fd : IsFile(g)}
  BY MmcFsAssumption DEF Held, Given, IsFile, ConsoleInv, Fd
<1>4. Held' = {g \in Fd : IsFile(g)'}
  BY MmcFsAssumption DEF Held, Given, IsFile, ConsoleInv, Fd
<1>5. v.dev = "mmcfs" => Held' = Held \union {fd}
  BY <1>2, <1>3, <1>4
<1>6. v.dev # "mmcfs" => Held' = Held \ {fd}
  BY <1>2, <1>3, <1>4
<1> QED
  BY <1>1, <1>2, <1>3, <1>5, <1>6

(* The console keeps its descriptors: an open takes one that is free, a    *)
(* close one above, and nothing else changes the device.                   *)
LEMMA ConsoleInvNext == Shape /\ ConsoleInv /\ [Next]_vars => ConsoleInv'
<1> SUFFICES ASSUME Shape, ConsoleInv, [Next]_vars PROVE ConsoleInv'
  OBVIOUS
<1>0. ASSUME NEW fd \in Fd, NEW v \in Field, Sets(fd, v),
             fd <= 2 => v.dev = "uart"
      PROVE  ConsoleInv'
  BY <1>0, SetsType DEF Shape, TypeInv, ConsoleInv, At
<1>1. ASSUME NEW fd \in Fd, ~(fd <= 2), NEW v \in Field, Sets(fd, v) PROVE ConsoleInv'
  BY <1>0, <1>1
<1>2. ASSUME NEW fd \in GetFd PROVE fd \in Fd /\ ~(fd <= 2)
  BY <1>2 DEF GetFd, Free, ConsoleInv
<1>3. ASSUME NEW fd \in GetFd, NEW f \in Files, NEW acc \in {RDONLY, WRONLY, RDWR},
             NEW flags, OpenFile(fd, f, acc, flags)
      PROVE  ConsoleInv'
  <2> DEFINE v == [dev |-> "mmcfs", priv |-> TopSlot, flags |-> TopSlot, excl |-> FALSE]
  <2>1. CASE OpenFails(fd)
    BY <1>1, <1>2, <2>1, Entries DEF OpenFails, Released
  <2>2. CASE stack # <<>> /\ Sets(fd, v)
    <3>1. TopSlot \in Slot
      BY <2>2, TopType DEF Shape, TypeInv
    <3>2. v \in Field
      BY <3>1 DEF Field, Slot
    <3> QED
      BY <1>1, <1>2, <2>2, <3>2
  <2> QED
    BY <1>3, <2>1, <2>2 DEF OpenFile
<1>4. ASSUME NEW fd \in GetFd, NEW acc \in {RDONLY, WRONLY}, OpenDev(fd, "null", acc)
      PROVE  ConsoleInv'
  <2>1. acc \in Int
    BY DEF RDONLY, WRONLY
  <2> QED
    BY <1>1, <1>2, <1>4, <2>1, Entries DEF OpenDev, Released
<1>5. ASSUME NEW fd \in Fd, Close(fd) PROVE ConsoleInv'
  <2>1. ~(fd <= 2)
    BY <1>5, MmcFsAssumption DEF Close, Given, Fd
  <2> QED
    BY <1>1, <1>5, <2>1, Entries DEF Close, Released
<1>6. ASSUME NEW fd \in Fd, NEW on \in BOOLEAN, SetFl(fd, on) PROVE ConsoleInv'
  <2>1. [At(fd) EXCEPT !.flags = WithAppend(@, on)] \in Field
    BY <1>6, EntryFields DEF SetFl
  <2>2. [At(fd) EXCEPT !.flags = WithAppend(@, on)].dev = At(fd).dev
    BY <1>6, EntryFields DEF SetFl
  <2> QED
    BY <1>0, <1>6, <2>1, <2>2 DEF SetFl, ConsoleInv
<1>7. ASSUME NEW fd \in Fd, NEW on \in BOOLEAN, Sets(fd, [At(fd) EXCEPT !.excl = on])
      PROVE  ConsoleInv'
  <2> DEFINE w == [At(fd) EXCEPT !.excl = on]
  <2>1. 0 \in Slot
    BY MmcFsAssumption DEF Slot
  <2>2. w \in Field /\ w.dev = At(fd).dev
    BY <2>1, EntryFields
  <2>3. fd <= 2 => w.dev = "uart"
    BY <2>2 DEF ConsoleInv
  <2> HIDE DEF w
  <2> QED
    BY <1>0, <1>7, <2>2, <2>3 DEF w
<1>8. CASE Transfer \/ UNCHANGED vars
  BY <1>8 DEF Transfer, vars, ConsoleInv, At
<1> QED
  BY <1>3, <1>4, <1>5, <1>6, <1>7, <1>8 DEF Next, Lock, Unlock

(* A step that leaves the files' entries, the owners and the free slots as *)
(* they are keeps OwnInv.                                                  *)
LEMMA OwnKept ==
  ASSUME Shape, OwnInv, ConsoleInv', UNCHANGED <<stack, lost>>, ~flagged' => ~flagged,
         \A s \in Slot : table'[s].owner = table[s].owner,
         \A g \in Fd : IsFile(g)' <=> IsFile(g),
         ~flagged' => \A g \in Fd : IsFile(g) => At(g)'.priv = At(g).priv
                                             /\ At(g)'.flags = At(g).flags
  PROVE  OwnInv'
<1>1. Held' = Held
  <2>1. Held = {g \in Fd : IsFile(g)} /\ Held' = {g \in Fd : IsFile(g)'}
    BY MmcFsAssumption DEF Held, Given, IsFile, OwnInv, ConsoleInv, Fd
  <2> QED
    BY <2>1
<1> SUFFICES ASSUME ~flagged' PROVE OwnerInv' /\ FreeInv' /\ CountInv'
  BY DEF OwnInv
<1>2. OwnerInv /\ FreeInv /\ CountInv
  BY DEF OwnInv
<1>3. OwnerInv'
  BY <1>2 DEF OwnerInv, Fil, Shape, FileInv
<1>4. FreeInv'
  <2>1. \A i \in 1..Len(stack) : stack[i] \in Slot
    BY DEF Shape, TypeInv
  <2> QED
    BY <1>2, <2>1 DEF FreeInv
<1>5. CountInv'
  BY <1>1, <1>2 DEF CountInv
<1> QED
  BY <1>3, <1>4, <1>5

(* Opening a file takes the top slot, which no open file has.              *)
LEMMA OwnOpened ==
  ASSUME Shape, OwnInv, ConsoleInv', ~flagged, NEW fd \in Fd, At(fd).dev = "none",
         NEW o \in Object, o.owner = fd, stack # <<>>,
         Sets(fd, [dev |-> "mmcfs", priv |-> TopSlot, flags |-> TopSlot, excl |-> FALSE]),
         table' = [table EXCEPT ![TopSlot] = o],
         stack' = SubSeq(stack, 1, Len(stack) - 1), lost' = lost
  PROVE  OwnerInv' /\ FreeInv' /\ CountInv'
<1> DEFINE v == [dev |-> "mmcfs", priv |-> TopSlot, flags |-> TopSlot, excl |-> FALSE]
           n == Len(stack)
<1>0. OwnerInv /\ FreeInv /\ CountInv /\ ConsoleInv
  BY DEF OwnInv
<1>1. n \in Nat \ {0} /\ TopSlot \in Slot /\ TopSlot = stack[n]
  BY TopType DEF Shape, TypeInv, TopSlot
<1>2. v \in Field /\ v.dev = "mmcfs" /\ v.priv = TopSlot /\ v.flags = TopSlot
  BY <1>1 DEF Field, Slot
<1> HIDE DEF v
<1>3. Sets(fd, v)
  BY DEF v
<1>4. /\ \A g \in Fd : At(g)' = IF g = fd THEN v ELSE At(g)
      /\ \A g \in Fd : IsFile(g)' <=> (g = fd \/ IsFile(g))
      /\ Held' = Held \union {fd}
  BY <1>0, <1>2, <1>3, HeldUpdate
<1>5. table[TopSlot].owner = -1
  BY <1>0, <1>1 DEF FreeInv
<1>6. \A g \in Fd : g # -1
  BY MmcFsAssumption DEF Fd
<1>7. OwnerInv'
  <2> SUFFICES ASSUME NEW g \in Fd, IsFile(g)'
               PROVE  Fil(g)'.owner = g /\ At(g)'.flags = At(g)'.priv
    BY DEF OwnerInv
  <2>1. CASE g = fd
    <3>1. table'[TopSlot] = o
      BY <1>1 DEF Shape, TypeInv
    <3>2. At(g)' = v
      BY <1>4, <2>1
    <3> QED
      BY <1>2, <2>1, <3>1, <3>2 DEF Fil
  <2>2. CASE g # fd
    <3>1. At(g)' = At(g) /\ IsFile(g)
      BY <1>4, <2>2
    <3>2. At(g).priv \in Slot /\ At(g).priv # TopSlot
      BY <1>0, <1>5, <1>6, <3>1 DEF OwnerInv, Fil, Shape, FileInv
    <3>3. table'[At(g).priv] = table[At(g).priv]
      BY <3>2 DEF Shape, TypeInv
    <3> QED
      BY <1>0, <3>1, <3>3 DEF OwnerInv, Fil
  <2> QED
    BY <2>1, <2>2
<1>8. FreeInv'
  <2>1. Len(stack') = n - 1 /\ \A i \in 1..n - 1 : stack'[i] = stack[i]
    BY TopType DEF Shape, TypeInv
  <2>2. \A i \in 1..n : stack[i] \in Slot
    BY DEF Shape, TypeInv
  <2>3. \A i \in 1..n - 1 : i \in 1..n /\ n \in 1..n /\ i # n
    BY <1>1
  <2>4. \A i \in 1..n - 1 : stack[i] # TopSlot
    BY <1>0, <1>1, <2>3 DEF FreeInv
  <2>5. \A i \in 1..n - 1 : table'[stack[i]] = table[stack[i]]
    BY <1>1, <2>2, <2>3, <2>4 DEF Shape, TypeInv
  <2> QED
    BY <1>0, <2>1, <2>3, <2>5 DEF FreeInv
<1>9. CountInv'
  <2>1. fd \notin Held
    BY DEF Held, IsFile
  <2>2. Cardinality(Held') = Cardinality(Held) + 1
    BY <1>4, <2>1, HeldFinite, FS_AddElement
  <2>3. Len(stack') = n - 1
    BY TopType DEF Shape, TypeInv
  <2>4. lost \in Nat
    BY DEF Shape, TypeInv
  <2>5. n + Cardinality(Held) + lost = NSlots
    BY <1>0 DEF CountInv
  <2>6. (n - 1) + (Cardinality(Held) + 1) + lost = NSlots
    BY <1>1, <2>4, <2>5, HeldFinite
  <2> QED
    BY <2>2, <2>3, <2>6 DEF CountInv
<1> QED
  BY <1>7, <1>8, <1>9

(* Closing a file: the slot it had, which nobody else has, goes back to    *)
(* the stack or is lost.                                                   *)
LEMMA OwnClosed ==
  ASSUME Shape, OwnInv, ConsoleInv', ~flagged, NEW fd \in Fd, IsFile(fd), Close(fd)
  PROVE  OwnerInv' /\ FreeInv' /\ CountInv'
<1> DEFINE p == At(fd).priv
           n == Len(stack)
<1>0. OwnerInv /\ FreeInv /\ CountInv /\ ConsoleInv
  BY DEF OwnInv
<1>1. p \in Slot /\ SlotOf(fd) = p /\ table[p].owner = fd /\ n \in Nat
  BY <1>0 DEF Shape, TypeInv, FileInv, OwnerInv, Fil, SlotOf
<1>2. /\ \A g \in Fd : At(g)' = IF g = fd THEN Unused ELSE At(g)
      /\ \A g \in Fd : IsFile(g)' <=> (g # fd /\ IsFile(g))
      /\ Held' = Held \ {fd} /\ fd \in Held
  BY <1>0, Entries, HeldUpdate DEF Close, Released
<1>3. \A g \in Fd : g # fd /\ IsFile(g) => At(g).priv \in Slot /\ At(g).priv # p
  BY <1>0, <1>1 DEF OwnerInv, Fil, Shape, FileInv
<1>4. \A i \in 1..n : stack[i] \in Slot /\ stack[i] # p
  <2>1. \A g \in Fd : g # -1
    BY MmcFsAssumption DEF Fd
  <2>2. \A i \in 1..n : stack[i] \in Slot
    BY DEF Shape, TypeInv
  <2> QED
    BY <1>0, <1>1, <2>1, <2>2 DEF FreeInv
<1>5. /\ table' \in [Slot -> Object]
      /\ \A s \in Slot : s # p => table'[s] = table[s]
  BY <1>1, ClosedType DEF Close, FClosed, NotClosed, Shape, TypeInv
<1>6. OwnerInv'
  <2> SUFFICES ASSUME NEW g \in Fd, IsFile(g)'
               PROVE  Fil(g)'.owner = g /\ At(g)'.flags = At(g)'.priv
    BY DEF OwnerInv
  <2>1. g # fd /\ IsFile(g) /\ At(g)' = At(g)
    BY <1>2
  <2> QED
    BY <1>0, <1>3, <1>5, <2>1 DEF OwnerInv, Fil
<1>7. Cardinality(Held') = Cardinality(Held) - 1
  BY <1>2, HeldFinite, FS_RemoveElement
<1>8. n + Cardinality(Held) + lost = NSlots /\ lost \in Nat
  BY <1>0 DEF CountInv, Shape, TypeInv
<1>9. CASE FClosed(fd) /\ stack' = Append(stack, SlotOf(fd)) /\ lost' = lost
  <2>1. /\ Len(stack') = n + 1
        /\ \A i \in 1..n : stack'[i] = stack[i]
        /\ stack'[n + 1] = p
    BY <1>1, <1>9 DEF Shape, TypeInv
  <2>2. table'[p].owner = -1
    BY <1>1, <1>9 DEF FClosed, Closed, Shape, TypeInv
  <2>3. \A i \in 1..n + 1 : i \in 1..n \/ i = n + 1
    BY <1>1
  <2>4. \A i \in 1..n : table'[stack[i]].owner = -1
    BY <1>0, <1>4, <1>5 DEF FreeInv
  <2>5. \A i \in 1..n + 1 : table'[stack'[i]].owner = -1
    BY <2>1, <2>2, <2>3, <2>4
  <2>6. \A i, j \in 1..n + 1 : stack'[i] = stack'[j] => i = j
    BY <1>0, <1>4, <2>1, <2>3 DEF FreeInv
  <2>7. FreeInv'
    BY <2>1, <2>5, <2>6 DEF FreeInv
  <2>8. CountInv'
    <3>1. (n + 1) + (Cardinality(Held) - 1) + lost = NSlots
      BY <1>1, <1>8, HeldFinite
    <3> QED
      BY <1>7, <1>9, <2>1, <3>1 DEF CountInv
  <2> QED
    BY <1>6, <2>7, <2>8
<1>10. CASE NotClosed(fd) /\ lost' = lost + 1 /\ stack' = stack
  <2>1. FreeInv'
    BY <1>0, <1>4, <1>5, <1>10 DEF FreeInv
  <2>2. n + (Cardinality(Held) - 1) + (lost + 1) = NSlots
    BY <1>1, <1>8, HeldFinite
  <2>3. CountInv'
    BY <1>7, <1>10, <2>2 DEF CountInv
  <2> QED
    BY <1>6, <2>1, <2>3
<1> QED
  BY <1>9, <1>10 DEF Close

(* Every step keeps OwnInv.                                                *)
LEMMA OwnNext == Shape /\ LockInv /\ OwnInv /\ [Next]_vars => OwnInv'
<1> SUFFICES ASSUME Shape, LockInv, OwnInv, [Next]_vars PROVE OwnInv'
  OBVIOUS
<1>0. ConsoleInv /\ ConsoleInv'
  BY ConsoleInvNext DEF OwnInv
<1>1. ASSUME NEW fd \in GetFd, NEW f \in Files, NEW acc \in {RDONLY, WRONLY, RDWR},
             NEW flags, OpenFile(fd, f, acc, flags)
      PROVE  OwnInv'
  <2>1. fd \in Fd /\ At(fd).dev = "none" /\ acc \in Int
    BY DEF GetFd, Free, RDONLY, WRONLY, RDWR
  <2>2. lost' = lost /\ flagged' = flagged
    BY <1>1 DEF OpenFile
  <2>3. CASE OpenFails(fd)
    <3>1. /\ \A g \in Fd : At(g)' = IF g = fd THEN Unused ELSE At(g)
          /\ \A g \in Fd : IsFile(g)' <=> (g # fd /\ IsFile(g))
      BY <1>0, <2>1, <2>3, Entries, HeldUpdate DEF OpenFails, Released
    <3>2. ~IsFile(fd)
      BY <2>1 DEF IsFile
    <3> QED
      BY <1>0, <2>2, <2>3, <3>1, <3>2, OwnKept DEF OpenFails
  <2>4. CASE stack # <<>> /\ ~OpenFails(fd)
    <3> DEFINE o == FOpen(fd, f, acc, Mode(acc, flags))
    <3>1. o \in Object /\ o.owner = fd
      BY <2>1, OpenType DEF Shape, TypeInv
    <3>2. /\ Sets(fd, [dev |-> "mmcfs", priv |-> TopSlot, flags |-> TopSlot, excl |-> FALSE])
          /\ table' = [table EXCEPT ![TopSlot] = o]
          /\ stack' = SubSeq(stack, 1, Len(stack) - 1)
      BY <1>1, <2>4 DEF OpenFile
    <3> HIDE DEF o
    <3>3. ~flagged => OwnerInv' /\ FreeInv' /\ CountInv'
      BY <1>0, <2>1, <2>2, <2>4, <3>1, <3>2, OwnOpened
    <3> QED
      BY <1>0, <2>2, <3>3 DEF OwnInv
  <2> QED
    BY <1>1, <2>3, <2>4 DEF OpenFile
<1>2. ASSUME NEW fd \in GetFd, NEW acc \in {RDONLY, WRONLY}, OpenDev(fd, "null", acc)
      PROVE  OwnInv'
  <2>1. fd \in Fd /\ ~IsFile(fd) /\ acc \in Int
    BY DEF GetFd, Free, RDONLY, WRONLY, IsFile
  <2>2. PICK v \in Field : Sets(fd, v) /\ v.dev # "mmcfs"
    BY <1>2, <2>1, Entries DEF OpenDev, Released
  <2>3. /\ \A g \in Fd : At(g)' = IF g = fd THEN v ELSE At(g)
        /\ \A g \in Fd : IsFile(g)' <=> (IF g = fd THEN v.dev = "mmcfs" ELSE IsFile(g))
    BY <1>0, <2>1, <2>2, HeldUpdate
  <2>4. \A g \in Fd : IsFile(g)' <=> IsFile(g)
    BY <2>1, <2>2, <2>3
  <2>5. \A g \in Fd : IsFile(g) => At(g)' = At(g)
    BY <2>1, <2>3
  <2> QED
    BY <1>0, <1>2, <2>4, <2>5, OwnKept DEF OpenDev
<1>3. CASE Transfer
  <2>1. \A s \in Slot : table'[s].owner = table[s].owner
    BY <1>3, TransferShape
  <2> QED
    BY <1>0, <1>3, <2>1, OwnKept DEF Transfer, IsFile, At
<1>4. ASSUME NEW fd \in Fd, Close(fd) PROVE OwnInv'
  <2>1. flagged' = flagged
    BY <1>4 DEF Close
  <2>2. CASE IsFile(fd)
    BY <1>0, <1>4, <2>1, <2>2, OwnClosed DEF OwnInv
  <2>3. CASE ~IsFile(fd)
    <3>1. /\ \A g \in Fd : At(g)' = IF g = fd THEN Unused ELSE At(g)
          /\ \A g \in Fd : IsFile(g)' <=> (g # fd /\ IsFile(g))
      BY <1>0, <1>4, Entries, HeldUpdate DEF Close, Released
    <3> QED
      BY <1>0, <1>4, <2>1, <2>3, <3>1, OwnKept DEF Close
  <2> QED
    BY <2>2, <2>3
<1>5. ASSUME NEW fd \in Fd, Lock(fd) \/ Unlock(fd) PROVE OwnInv'
  <2>1. ~IsFile(fd) /\ UNCHANGED <<stack, table, lost, flagged>>
    BY <1>5 DEF Lock, Unlock, LockInv, IsFile
  <2>2. PICK on \in BOOLEAN : Sets(fd, [At(fd) EXCEPT !.excl = on])
    BY <1>5 DEF Lock, Unlock
  <2>3. 0 \in Slot
    BY MmcFsAssumption DEF Slot
  <2> DEFINE w == [At(fd) EXCEPT !.excl = on]
  <2>4. w \in Field /\ w.dev = At(fd).dev
    BY <2>3, EntryFields
  <2> HIDE DEF w
  <2>5. /\ \A g \in Fd : At(g)' = IF g = fd THEN w ELSE At(g)
        /\ \A g \in Fd : IsFile(g)' <=> (IF g = fd THEN w.dev = "mmcfs" ELSE IsFile(g))
    BY <1>0, <2>2, <2>4, HeldUpdate DEF w
  <2>6. \A g \in Fd : (IsFile(g)' <=> IsFile(g)) /\ (IsFile(g) => At(g)' = At(g))
    BY <2>1, <2>4, <2>5 DEF IsFile
  <2> QED
    BY <1>0, <2>1, <2>6, OwnKept
<1>6. ASSUME NEW fd \in Fd, NEW on \in BOOLEAN, SetFl(fd, on) PROVE OwnInv'
  <2> DEFINE v == [At(fd) EXCEPT !.flags = WithAppend(At(fd).flags, on)]
  <2>1. v \in Field /\ v.dev = At(fd).dev
    BY <1>6, EntryFields DEF SetFl
  <2>2. Sets(fd, v) /\ UNCHANGED <<stack, table, lost>> /\ (~flagged' => ~flagged /\ ~IsFile(fd))
    BY <1>6 DEF SetFl
  <2> HIDE DEF v
  <2>3. /\ \A g \in Fd : At(g)' = IF g = fd THEN v ELSE At(g)
        /\ \A g \in Fd : IsFile(g)' <=> (IF g = fd THEN v.dev = "mmcfs" ELSE IsFile(g))
    BY <1>0, <2>1, <2>2, HeldUpdate
  <2>4. \A g \in Fd : IsFile(g)' <=> IsFile(g)
    BY <2>1, <2>3 DEF IsFile
  <2>5. ~flagged' => \A g \in Fd : IsFile(g) => At(g)' = At(g)
    BY <2>2, <2>3
  <2> QED
    BY <1>0, <2>2, <2>4, <2>5, OwnKept
<1>7. CASE UNCHANGED vars
  BY <1>0, <1>7, OwnKept DEF vars, IsFile, At
<1> QED
  BY <1>1, <1>2, <1>3, <1>4, <1>5, <1>6, <1>7 DEF Next

(* Initially no file is open and every slot is on the stack.               *)
LEMMA OwnInit == Init => OwnInv
<1> SUFFICES ASSUME Init PROVE OwnInv
  OBVIOUS
<1>1. \A fd \in Fd : At(fd) = IF fd <= 2 THEN Opened("uart", IF fd = 0 THEN RDONLY ELSE WRONLY)
                               ELSE Unused
  BY DEF Init, At
<1>2. ConsoleInv /\ \A fd \in Fd : ~IsFile(fd)
  BY <1>1, Entries DEF ConsoleInv, IsFile, RDONLY, WRONLY
<1>3. OwnerInv
  BY <1>2 DEF OwnerInv
<1>4. NSlots \in Nat /\ stack = [i \in 1..NSlots |-> i - 1] /\ Len(stack) = NSlots
  BY MmcFsAssumption DEF Init
<1>5. \A i \in 1..NSlots : stack[i] \in Slot /\ stack[i] = i - 1
  BY <1>4 DEF Slot
<1>6. FreeInv
  BY <1>4, <1>5 DEF FreeInv, Init, Closed
<1>7. Held = {}
  BY <1>2 DEF Held, Given
<1>8. CountInv
  BY <1>4, <1>7, FS_EmptySet DEF CountInv, Init
<1> QED
  BY <1>2, <1>3, <1>6, <1>8 DEF OwnInv

(* The slots on the stack are as many as the stack is long.                *)
LEMMA StackCardinality ==
  ASSUME Shape, FreeInv
  PROVE  Cardinality(OnStack) = Len(stack)
<1>1. Len(stack) \in Nat /\ \A i \in 1..Len(stack) : stack[i] \in OnStack
  BY DEF Shape, TypeInv, OnStack
<1> DEFINE h == [i \in 1..Len(stack) |-> stack[i]]
<1>2. h \in Bijection(1..Len(stack), OnStack)
  BY <1>1 DEF FreeInv, OnStack, Bijection, Injection, Surjection, IsInjective
<1>3. ExistsBijection(1..Len(stack), OnStack)
  BY <1>2 DEF ExistsBijection
<1>4. IsFiniteSet(1..Len(stack)) /\ Cardinality(1..Len(stack)) = Len(stack)
  BY <1>1, FS_Interval
<1> QED
  BY <1>3, <1>4, FS_Bijection

(* Every open file has a slot of its own and reads and writes the file it  *)
(* was opened for, as long as F_SETFL is not used on one: only a close     *)
(* that fails loses a slot.                                                *)
THEOREM OwnFileCorrect == Spec => []OwnFile
<1>1. ASSUME Shape, OwnInv PROVE OwnFile
  <2> SUFFICES ASSUME ~flagged
               PROVE  /\ \A fd \in Held : Fil(fd).owner = fd /\ SlotOf(fd) = At(fd).priv
                      /\ \A fd, g \in Held : At(fd).priv = At(g).priv => fd = g
                      /\ OnStack \intersect {At(fd).priv : fd \in Held} = {}
                      /\ Cardinality(OnStack) = Len(stack)
                      /\ Len(stack) + Cardinality(Held) + lost = NSlots
    BY DEF OwnFile
  <2>1. OwnerInv /\ FreeInv /\ CountInv
    BY <1>1 DEF OwnInv
  <2>2. \A fd \in Held : fd \in Fd /\ IsFile(fd) /\ fd # -1
    BY MmcFsAssumption DEF Held, Given, Fd
  <2>3. \A fd \in Held : Fil(fd).owner = fd /\ SlotOf(fd) = At(fd).priv
    BY <2>1, <2>2 DEF OwnerInv, SlotOf
  <2>4. \A fd, g \in Held : At(fd).priv = At(g).priv => fd = g
    BY <2>3 DEF Fil
  <2>5. OnStack \intersect {At(fd).priv : fd \in Held} = {}
    BY <2>1, <2>2, <2>3 DEF OnStack, FreeInv, Fil
  <2>6. Cardinality(OnStack) = Len(stack)
    BY <1>1, <2>1, StackCardinality
  <2> QED
    BY <2>1, <2>3, <2>4, <2>5, <2>6 DEF CountInv
<1> QED
  BY <1>1, ShapeInit, ShapeNext, LockInit, LockNext, OwnInit, OwnNext, PTL DEF Spec
------------------------------------------------------------------------------
(* Why no file changes through a descriptor the program opened for reading *)
(* only: its file object may not write, whatever the word the HAL looks at *)
(* says, and its position never passes the end, which would move the end.  *)
ObjectInv == \A s \in Slot : "WRITE" \in table[s].flag => table[s].asked # RDONLY

(* dev_mmcfs_open asks for a file that may be written, or for one that is  *)
(* cut off, only if the program did.                                       *)
LEMMA ModeAsked ==
  ASSUME NEW acc \in {RDONLY, WRONLY, RDWR}, NEW flags,
         "WRITE" \in Mode(acc, flags) \/ "CREATE" \in Mode(acc, flags)
  PROVE  acc # RDONLY
BY DEF Mode, RDONLY, WRONLY, RDWR

(* read(), write() and lseek() move one object: it can do afterwards what  *)
(* it could before, and its end stays where it is if it may not write.     *)
LEMMA MovesFree ==
  ASSUME Shape, Transfer
  PROVE  \E s \in Slot, pos, end \in Int :
           /\ table' = [table EXCEPT ![s] = [@ EXCEPT !.fptr = pos, !.fsize = end]]
           /\ "WRITE" \notin table[s].flag => end = table[s].fsize
<1>0. ASSUME NEW fd \in Given, IsFile(fd)
      PROVE  At(fd).priv \in Slot /\ Fil(fd).fptr \in Int /\ Fil(fd).fsize \in Int
  BY <1>0 DEF Given, Fil, Shape, TypeInv, FileInv, Object
<1>1. PICK fd \in Given, n \in 1..Cap :
        \/ Read(fd, n)
        \/ Write(fd, n)
        \/ \E dir \in {"SET", "CUR", "END"}, ptr \in {-n, 0, n} : Lseek(fd, ptr, dir)
  BY DEF Transfer
<1>2. n \in Int /\ Cap \in Int
  BY MmcFsAssumption
<1>3. IsFile(fd)
  BY <1>1 DEF Read, Write, Lseek
<1>4. At(fd).priv \in Slot /\ Fil(fd).fptr \in Int /\ Fil(fd).fsize \in Int
  BY <1>0, <1>3
<1>5. SUFFICES \E pos, end \in Int :
                 /\ Becomes(fd, pos, end)
                 /\ "WRITE" \notin Fil(fd).flag => end = Fil(fd).fsize
  BY <1>4 DEF Becomes, Fil
<1>6. CASE Read(fd, n)
  BY <1>2, <1>4, <1>6 DEF Read, FRead, Smaller
<1>7. CASE Write(fd, n)
  BY <1>2, <1>4, <1>7 DEF Write, FWrite, Smaller, Larger
<1>8. CASE \E ofs \in Int : FLseek(fd, ofs)
  BY <1>2, <1>4, <1>8 DEF FLseek, Smaller, Larger
<1>9. ASSUME NEW dir \in {"SET", "CUR", "END"}, NEW ptr \in {-n, 0, n}, Lseek(fd, ptr, dir)
      PROVE  \E ofs \in Int : FLseek(fd, ofs)
  <2>1. ptr \in Int
    BY <1>2
  <2>2. CASE dir = "SET"
    BY <1>9, <2>1, <2>2 DEF Lseek
  <2>3. CASE dir = "CUR"
    BY <1>4, <1>9, <2>1, <2>3 DEF Lseek
  <2>4. CASE dir = "END"
    BY <1>4, <1>9, <2>1, <2>4 DEF Lseek
  <2> QED
    BY <2>2, <2>3, <2>4
<1> QED
  BY <1>1, <1>6, <1>7, <1>8, <1>9

(* What a step does to the file objects and the files' sizes: it moves an  *)
(* object, opens one, closes one, or leaves them alone.                    *)
ObjectMoved == \E s \in Slot, pos, end \in Int :
  /\ table' = [table EXCEPT ![s] = [@ EXCEPT !.fptr = pos, !.fsize = end]]
  /\ "WRITE" \notin table[s].flag => end = table[s].fsize
  /\ size' = size
ObjectOpened == \E s \in Slot, o \in Object :
  /\ table' = [table EXCEPT ![s] = o] /\ alt_fd_list' # alt_fd_list
  /\ o.file \in Files /\ size' = [size EXCEPT ![o.file] = o.fsize]
  /\ "WRITE" \in o.flag \/ size[o.file] \notin {-1, o.fsize} => o.asked # RDONLY
ObjectClosed == \E s \in Slot :
  /\ table' = [table EXCEPT ![s] = Closed] /\ alt_fd_list' # alt_fd_list
  /\ \/ size' = size
     \/ /\ "WRITE" \in table[s].flag
        /\ size' = [size EXCEPT ![table[s].file] = table[s].fsize]

LEMMA OpenObject ==
  ASSUME Shape, NEW fd \in GetFd, NEW f \in Files, NEW acc \in {RDONLY, WRONLY, RDWR},
         NEW flags, OpenFile(fd, f, acc, flags)
  PROVE  ObjectOpened \/ UNCHANGED <<table, size>>
<1> DEFINE mode == Mode(acc, flags)
           o == FOpen(fd, f, acc, mode)
           v == [dev |-> "mmcfs", priv |-> TopSlot, flags |-> TopSlot, excl |-> FALSE]
<1>1. CASE OpenFails(fd)
  BY <1>1 DEF OpenFails
<1>2. CASE /\ stack # <<>> /\ Sets(fd, v) /\ table' = [table EXCEPT ![TopSlot] = o]
           /\ size' = [size EXCEPT ![f] = o.fsize]
  <2>1. fd \in Fd /\ acc \in Int /\ At(fd).dev = "none"
    BY DEF GetFd, Free, RDONLY, WRONLY, RDWR
  <2>2. TopSlot \in Slot
    BY <1>2, TopType DEF Shape, TypeInv
  <2>3. v \in Field /\ v.dev = "mmcfs"
    BY <2>2 DEF Field, Slot
  <2>4. alt_fd_list' # alt_fd_list
    BY <1>2, <2>1, <2>3, SetsType DEF Shape, TypeInv, At
  <2>5. o \in Object
    BY <2>1, OpenType DEF Shape, TypeInv
  <2>6. /\ o.file = f /\ o.asked = acc
        /\ "WRITE" \in o.flag => "WRITE" \in mode
        /\ size[f] \notin {-1, o.fsize} => "CREATE" \in mode
    BY DEF FOpen
  <2>7. "WRITE" \in mode \/ "CREATE" \in mode => acc # RDONLY
    BY ModeAsked
  <2> HIDE DEF o, mode, v
  <2> QED
    BY <1>2, <2>2, <2>4, <2>5, <2>6, <2>7 DEF ObjectOpened
<1> QED
  BY <1>1, <1>2 DEF OpenFile

LEMMA CloseObject ==
  ASSUME Shape, NEW fd \in Fd, Close(fd)
  PROVE  ObjectClosed \/ UNCHANGED <<table, size>>
<1>1. alt_fd_list' # alt_fd_list
  BY Entries, SetsType DEF Close, Released, Given, Shape, TypeInv, At
<1>2. IsFile(fd) => At(fd).priv \in Slot
  BY DEF Shape, FileInv
<1>3. CASE IsFile(fd) /\ FClosed(fd)
  BY <1>1, <1>2, <1>3 DEF FClosed, Fil, ObjectClosed
<1>4. CASE IsFile(fd) /\ NotClosed(fd)
  BY <1>1, <1>2, <1>4 DEF NotClosed, ObjectClosed
<1> QED
  BY <1>3, <1>4 DEF Close

LEMMA ObjectStep ==
  ASSUME Shape, [Next]_vars
  PROVE  ObjectMoved \/ ObjectOpened \/ ObjectClosed \/ UNCHANGED <<table, size>>
<1>1. CASE Transfer
  <2>1. size' = size
    BY <1>1 DEF Transfer
  <2> QED
    BY <1>1, <2>1, MovesFree DEF ObjectMoved
<1>2. ASSUME NEW fd \in GetFd, NEW acc, OpenDev(fd, "null", acc)
      PROVE  UNCHANGED <<table, size>>
  BY <1>2 DEF OpenDev
<1>3. ASSUME NEW fd \in Fd, NEW on \in BOOLEAN, Lock(fd) \/ Unlock(fd) \/ SetFl(fd, on)
      PROVE  UNCHANGED <<table, size>>
  BY <1>3 DEF Lock, Unlock, SetFl
<1>4. CASE UNCHANGED vars
  BY <1>4 DEF vars
<1> QED
  BY <1>1, <1>2, <1>3, <1>4, OpenObject, CloseObject DEF Next

(* A file object that may write was asked for by a program that wants to.  *)
LEMMA ObjectInit == Init => ObjectInv
BY DEF Init, ObjectInv, Closed

LEMMA ObjectNext == Shape /\ ObjectInv /\ [Next]_vars => ObjectInv'
<1> SUFFICES ASSUME Shape, ObjectInv, [Next]_vars PROVE ObjectInv'
  OBVIOUS
<1>1. table \in [Slot -> Object]
  BY DEF Shape, TypeInv
<1>2. CASE ObjectMoved
  <2>1. PICK s \in Slot, pos \in Int, end \in Int :
          table' = [table EXCEPT ![s] = [@ EXCEPT !.fptr = pos, !.fsize = end]]
    BY <1>2 DEF ObjectMoved
  <2>2. \A t \in Slot : table'[t].flag = table[t].flag /\ table'[t].asked = table[t].asked
    BY <1>1, <2>1 DEF Object
  <2> QED
    BY <2>2 DEF ObjectInv
<1>3. CASE ObjectOpened
  BY <1>1, <1>3 DEF ObjectOpened, ObjectInv
<1>4. CASE ObjectClosed
  BY <1>1, <1>4 DEF ObjectClosed, ObjectInv, Closed
<1>5. CASE UNCHANGED <<table, size>>
  BY <1>5 DEF ObjectInv
<1> QED
  BY <1>2, <1>3, <1>4, <1>5, ObjectStep

(* The two parts of ModeKept, for one step.                                *)
EndKept == \A s \in Slot : table'[s].fsize # table[s].fsize /\ alt_fd_list' = alt_fd_list =>
             table[s].asked # RDONLY
SizeKept == \A f \in Files : size'[f] # size[f] /\ ~(size[f] = -1) =>
             \E s \in Slot : Writer(table[s], f) \/ Writer(table'[s], f)

LEMMA EndStep == Shape /\ ObjectInv /\ [Next]_vars => EndKept
<1> SUFFICES ASSUME Shape, ObjectInv, [Next]_vars PROVE EndKept
  OBVIOUS
<1>1. CASE ObjectMoved
  <2>1. PICK s \in Slot, pos \in Int, end \in Int :
          /\ table' = [table EXCEPT ![s] = [@ EXCEPT !.fptr = pos, !.fsize = end]]
          /\ "WRITE" \notin table[s].flag => end = table[s].fsize
    BY <1>1 DEF ObjectMoved
  <2>2. table \in [Slot -> Object] /\ table[s] \in Object
    BY DEF Shape, TypeInv
  <2>3. /\ table'[s].fsize = end
        /\ \A t \in Slot : t # s => table'[t] = table[t]
    BY <2>1, <2>2 DEF Object
  <2> QED
    BY <2>1, <2>3 DEF EndKept, ObjectInv
<1>2. CASE ObjectOpened \/ ObjectClosed
  BY <1>2 DEF ObjectOpened, ObjectClosed, EndKept
<1>3. CASE UNCHANGED <<table, size>>
  BY <1>3 DEF EndKept
<1> QED
  BY <1>1, <1>2, <1>3, ObjectStep

LEMMA SizeStep == Shape /\ ObjectInv /\ [Next]_vars => SizeKept
<1> SUFFICES ASSUME Shape, ObjectInv, [Next]_vars PROVE SizeKept
  OBVIOUS
<1>0. table \in [Slot -> Object] /\ size \in [Files -> Int]
  BY DEF Shape, TypeInv
<1>1. CASE ObjectOpened
  <2>1. PICK s \in Slot, o \in Object :
          /\ table' = [table EXCEPT ![s] = o]
          /\ o.file \in Files /\ size' = [size EXCEPT ![o.file] = o.fsize]
          /\ "WRITE" \in o.flag \/ size[o.file] \notin {-1, o.fsize} => o.asked # RDONLY
    BY <1>1 DEF ObjectOpened
  <2>2. table'[s] = o /\ size'[o.file] = o.fsize
    BY <1>0, <2>1
  <2>3. \A f \in Files : f # o.file => size'[f] = size[f]
    BY <1>0, <2>1
  <2> QED
    BY <2>1, <2>2, <2>3 DEF SizeKept, Writer
<1>2. CASE ObjectClosed
  <2>1. PICK s \in Slot :
          \/ size' = size
          \/ /\ "WRITE" \in table[s].flag
             /\ size' = [size EXCEPT ![table[s].file] = table[s].fsize]
    BY <1>2 DEF ObjectClosed
  <2>2. \A f \in Files : size'[f] # size[f] => Writer(table[s], f)
    BY <1>0, <2>1 DEF ObjectInv, Writer
  <2> QED
    BY <2>2 DEF SizeKept
<1>3. CASE ObjectMoved \/ UNCHANGED <<table, size>>
  BY <1>3 DEF ObjectMoved, SizeKept
<1> QED
  BY <1>1, <1>2, <1>3, ObjectStep

(* A file changes, or is cut off, only through a descriptor for which the  *)
(* program asked for write access, also when F_SETFL has changed the slot  *)
(* that fd_flags names: f_read, f_write and f_close go by the file object. *)
THEOREM ModeCorrect == Spec => ModeKept
<1>1. Shape /\ ObjectInv /\ [Next]_vars => [EndKept /\ SizeKept]_vars
  BY EndStep, SizeStep
<1> QED
  BY <1>1, ShapeInit, ShapeNext, ObjectInit, ObjectNext, PTL
     DEF Spec, ModeKept, EndKept, SizeKept
=============================================================================
