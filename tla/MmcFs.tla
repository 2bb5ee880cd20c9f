------------------------------- MODULE MmcFs -------------------------------
(* Open files from the C library's side: the descriptors of the HAL, and   *)
(* below them mmcfs.c, which gives each open file a slot of a table of     *)
(* FatFs file objects.  The HAL keeps a descriptor's open mode in fd_flags *)
(* and mmcfs the number of its slot, in the same word.                     *)
EXTENDS Integers, Sequences, FiniteSets

CONSTANTS
  MaxFd,        \* ALT_MAX_FD (32); descriptors 0 to 2 are the console's
  NSlots,       \* MMCFS_FD_MAXNUM (ALT_MAX_FD)
  OAppend,      \* the bit of O_APPEND (8)
  Files,
  Cap           \* bound: the bytes there is room for in a file

ASSUME MmcFsAssumption ==
  /\ MaxFd \in Nat /\ MaxFd > 3 /\ NSlots \in Nat \ {0} /\ Cap \in Nat
  /\ OAppend \in Nat /\ OAppend % 4 = 0 /\ OAppend > 0

VARIABLES
  alt_fd_list,  \* descriptor -> device, slot, flags
  alt_max_fd,
  stack,        \* dev_mmcfs_fd: the free slots, dev_mmcfs_fd_num of them
  table,        \* dev_mmcfs_table: slot -> FIL
  size,         \* file -> its bytes on the card, or -1
  lost,         \* how many slots failed closes have kept
  flagged       \* F_SETFL was called on an open file

vars == <<alt_fd_list, alt_max_fd, stack, table, size, lost, flagged>>

RDONLY == 0    WRONLY == 1    RDWR == 2
Fd == 0..MaxFd - 1
Slot == 0..NSlots - 1
Unused == [dev |-> "none", priv |-> -1, flags |-> 0, excl |-> FALSE]
Opened(d, acc) == [dev |-> d, priv |-> -1, flags |-> acc, excl |-> FALSE]
Closed == [owner |-> -1, asked |-> -1, file |-> "none", flag |-> {}, fptr |-> 0, fsize |-> 0]
At(fd) == alt_fd_list[fd]
IsFile(fd) == At(fd).dev = "mmcfs"
Given == {fd \in Fd : fd > 2 /\ At(fd).dev # "none"}  \* what the program has opened
Fil(fd) == table[At(fd).priv]
Sets(f, v) == alt_fd_list' = [alt_fd_list EXCEPT ![f] = v]
------------------------------------------------------------------------------
(* alt_get_fd: the first descriptor free, if there is one.                 *)
Free == {fd \in Fd : At(fd).dev = "none"}
GetFd == {fd \in Free : \A g \in Free : fd <= g}
Highest(fd) == alt_max_fd' = IF fd > alt_max_fd THEN fd ELSE alt_max_fd

(* alt_release_fd.  It leaves priv, which the next open of a file sets.     *)
Released(fd) == Sets(fd, Unused)

(* dev_mmcfs_open: how O_RDONLY ... O_RDWR become a mode of f_open.        *)
Mode_rw(acc, flags) ==                  \* mutant: every file may be written
  {"READ", "WRITE"} \union (IF acc = RDONLY THEN {"EXISTING"} ELSE {"CREATE"})
Mode(acc, flags) ==
  CASE acc = RDONLY -> {"READ", "EXISTING"}
    [] acc = WRONLY -> {"WRITE", IF "APPEND" \in flags THEN "ALWAYS" ELSE "CREATE"}
    [] acc = RDWR -> {"READ", "WRITE"} \union
         {IF "APPEND" \in flags THEN "ALWAYS" ELSE IF "CREAT" \in flags THEN "CREATE" ELSE "EXISTING"}

(* f_open, as mmcfs.c needs it: what the file object holds, or a failure   *)
(* because of a file that is missing or of the card.  owner and asked are  *)
(* not in the code: the descriptor and the mode the program asked for.     *)
FOpen(fd, f, acc, mode) ==
  [owner |-> fd, asked |-> acc, file |-> f, flag |-> mode \intersect {"READ", "WRITE"}, fptr |-> 0,
   fsize |-> IF "CREATE" \in mode \/ size[f] = -1 THEN 0 ELSE size[f]]
Missing(f, mode) == "EXISTING" \in mode /\ size[f] = -1

(* open() of a file of the card.  A mode of 3 (EINVAL), a want of slots    *)
(* (EMFILE) and an f_open that fails, which leaves the file as it is, all  *)
(* end in OpenFails.                                                       *)
TopSlot == stack[Len(stack)]
OpenFails(fd) ==                        \* the descriptor is taken and released
  Released(fd) /\ UNCHANGED <<stack, table, size>>
OpenFile(fd, f, acc, flags) ==
  /\ Highest(fd)
  /\ \/ /\ stack # <<>> /\ ~Missing(f, Mode(acc, flags))
        /\ Sets(fd, [dev |-> "mmcfs", priv |-> TopSlot, flags |-> TopSlot, excl |-> FALSE])
        /\ table' = [table EXCEPT ![TopSlot] = FOpen(fd, f, acc, Mode(acc, flags))]
        /\ stack' = SubSeq(stack, 1, Len(stack) - 1)
        /\ size' = [size EXCEPT ![f] = FOpen(fd, f, acc, Mode(acc, flags)).fsize]
     \/ OpenFails(fd)
  /\ UNCHANGED <<lost, flagged>>

(* open() of a device, here /dev/null, unless a descriptor has locked it.  *)
Locked_below(d) == \E fd \in Fd : fd < alt_max_fd' /\ At(fd).dev = d /\ At(fd).excl
Locked(d) == \E fd \in Fd : fd <= alt_max_fd' /\ At(fd).dev = d /\ At(fd).excl
OpenDev(fd, d, acc) ==
  /\ Highest(fd)
  /\ IF Locked(d) THEN Released(fd)
     ELSE Sets(fd, Opened(d, acc))
  /\ UNCHANGED <<stack, table, size, lost, flagged>>

(* close(): the descriptor is free afterwards in any case, the slot only   *)
(* if f_close succeeds.  The slot given back is the number in fd_flags.    *)
SlotOf_fd(fd) == fd                     \* mutant: the descriptor is given back
SlotOf(fd) == At(fd).flags
Unshared(fd) == \A g \in Fd : g # fd /\ IsFile(g) => At(g).priv # At(fd).priv
FClosed(fd) ==
  /\ Fil(fd) # Closed
  /\ table' = [table EXCEPT ![At(fd).priv] = Closed]
  /\ size' = IF "WRITE" \in Fil(fd).flag
             THEN [size EXCEPT ![Fil(fd).file] = Fil(fd).fsize] ELSE size
NotClosed(fd) ==                        \* nobody will look at the object again
  /\ table' = IF Unshared(fd) THEN [table EXCEPT ![At(fd).priv] = Closed] ELSE table
  /\ UNCHANGED size
Close(fd) ==
  /\ fd \in Given /\ Released(fd)
  /\ \/ ~IsFile(fd) /\ UNCHANGED <<stack, table, size, lost>>
     \/ IsFile(fd) /\ FClosed(fd) /\ stack' = Append(stack, SlotOf(fd)) /\ UNCHANGED lost
     \/ IsFile(fd) /\ NotClosed(fd) /\ lost' = lost + 1 /\ UNCHANGED stack
  /\ UNCHANGED <<alt_max_fd, flagged>>

(* read(), write() and lseek().  The HAL looks for the mode in fd_flags;    *)
(* f_read and f_write look in the file object.  A call that fails changes  *)
(* nothing; a device has no position.                                      *)
Access(fd) == At(fd).flags % 4
Becomes(fd, pos, end) ==
  table' = [table EXCEPT ![At(fd).priv] = [@ EXCEPT !.fptr = pos, !.fsize = end]]
Larger(m, n) == IF m > n THEN m ELSE n
Smaller(m, n) == IF m < n THEN m ELSE n
FRead(fd, n) ==
  /\ "READ" \in Fil(fd).flag
  /\ Becomes(fd, Smaller(Fil(fd).fptr + n, Fil(fd).fsize), Fil(fd).fsize)
FWrite(fd, n) ==
  /\ "WRITE" \in Fil(fd).flag
  /\ LET pos == Smaller(Fil(fd).fptr + n, Cap) IN Becomes(fd, pos, Larger(pos, Fil(fd).fsize))
FLseek(fd, ofs) ==                      \* ofs is a DWORD: a negative one is huge
  /\ Fil(fd) # Closed
  /\ LET end == IF "WRITE" \in Fil(fd).flag THEN Cap ELSE Fil(fd).fsize
         pos == IF ofs < 0 THEN end ELSE Smaller(ofs, end)
     IN Becomes(fd, pos, Larger(pos, Fil(fd).fsize))
Read(fd, n) == fd \in Given /\ IsFile(fd) /\ Access(fd) # WRONLY /\ FRead(fd, n)
Write(fd, n) == fd \in Given /\ IsFile(fd) /\ Access(fd) # RDONLY /\ FWrite(fd, n)
Lseek(fd, ptr, dir) ==
  /\ fd \in Given /\ IsFile(fd)
  /\ FLseek(fd, CASE dir = "SET" -> ptr
                  [] dir = "CUR" -> Fil(fd).fptr + ptr
                  [] dir = "END" -> Fil(fd).fsize + ptr)
Transfer ==
  /\ \E fd \in Given, n \in 1..Cap :
       \/ Read(fd, n)
       \/ Write(fd, n)
       \/ \E dir \in {"SET", "CUR", "END"}, ptr \in {-n, 0, n} : Lseek(fd, ptr, dir)
  /\ UNCHANGED <<alt_fd_list, alt_max_fd, stack, size, lost, flagged>>

(* fcntl(F_SETFL) puts O_APPEND, or clears it, in the same word.  Bound: a *)
(* number that is no slot's any more is left out.                          *)
WithAppend(n, on) ==
  LET clear == IF (n \div OAppend) % 2 = 1 THEN n - OAppend ELSE n
  IN IF on THEN clear + OAppend ELSE clear
SetFl(fd, on) ==
  /\ fd \in Given /\ WithAppend(At(fd).flags, on) \in Slot
  /\ Sets(fd, [At(fd) EXCEPT !.flags = WithAppend(@, on)])
  /\ flagged' = (flagged \/ IsFile(fd))
  /\ UNCHANGED <<alt_max_fd, stack, table, size, lost>>

(* ioctl(TIOCEXCL) and (TIOCNXCL): alt_fd_lock, alt_fd_unlock.             *)
Searched == {fd \in Fd : fd < alt_max_fd}
Shared(fd) == \E g \in Searched : g # fd /\ At(g).dev = At(fd).dev
Lock(fd) ==
  /\ fd \in Fd /\ At(fd).dev \notin {"none", "mmcfs"}
  /\ ~Shared(fd) /\ Sets(fd, [At(fd) EXCEPT !.excl = TRUE])
  /\ UNCHANGED <<alt_max_fd, stack, table, size, lost, flagged>>
Unlock(fd) ==
  /\ At(fd).excl /\ Sets(fd, [At(fd) EXCEPT !.excl = FALSE])
  /\ UNCHANGED <<alt_max_fd, stack, table, size, lost, flagged>>

(* The console is open (alt_io_redirect used descriptor 3 for it in        *)
(* passing) and stays so, as main does not return; mmcfs_setup has filled  *)
(* the stack.                                                              *)
Init ==
  /\ alt_fd_list = [fd \in Fd |-> IF fd <= 2 THEN Opened("uart", IF fd = 0 THEN RDONLY ELSE WRONLY)
                            ELSE Unused]
  /\ alt_max_fd = 3
  /\ stack = [i \in 1..NSlots |-> i - 1]
  /\ table = [s \in Slot |-> Closed]
  /\ size \in [Files -> {-1, Cap}]
  /\ lost = 0 /\ flagged = FALSE

Next ==
  \/ \E fd \in GetFd :
       \/ \E f \in Files, acc \in {RDONLY, WRONLY, RDWR},
            flags \in {{}, {"CREAT"}, {"CREAT", "APPEND"}} : OpenFile(fd, f, acc, flags)
       \/ \E acc \in {RDONLY, WRONLY} : OpenDev(fd, "null", acc)
  \/ Transfer
  \/ \E fd \in Fd : Close(fd) \/ Lock(fd) \/ Unlock(fd)
  \/ \E fd \in Fd, on \in BOOLEAN : SetFl(fd, on)
Spec == Init /\ [][Next]_vars
------------------------------------------------------------------------------
(* As long as F_SETFL is not used on a file, every open file has a slot of *)
(* its own and reads and writes the file it was opened for, the stack has  *)
(* every other slot once, and only failed closes lose any: an open is      *)
(* refused for want of a slot only when as many were lost as there are     *)
(* more slots than descriptors.                                            *)
Held == {fd \in Given : IsFile(fd)}
OnStack == {stack[i] : i \in 1..Len(stack)}
OwnFile == ~flagged =>
  /\ \A fd \in Held : Fil(fd).owner = fd /\ SlotOf(fd) = At(fd).priv
  /\ \A fd, g \in Held : At(fd).priv = At(g).priv => fd = g
  /\ OnStack \intersect {At(fd).priv : fd \in Held} = {}
  /\ Cardinality(OnStack) = Len(stack)
  /\ Len(stack) + Cardinality(Held) + lost = NSlots

(* Although the HAL looks for the mode in a word that has something else,  *)
(* a file changes, or is cut off, only through a descriptor for which the  *)
(* program asked for write access; and a read or a seek makes no file      *)
(* object longer or shorter that was not opened for writing.               *)
Writer(fil, f) == fil.file = f /\ fil.asked # RDONLY
ModeKept == [][
  /\ \A s \in Slot : table'[s].fsize # table[s].fsize /\ alt_fd_list' = alt_fd_list =>
       table[s].asked # RDONLY
  /\ \A f \in Files : size'[f] # size[f] /\ ~(size[f] = -1) =>
       \E s \in Slot : Writer(table[s], f) \/ Writer(table'[s], f)]_vars

(* alt_fd_lock.c:43-45 promises a lock only to the one descriptor a device *)
(* is open on, and that nobody opens the device until it is released.      *)
(* What the code keeps of it: the lock is granted in spite of one other    *)
(* user, the highest descriptor that was ever open, as the search stops    *)
(* before it; and while it lasts nobody joins the two.                     *)
Others(fd) == {g \in Fd \ {fd} : At(g).dev = At(fd).dev}
LockStep == \A fd \in Fd : At(fd)'.excl =>
  Others(fd)' \subseteq (IF At(fd).excl THEN Others(fd) ELSE {alt_max_fd})
LockKept == [][LockStep]_vars
=============================================================================
