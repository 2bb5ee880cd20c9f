----------------------------- MODULE FileStore -----------------------------
(* What a file system promises: files are sequences of bytes, a handle is  *)
(* a position in one of them.  io is the data of the last read or write.   *)
EXTENDS Integers, Sequences

CONSTANTS Path, Handle, NoPath

VARIABLES
  files,        \* path -> sequence of bytes
  at,           \* handle -> the path and the position, or NoPath
  writer,       \* the handles that write
  io,           \* the bytes of the last read or write
  cut           \* the call a power loss has cut off, "none" so far

vars == <<files, at, writer, io, cut>>

Init ==
  /\ files = [p \in {} |-> <<>>]
  /\ at = [h \in Handle |-> NoPath]
  /\ writer = {}
  /\ io = <<>>
  /\ cut = "none"

IsOpen(h) == at[h] # NoPath
File(h) == files[at[h].path]
Pos(h) == at[h].pos
Open == {at[h].path : h \in {g \in Handle : IsOpen(g)}}
OpenForWriting == {at[h].path : h \in writer}

(* Only the file p may change, from now on f.                              *)
Becomes(p, f) == files' = [q \in DOMAIN files \union {p} |-> IF q = p THEN f ELSE files[q]]
MovesTo(h, n) == at' = [at EXCEPT ![h].pos = n]

(* Two sequences agree in the positions of a set.                          *)
Agree(f, g, S) == \A i \in S : f[i] = g[i]

OpenFile(h) == \E p \in Path :
  /\ ~IsOpen(h)
  /\ at' = [at EXCEPT ![h] = [path |-> p, pos |-> 0]]
  /\ writer' \in {writer, writer \union {h}}
  /\ \/ p \in DOMAIN files /\ UNCHANGED files
     \/ Becomes(p, <<>>) /\ h \in writer'          \* created or overwritten
  /\ UNCHANGED <<io, cut>>

Read(h) ==
  /\ IsOpen(h)
  /\ \E n \in 0..Len(File(h)) - Pos(h) :
       io' = SubSeq(File(h), Pos(h) + 1, Pos(h) + n) /\ MovesTo(h, Pos(h) + n)
  /\ UNCHANGED <<files, writer, cut>>

(* A write puts what it was given, as far as there is room, at the         *)
(* position, and leaves the rest of the file alone.                        *)
Write(h) ==
  /\ h \in writer
  /\ \E n \in 0..Len(io') :
       LET old == File(h)
           new == files'[at[h].path]
       IN /\ MovesTo(h, Pos(h) + n)
          /\ Len(new) = IF Pos(h) + n > Len(old) THEN Pos(h) + n ELSE Len(old)
          /\ \A i \in 1..n : new[Pos(h) + i] = io'[i]
          /\ Agree(old, new, DOMAIN old \ (Pos(h) + 1..Pos(h) + n))
          /\ Becomes(at[h].path, new)
  /\ UNCHANGED <<writer, cut>>

(* A seek behind the end makes the file longer, by bytes nobody promises.  *)
Seek(h) ==
  /\ IsOpen(h) /\ at'[h] # NoPath /\ at'[h].path = at[h].path
  /\ LET old == File(h)
         new == files'[at[h].path]
     IN /\ Len(new) >= Len(old) /\ Agree(old, new, DOMAIN old)
        /\ (Len(new) > Len(old) => h \in writer /\ at'[h].pos = Len(new))
        /\ at'[h].pos \in 0..Len(new) /\ MovesTo(h, at'[h].pos)
        /\ Becomes(at[h].path, new)
  /\ UNCHANGED <<writer, io, cut>>

Close(h) ==
  /\ IsOpen(h)
  /\ at' = [at EXCEPT ![h] = NoPath]
  /\ writer' = writer \ {h}
  /\ UNCHANGED <<files, io, cut>>

Remove(p) ==
  /\ p \in DOMAIN files \ Open
  /\ files' = [q \in DOMAIN files \ {p} |-> files[q]]
  /\ UNCHANGED <<at, writer, io, cut>>

Rename(p, q) ==
  /\ p \in DOMAIN files \ Open /\ q \notin DOMAIN files
  /\ files' = [r \in (DOMAIN files \ {p}) \union {q} |->
                 IF r = q THEN files[p] ELSE files[r]]
  /\ UNCHANGED <<at, writer, io, cut>>

(* The power goes.  Every file is kept that is not open for writing, but   *)
(* one that is being removed or overwritten may be gone, and one that is   *)
(* being renamed is found under one of its names at least.                 *)
Kept(S) == \A r \in DOMAIN files \ (OpenForWriting \union S) :
             r \in DOMAIN files' /\ files'[r] = files[r]
PowerLoss ==
  /\ cut = "none" /\ cut' # "none"
  /\ \/ Kept({})
     \/ cut' \in {"unlink", "overwrite"} /\ \E p \in Path : Kept({p})
     \/ cut' = "rename" /\ \E p \in DOMAIN files, q \in Path \ DOMAIN files :
          Kept({p}) /\ \E r \in {p, q} \cap DOMAIN files' : files'[r] = files[p]
  /\ at' = [h \in Handle |-> NoPath]
  /\ writer' = {}
  /\ UNCHANGED io

Next ==
  \/ \E h \in Handle : OpenFile(h) \/ Read(h) \/ Write(h) \/ Seek(h) \/ Close(h)
  \/ \E p \in Path : Remove(p) \/ \E q \in Path : Rename(p, q)
  \/ PowerLoss

Spec == Init /\ [][Next]_vars
=============================================================================
