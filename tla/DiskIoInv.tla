------------------------------ MODULE DiskIoInv ------------------------------
(* Why a read and a write reach the sectors they were asked for, although  *)
(* the card may be exchanged at any moment: the invariant behind ReadRight, *)
(* WriteRight and SyncSettles, which DiskIoProofs shows to be inductive.   *)
EXTENDS DiskIo

InitLabels == {"CMD0", "CMD8", "old_CMD55", "old_CMD41", "SD2_CMD55", "SD2_CMD41",
               "SD1_CMD55", "SD1_CMD41", "CMD58", "CMD16"}
ReadLabels == {"read", "data_in", "CMD12"}
WriteLabels == {"write", "CMD23", "write_cmd", "data_out", "stop"}
Labels == {"idle", "status", "probe", "return", "sync"}
            \union InitLabels \union ReadLabels \union WriteLabels
CardState ==
  [mode : {"native", "idle", "ready"}, app : BOOLEAN,
   data : {"none", "single", "stream", "packet", "packets"}, at : Int,
   busy : BOOLEAN, wait : Int]
Content == (Cards \X Sector) \union ({"written"} \X Nat \X Nat)

TypeOK ==
  /\ slot \in Cards \union {NoCard} /\ card \in CardState
  /\ media \in [Cards -> [Sector -> Content]]
  /\ Stat \subseteq {"NODISK", "NOINIT", "PROTECT"}
  /\ CardType \subseteq {"SD1", "SD2", "MMC", "BLOCK"}
  /\ ty \subseteq {"SD1", "SD2", "MMC"} /\ tmr \in Int
  /\ left \in Nat /\ buff \in Seq(Content)
  /\ res \in {"status", "NOTRDY", "WRPRT", "PARERR", "OK", "ERROR"}
  /\ pc \in Labels
  /\ call \in [op : {"status", "init", "sync", "read", "write"}, sector : Nat, count : Nat]
  /\ calls \in Nat

(* Where each call can be, and what it has found out when it gets there.   *)
CallInv ==
  /\ pc \in InitLabels => call.op = "init"
  /\ pc \in ReadLabels => call.op = "read"
  /\ pc \in WriteLabels => call.op = "write"
  /\ pc = "sync" => call.op = "sync"
  /\ pc \in ReadLabels \union WriteLabels => call.count > 0 /\ "NOINIT" \notin Stat

(* A card with block addressing is not made ready by the loop that does    *)
(* not say HCS; and CMD0 has left no card ready that is asked for its type. *)
OldLabels == {"CMD8", "old_CMD55", "old_CMD41", "SD1_CMD55", "SD1_CMD41", "CMD16"}
OldInv == pc \in OldLabels /\ slot # NoCard /\ Kind[slot] = "SD2B" => card.mode # "ready"

(* The driver's idea of the addresses is that of the card in the socket,   *)
(* whenever that card would take a command for a sector.                   *)
KindInv ==
  /\ card.data # "none" => card.mode = "ready"
  /\ pc \notin InitLabels /\ "NOINIT" \notin Stat /\ slot # NoCard /\ card.mode = "ready"
       => ("BLOCK" \in CardType <=> Kind[slot] = "SD2B")

(* The write protection the driver has seen is that of a card that would   *)
(* take a command: one put in since then is not ready.                     *)
LockedInv == card.mode = "ready" /\ slot \in Locked =>
  /\ pc = "probe" => "PROTECT" \in Stat
  /\ pc \notin WriteLabels

(* What has been read is of one card, and of the one in the socket if that *)
(* is still sending: it then sends the sector that comes next.             *)
Done == call.count - left
ReadFrom(c) == buff = [i \in 1..Done |-> media[c][call.sector + i - 1]]
Brought == left <= call.count /\ \E c \in Cards : ReadFrom(c)
Sending == slot # NoCard /\ card.data \in {"single", "stream"}
BuffInv ==
  /\ pc \in {"data_in", "CMD12"} => Brought
  /\ pc = "data_in" => left > 0
  /\ pc = "data_in" /\ Sending => ReadFrom(slot) /\ card.at = call.sector + Done
  /\ pc = "return" /\ call.op = "read" /\ res = "OK" => left = 0 /\ Brought

(* The same of what has been written.                                      *)
WrittenTo(c) == \A i \in 0..Done - 1 : media[c][call.sector + i] = Datum(calls, i)
Stored == left <= call.count /\ \E c \in Cards : WrittenTo(c)
Storing == slot # NoCard /\ card.data \in {"packet", "packets"}
MediaInv ==
  /\ pc \in {"data_out", "stop"} => Stored
  /\ pc = "data_out" => left > 0
  /\ pc = "data_out" /\ Storing => WrittenTo(slot) /\ card.at = call.sector + Done

DInv ==
  /\ TypeOK /\ CallInv /\ OldInv /\ KindInv /\ LockedInv /\ BuffInv /\ MediaInv
  /\ SyncSettles
=============================================================================
