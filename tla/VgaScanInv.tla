----------------------------- MODULE VgaScanInv -----------------------------
(* Why the readout and the reader, on two clocks and told of a line by one *)
(* pulse, show the same row: the invariant behind PictureRight, which      *)
(* VgaScanProofs shows to be inductive.                                    *)
EXTENDS VgaScan

Visible == vcount \in VStart..VStart + VActive - 1
Row == IF hcount >= HEnd THEN vcount - 1 - VStart ELSE vcount - VStart
Shown == Row \in 0..VActive - 1         \* there is a row of pixels in this line

Chain == BOOLEAN \X BOOLEAN \X BOOLEAN
TypeOK ==
  /\ hcount \in 0..HTotal - 1 /\ vcount \in 0..VTotal - 1
  /\ {scan_in, scanena, frame, line, hblank, vblank, overrun, ovrerr, scan_reg} \subseteq BOOLEAN
  /\ de \in Chain /\ valid \in Chain /\ fs \in Chain /\ ls \in Chain /\ ovr \in Chain
  /\ pixeladdr \in Nat /\ ramaddr \in Nat /\ pixelcount \in Nat
  /\ q \in Int \X Int /\ rout \in Int \X Int
  /\ avm \in {"IDLE", "READ_ISSUE", "DATA_READ"} /\ datacount \in 0..BURSTCYCLE /\ was \in Nat
  /\ addr \in Int /\ lineoffs \in Int /\ buffer \in [0..BURSTCYCLE - 1 -> Int]
  /\ framebuff \in Pages \union {0} /\ topaddr \in Pages \union {0}
  /\ pc \in {"init", "off", "buffer", "on", "end", "done"}
  /\ status \in [read : BOOLEAN, ovrerr : BOOLEAN, scan : BOOLEAN]
  /\ edges \in [bus : Nat, peri : Nat] /\ late \in {"none", "word", "line"}

(* Blanking and pulses follow from the counters.                           *)
SyncInv ==
  /\ hblank <=> hcount \notin HStart..HEnd - 1
  /\ vblank <=> ~Visible
  /\ line <=> hcount < HSync /\ scanena /\ Visible
  /\ frame <=> hcount < HSync /\ vcount = 0

(* A pulse that starts with the line is on its way through the registers   *)
(* of the bus clock, which has had so many edges at least, or has been     *)
(* seen; well before the next one the registers are empty again.           *)
EdgesHad == hcount + edges.bus
Coming(pulse, c) ==
  \/ pulse /\ ~c[1] /\ ~c[2] /\ ~c[3] /\ EdgesHad = 0
  \/ c[1] /\ ~c[2] /\ ~c[3] /\ EdgesHad <= 1
  \/ (pulse => c[1]) /\ c[2] /\ ~c[3] /\ EdgesHad <= 2
Seen(pulse, c) == (pulse => c[1]) /\ (c[1] => c[2]) /\ (c[2] => c[3])
Drains(c) ==
  hcount >= HSync => \A i \in 1..3 : EdgesHad >= HSync + i => ~c[i]
ChainInv ==
  /\ Seen(frame, fs) \/ (Coming(frame, fs) /\ vcount = 0)
  /\ Seen(line, ls) \/ (Coming(line, ls) /\ scanena /\ Visible)
  /\ Drains(fs) /\ Drains(ls)

(* The reader's place in the picture, unless it has lost a line.           *)
Begun == hcount < HEnd /\ Seen(line, ls)
RowsBegun == vcount - VStart + IF Begun THEN 1 ELSE 0
OffsetInv ==
  /\ vcount \in 1..VStart - 1 => lineoffs = 0
  /\ vcount = 0 /\ hcount < HEnd /\ Seen(frame, fs) => lineoffs = 0
  /\ scanena /\ late # "line" /\ Visible => lineoffs = RowsBegun * Offset
RowInv ==
  scanena /\ late # "line" /\ Shown /\ (hcount >= HEnd \/ Seen(line, ls)) =>
    \E p \in Pages \union {0} : addr = p + Row * Offset

(* The words of the line buffer that have come.                            *)
FillInv ==
  /\ avm = "READ_ISSUE" => datacount = 0
  /\ avm = "DATA_READ" => datacount < BURSTCYCLE
  /\ \A k \in 0..datacount - 1 : buffer[k] = addr + k

(* What is in the readout's registers: a pixel further behind in each.     *)
PixelOf(i) == hcount - i - HStart
PipeInv ==
  /\ \A i \in 1..3 : /\ de[i] <=> hcount - i \in HStart..HEnd - 1 /\ Shown
                     /\ valid[i] <=> de[i] /\ scanena
  /\ pixeladdr = (IF valid[1] THEN PixelOf(0) ELSE 0)
  /\ valid[1] => ramaddr = PixelOf(1)
  /\ late = "none" /\ valid[1] => datacount > PixelOf(1) \div 2
  /\ late = "none" /\ valid[2] => q = <<addr + PixelOf(2) \div 2, PixelOf(2) % 2>>
  /\ late = "none" /\ valid[3] => rout = <<addr + PixelOf(3) \div 2, PixelOf(3) % 2>>
  /\ ~valid[3] => rout = Black

(* The program has read the control register only where it will write it.  *)
ProgramInv == status.read => pc \notin {"buffer", "done"}

VInv ==
  /\ TypeOK /\ SyncInv /\ ChainInv /\ OffsetInv /\ RowInv /\ FillInv /\ PipeInv
  /\ ProgramInv
=============================================================================
