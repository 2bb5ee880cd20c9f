------------------------------ MODULE VgaScan ------------------------------
(* The scan-out of the picture (vga_component.vhd, vga_syncgen.vhd,         *)
(* vga_avm.vhd) under its three clocks, which are not aligned: the sync     *)
(* generator and the readout run on the video clock, the burst reader on    *)
(* the bus clock, the registers the program writes on the peripheral clock. *)
(* One line buffer is filled by the reader while the readout empties it.    *)
(* A word of the memory is its address, a pixel a word and which half.      *)
EXTENDS Integers, FiniteSets

CONSTANTS HTotal, HSync, HBackp, HActive,   \* of a line, in pixels
          VTotal, VSync, VBackp, VActive,   \* of a frame, in lines
          Offset,      \* LINEOFFSETBYTES, in words
          Pages,       \* framebuffers of the program
          BusEdges,    \* numbers of bus clock edges between two video edges
          PeriEdges    \* numbers of peripheral clock edges between two video edges

\* The horizontal sync and the porch after it are long enough for a pulse to
\* reach the reader, whose clock is no slower than the video clock.
ASSUME VgaAssumption ==
  /\ {HTotal, HSync, HBackp, HActive, VTotal, VSync, VBackp, VActive, Offset} \subseteq Nat
  /\ HTotal >= HSync + HBackp + HActive + 4 /\ HActive % 2 = 0 /\ HActive > 0
  /\ HSync >= 1 /\ HSync + HBackp >= 2 /\ BusEdges \subseteq Nat \ {0}
  /\ VTotal > VSync + VBackp + VActive /\ VSync + VBackp >= 1 /\ VActive > 0
  /\ Offset >= HActive \div 2 /\ Pages \subseteq Int
  /\ \A p, q \in Pages : p # q => p - q \notin 0..(VActive * Offset)

VARIABLES hcount, vcount, scan_in, scanena, frame, line, hblank, vblank,
          de, valid, pixeladdr, ramaddr, q, rout, pixelcount, overrun,
          fs, ls, avm, datacount, addr, topaddr, lineoffs, buffer,
          ovr, ovrerr, scan_reg, framebuff,
          pc,          \* what the program does next to the registers
          status,      \* the control register as it has read it
          edges,       \* of the other clocks since the last video edge
          was,         \* datacount before the last bus edge
          late         \* history: a word was read before it came, a line was lost

sync == <<hcount, vcount, scan_in, scanena, frame, line, hblank, vblank>>
readout == <<de, valid, pixeladdr, ramaddr, q, rout, pixelcount, overrun>>
reader == <<fs, ls, avm, datacount, addr, topaddr, lineoffs, buffer, was>>
registers == <<ovr, ovrerr, scan_reg, framebuff, pc, status>>
vars == <<sync, readout, reader, registers, edges, late>>

BURSTCYCLE == HActive \div 2
HStart == HSync + HBackp
HEnd == HStart + HActive
VStart == VSync + VBackp
Black == <<-1, 0>>
Next3(chain, in) == <<in, chain[1], chain[2]>>
Rises(chain) == chain[2] /\ ~chain[3]

Init ==
  /\ hcount = HTotal - 1 /\ vcount = VTotal - 1
  /\ scan_in = FALSE /\ scanena = FALSE /\ frame = FALSE /\ line = FALSE
  /\ hblank = TRUE /\ vblank = TRUE
  /\ de = <<FALSE, FALSE, FALSE>> /\ valid = <<FALSE, FALSE, FALSE>>
  /\ pixeladdr = 0 /\ ramaddr = 0 /\ q = Black /\ rout = Black
  /\ pixelcount = 0 /\ overrun = FALSE
  /\ fs = <<FALSE, FALSE, FALSE>> /\ ls = <<FALSE, FALSE, FALSE>>
  /\ avm = "IDLE" /\ datacount = 0 /\ addr = 0 /\ topaddr = 0 /\ lineoffs = 0
  /\ buffer = [k \in 0..BURSTCYCLE - 1 |-> -1] /\ was = 0
  /\ ovr = <<FALSE, FALSE, FALSE>> /\ ovrerr = FALSE /\ scan_reg = FALSE /\ framebuff = 0
  /\ pc = "init" /\ status = [read |-> FALSE, ovrerr |-> FALSE, scan |-> FALSE]
  /\ edges = [bus |-> 0, peri |-> 0] /\ late = "none"
-----------------------------------------------------------------------------
(* The video clock.                                                         *)

\* video_active: the sync generator asks for a pixel
Active == scanena /\ ~hblank /\ ~vblank

\* Counters and blanking.  The line counter moves on at the end of the
\* active part, before the line of pixels has ended.
Count ==
  /\ hcount' = (hcount + 1) % HTotal
  /\ vcount' = IF hcount = HEnd - 1 THEN (vcount + 1) % VTotal ELSE vcount
  /\ hblank' = CASE hcount = HStart - 1 -> FALSE [] hcount = HEnd - 1 -> TRUE [] OTHER -> hblank
  /\ vblank' = CASE hcount = HEnd - 1 /\ vcount = VStart - 1 -> FALSE
                 [] hcount = HEnd - 1 /\ vcount = VStart + VActive - 1 -> TRUE
                 [] OTHER -> vblank

\* The scan enable is taken once in a frame, after its own register.
Enable ==
  /\ scan_in' = scan_reg
  /\ scanena' = IF hcount = 0 /\ vcount = 0 THEN scan_in ELSE scanena

\* Pulses for the bus clock, as long as the horizontal sync.
Pulse ==
  IF hcount = HTotal - 1
  THEN frame' = (vcount = 0) /\ line' = (~vblank /\ scanena)
  ELSE IF hcount = HSync - 1 THEN frame' = FALSE /\ line' = FALSE
  ELSE UNCHANGED <<frame, line>>

\* What the video clock may make of a count that changes as it samples it:
\* every bit is the old or the new one.
Sampled(old, new) ==
  {n \in 0..2 * BURSTCYCLE : \A i \in 0..8 :
     (n \div 2^i) % 2 \in {(old \div 2^i) % 2, (new \div 2^i) % 2}}

\* The readout: RAM with registered address and output, then the pixel.
Pixel ==
  /\ valid' = Next3(valid, Active) /\ de' = Next3(de, ~hblank /\ ~vblank)
  /\ pixeladdr' = IF Active THEN pixeladdr + 1 ELSE 0
  /\ ramaddr' = pixeladdr
  /\ q' = IF ramaddr < HActive THEN <<buffer[ramaddr \div 2], ramaddr % 2>> ELSE Black
  /\ rout' = IF valid[2] THEN q ELSE Black

Overrun == Active /\ (overrun \/ pixelcount < pixeladdr \div 2)

VideoEdge ==
  /\ edges.bus \in BusEdges /\ edges.peri \in PeriEdges
  /\ Count /\ Enable /\ Pulse /\ Pixel
  /\ pixelcount' \in Sampled(was, datacount)
  /\ overrun' = Overrun
  /\ late' = CASE late = "none" /\ Active /\ datacount <= pixeladdr \div 2 -> "word"
               [] late = "word" /\ hcount = HTotal - 1 -> "none"
               [] OTHER -> late
  /\ edges' = [bus |-> 0, peri |-> 0]
  /\ UNCHANGED <<reader, registers>>
-----------------------------------------------------------------------------
(* The bus clock.                                                           *)

Linestart == Rises(ls)
Framestart == Rises(fs)

\* The reader takes a line that starts only when it has done with the last.
StartLine ==
  /\ avm = "IDLE" /\ Linestart
  /\ avm' = "READ_ISSUE" /\ addr' = topaddr + lineoffs /\ datacount' = 0
  /\ UNCHANGED buffer

\* The bridge to the memory takes the burst, at some edge.
Issue == avm = "READ_ISSUE" /\ avm' = "DATA_READ" /\ UNCHANGED <<addr, datacount, buffer>>

\* A word of the burst comes.
Receive ==
  /\ avm = "DATA_READ"
  /\ buffer' = [buffer EXCEPT ![datacount] = addr + datacount]
  /\ datacount' = datacount + 1
  /\ avm' = IF datacount = BURSTCYCLE - 1 THEN "IDLE" ELSE avm
  /\ UNCHANGED addr

\* Nothing starts, or waitrequest or the want of readdatavalid holds it up.
Idle == ~(avm = "IDLE" /\ Linestart) /\ UNCHANGED <<avm, addr, datacount, buffer>>

LineOffset_kept ==
  IF avm = "IDLE" /\ Linestart THEN lineoffs + Offset ELSE lineoffs
LineOffset ==
  IF Framestart THEN 0 ELSE IF avm = "IDLE" /\ Linestart THEN lineoffs + Offset ELSE lineoffs

\* Bus and peripheral clock are told apart no finer than by the video edges:
\* all that passes between them is the framebuffer's address, which the
\* program sets at any time.
BusEdge ==
  /\ edges.peri = 0 /\ \E n \in BusEdges : edges.bus < n
  /\ fs' = Next3(fs, frame) /\ ls' = Next3(ls, line)
  /\ StartLine \/ Issue \/ Receive \/ Idle
  /\ topaddr' = framebuff /\ lineoffs' = LineOffset /\ was' = datacount
  /\ late' = CASE Framestart -> "none" [] Linestart /\ avm # "IDLE" -> "line" [] OTHER -> late
  /\ edges' = [edges EXCEPT !.bus = @ + 1]
  /\ UNCHANGED <<sync, readout, registers>>
-----------------------------------------------------------------------------
(* The peripheral clock, and the program's accesses to the registers.       *)

\* The program: nd_GsVgaInit reads, clears a bit and writes back twice, then
\* the buffer is set and the scan turned on, and in the end off.
After == [init |-> "off", off |-> "buffer", buffer |-> "on", on |-> "end", end |-> "done"]
Written(p) == [init |-> status.scan, off |-> FALSE, on |-> TRUE, end |-> FALSE][p]

None == UNCHANGED <<scan_reg, framebuff, pc, status>>

SetBuffer == /\ pc = "buffer"
             /\ framebuff' \in Pages /\ pc' = After[pc]
             /\ UNCHANGED <<scan_reg, status>>

\* IORD of the control register: the write back comes at a later edge.
ReadControl == /\ pc \notin {"buffer", "done"} /\ ~status.read
               /\ status' = [read |-> TRUE, ovrerr |-> ovrerr, scan |-> scan_reg]
               /\ UNCHANGED <<scan_reg, framebuff, pc>>

WriteControl == /\ status.read
                /\ scan_reg' = Written(pc) /\ pc' = After[pc]
                /\ status' = [read |-> FALSE, ovrerr |-> FALSE, scan |-> FALSE]
                /\ UNCHANGED framebuff

\* The overrun is latched at its rising edge; a write of its bit as read,
\* if it was read clear, clears it.
OvrErr_cleared(clear) == ~clear /\ (Rises(ovr) \/ ovrerr)
OvrErr(clear) == Rises(ovr) \/ (~clear /\ ovrerr)

PeriEdge ==
  /\ edges.bus \in BusEdges /\ \E n \in PeriEdges : edges.peri < n
  /\ ovr' = Next3(ovr, overrun)
  /\ \/ (None \/ SetBuffer \/ ReadControl) /\ ovrerr' = OvrErr(FALSE)
     \/ WriteControl /\ ovrerr' = OvrErr(~status.ovrerr)
  /\ edges' = [edges EXCEPT !.peri = @ + 1]
  /\ UNCHANGED <<sync, readout, reader, late>>
-----------------------------------------------------------------------------
Next == VideoEdge \/ BusEdge \/ PeriEdge

\* The clocks run; nothing is said of how fast the memory answers.
Spec == Init /\ [][Next]_vars /\ WF_vars(VideoEdge) /\ WF_vars(BusEdge) /\ WF_vars(PeriEdge)

\* Whatever lateness came before, a row whose words came in time, in a frame
\* that lost none of its lines, is shown as it is in one framebuffer: pixel
\* x of row y at its place, all of the row from the same page, and nothing
\* but black in a frame that is not scanned (vga_component.vhd:291-301, the
\* sync signals delayed by as much as the pixels are).
PictureRight ==
  de[3] /\ late = "none" =>
    LET x == hcount - HStart - 3
        y == IF hcount >= HEnd THEN vcount - 1 - VStart ELSE vcount - VStart
    IN IF scanena
       THEN \E p \in Pages \union {0} :
              addr = p + y * Offset /\ rout = <<addr + x \div 2, x % 2>>
       ELSE rout = Black

\* The readout has gone a whole word past what the reader has stored, and
\* the sample it compares with, taken across the clocks, is not more.
Behind == Active /\ datacount < pixeladdr \div 2 /\ pixelcount <= datacount

\* A readout that falls behind is told to the program by the overrun flag,
\* once: the flag rises before the line is over or soon after, even against
\* the write of a control register that was read before
\* (vga_component.vhd:256-267).  It need not stay: such a write takes it back
\* in the middle of the line, and as overrun itself stays up till the end of
\* the active part, what is read too early after that raises nothing more.
FallsBehind == Behind /\ ~overrun
LateReported == FallsBehind ~> ovrerr
=============================================================================
