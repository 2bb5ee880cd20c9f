------------------------------- MODULE MmcDma -------------------------------
(***************************************************************************)
(* The SD card controller: the byte engine of ip/mmcdma/avalonif_mmc.vhd   *)
(* and the block DMA of avalonif_mmcdma.vhd around it, one step for each   *)
(* edge of the bus clock.  Clock(o) is the edge at which the processor's   *)
(* side of the bus presents the operation o, or nothing.                   *)
(*                                                                         *)
(* The registers are the signals of the same name, with these left out:    *)
(* exit_reg is busy = 0, mmcifwr_reg is DmaWrites, dmarefcount_reg is      *)
(* always Block - 1; the shift of the eight bits is a count of cycles.     *)
(* The card is what it has to say yet: nothing, which is FF without end,   *)
(* a refusal, or a block behind its token and before its CRC; and wait is  *)
(* the number of FF it says first.                                         *)
(***************************************************************************)
EXTENDS Integers, Sequences

CONSTANTS
  Words,       \* words of a block                            (128)
  WordBytes,   \* bytes of a word of the bus                    (4)
  ByteCycles,  \* cycles the exchange of a byte takes
  MaxTimer     \* the largest value written to frc_reg

ASSUME DmaAssumption ==
  /\ Words \in Nat \ {0}
  /\ WordBytes \in Nat \ {0}
  /\ ByteCycles \in Nat \ {0}
  /\ MaxTimer \in Nat \ {0}

(* The bytes of a block.                                                   *)
Block == Words * WordBytes

VARIABLES
  busy,      \* cycles left of the exchange, 0 when the engine is IDLE
  rxddata,   \* the byte received last
  ncs_reg,   \* the card's select line, FALSE when the card is selected
  frc,       \* frc_reg: the timer
  frczero,   \* frczero_reg
  state,     \* MMCDMA_STATE
  dmastart, dmadone, dmadataerr, dmatimout,
  dmaread_count,
  buf,       \* the read buffer
  memaddr,   \* the address the buffer's memory has registered
  readdata,  \* the data the bus is given
  card       \* what the card will say

engineVars == <<busy, rxddata, ncs_reg, card>>
timerVars  == <<frc, frczero>>
dmaVars    == <<state, dmastart, dmadone, dmadataerr, dmatimout,
                dmaread_count, buf>>
busVars    == <<memaddr, readdata>>
hwVars     == <<engineVars, timerVars, dmaVars, busVars>>

(* A byte on the wire.  Block bytes carry the number of their block        *)
(* (modulo 2) and their place in it.                                       *)
FF  == <<"ff", 0, 0>>
FE  == <<"fe", 0, 0>>
CRC == <<"crc", 0, 0>>
DataError == <<"error", 0, 0>>
Data(t, k) == <<"data", t, k>>
Byte ==
  {FF, FE, CRC, DataError} \union ({"data"} \X (0..1) \X (0..Block - 1))

(* What a card has to say, from its next-th byte on: the token, the block  *)
(* and its CRC are the bytes 0, 1 to Block, Block + 1 and Block + 2.       *)
Speech(w, s, t, k) == [wait |-> w, say |-> s, block |-> t, next |-> k]
Silent == Speech(0, "nothing", 0, 0)
Card ==
  [wait : Nat, say : {"nothing", "error", "block"}, block : 0..1,
   next : 0..Block + 2]

(* What the processor may present in a cycle.  go is bit 9 of a write to   *)
(* the status register inverted, ncs is bit 8, time is a timer value.      *)
Op(kind, reg, go, ncs, time, addr) ==
  [kind |-> kind, reg |-> reg, go |-> go, ncs |-> ncs, time |-> time,
   addr |-> addr]
Nothing == Op("none", "none", FALSE, FALSE, 0, 0)
Read(reg) == Op("read", reg, FALSE, FALSE, 0, 0)
ReadBuffer(a) == Op("read", "buffer", FALSE, FALSE, 0, a)
WriteStatus(go, ncs) == Op("write", "status", go, ncs, 0, 0)
WriteTimer(t) == Op("write", "timer", FALSE, FALSE, t, 0)
StartDma == Op("write", "dma", FALSE, FALSE, 0, 0)

DmaStates == {"IDLE", "RESSET", "RESWAIT", "READSET", "READWAIT"}
ReadData == [flag : BOOLEAN, error : BOOLEAN, bytes : Seq(Byte)]

HwTypeOK ==
  /\ busy \in 0..ByteCycles
  /\ rxddata \in Byte
  /\ ncs_reg \in BOOLEAN
  /\ frc \in 0..MaxTimer
  /\ frczero \in BOOLEAN
  /\ state \in DmaStates
  /\ dmastart \in BOOLEAN
  /\ dmadone \in BOOLEAN
  /\ dmadataerr \in BOOLEAN
  /\ dmatimout \in BOOLEAN
  /\ dmaread_count \in 0..Block - 1
  /\ buf \in [0..Block - 1 -> Byte]
  /\ memaddr \in 0..Words - 1
  /\ readdata \in ReadData
  /\ card \in Card

Lines(flag, error, bytes) == [flag |-> flag, error |-> error, bytes |-> bytes]
NoData == Lines(FALSE, FALSE, <<>>)

HwInit ==
  /\ busy = 0
  /\ rxddata = FF
  /\ ncs_reg = TRUE
  /\ frc = 0
  /\ frczero = TRUE
  /\ state = "IDLE"
  /\ dmastart = FALSE
  /\ dmadone = TRUE
  /\ dmadataerr = FALSE
  /\ dmatimout = FALSE
  /\ dmaread_count = 0
  /\ buf = [k \in 0..Block - 1 |-> FF]
  /\ memaddr = 0
  /\ readdata = NoData
  /\ card = Silent

-----------------------------------------------------------------------------
(* avalonif_mmc, which the DMA takes from the bus while it is not done.    *)

(* Mutant of Exit: the flag comes back before the last bit is in.          *)
Exit_early == busy <= 1

Exit == busy = 0

DmaWrites == state \in {"RESSET", "READSET"}

ToEngine(o) ==
  IF dmadone THEN o
             ELSE IF DmaWrites THEN WriteStatus(TRUE, FALSE) ELSE Nothing

Writes(o, reg) == o.kind = "write" /\ o.reg = reg

(* The byte the card puts on the line in an exchange, and what it has left *)
(* to say: nothing when it is not selected.                                *)
Spoken ==
  CASE card.next = 0 -> FE
    [] card.next \in 1..Block -> Data(card.block, card.next - 1)
    [] OTHER -> CRC

Answer ==
  CASE ncs_reg \/ card.wait > 0 \/ card.say = "nothing" -> FF
    [] ~ncs_reg /\ card.wait = 0 /\ card.say = "error" -> DataError
    [] OTHER -> Spoken

Unsaid ==
  CASE ~ncs_reg /\ card.wait > 0 -> [card EXCEPT !.wait = @ - 1]
    [] ~ncs_reg /\ card.wait = 0 /\ card.say = "block"
                /\ card.next < Block + 2 -> [card EXCEPT !.next = @ + 1]
    [] OTHER -> Silent

(* A write is taken only by an engine that is IDLE; any other is lost.     *)
Engine(o) ==
  \/ /\ busy = 0
     /\ LET w == Writes(o, "status")
        IN  /\ busy' = IF w /\ o.go THEN ByteCycles ELSE 0
            /\ ncs_reg' = IF w THEN o.ncs ELSE ncs_reg
     /\ UNCHANGED <<rxddata, card>>
  \/ /\ busy > 1
     /\ busy' = busy - 1
     /\ UNCHANGED <<rxddata, ncs_reg, card>>
  \/ /\ busy = 1
     /\ busy' = 0
     /\ rxddata' = Answer
     /\ card' = Unsaid
     /\ UNCHANGED ncs_reg

(* The timer counts down; frczero_reg follows it one cycle later.          *)
Timer(o) ==
  /\ frc' = IF Writes(o, "timer") THEN o.time
            ELSE IF frc > 0 THEN frc - 1 ELSE 0
  /\ frczero' = (frc = 0)

-----------------------------------------------------------------------------
(* avalonif_mmcdma.                                                        *)

(* Mutant of Start: nothing takes the request back.                        *)
Start_kept(o) == dmastart' = (dmastart \/ Writes(o, "dma"))

(* The start bit is taken back once the state machine has seen it.         *)
Start(o) ==
  dmastart' = IF ~dmastart THEN Writes(o, "dma") ELSE dmadone

(* Mutant of Verdict: nobody looks at the timer.                           *)
Verdict_untimed ==
  CASE rxddata = FE -> "READSET"
    [] rxddata = FF -> "RESSET"
    [] OTHER -> "error"

(* What becomes of the byte received in RESWAIT.                           *)
Verdict ==
  CASE frczero -> "timeout"
    [] ~frczero /\ rxddata = FE -> "READSET"
    [] ~frczero /\ rxddata = FF -> "RESSET"
    [] OTHER -> "error"

Idle ==
  /\ state = "IDLE"
  /\ dmaread_count' = 0
  /\ IF dmastart
       THEN /\ state' = "RESSET"
            /\ dmadone' = FALSE
            /\ dmadataerr' = FALSE
            /\ dmatimout' = FALSE
       ELSE UNCHANGED <<state, dmadone, dmadataerr, dmatimout>>
  /\ UNCHANGED buf

Set ==
  /\ DmaWrites
  /\ state' = IF state = "RESSET" THEN "RESWAIT" ELSE "READWAIT"
  /\ UNCHANGED <<dmadone, dmadataerr, dmatimout, dmaread_count, buf>>

Wait ==
  /\ state \in {"RESWAIT", "READWAIT"}
  /\ ~Exit
  /\ UNCHANGED <<state, dmadone, dmadataerr, dmatimout, dmaread_count, buf>>

Response ==
  /\ state = "RESWAIT"
  /\ Exit
  /\ IF Verdict \in DmaStates
       THEN /\ state' = Verdict
            /\ UNCHANGED <<dmadone, dmadataerr, dmatimout>>
       ELSE /\ state' = "IDLE"
            /\ dmadone' = TRUE
            /\ dmadataerr' = (Verdict = "error")
            /\ dmatimout' = (Verdict = "timeout")
  /\ UNCHANGED <<dmaread_count, buf>>

(* Mutant of Stored: the count is ahead of the write.                      *)
Stored_ahead == [buf EXCEPT ![(dmaread_count + 1) % Block] = rxddata]

Stored == [buf EXCEPT ![dmaread_count] = rxddata]

LastByte == dmaread_count = Block - 1

BlockByte ==
  /\ state = "READWAIT"
  /\ Exit
  /\ buf' = Stored
  /\ IF LastByte
       THEN /\ state' = "IDLE"
            /\ dmadone' = TRUE
            /\ UNCHANGED dmaread_count
       ELSE /\ state' = "READSET"
            /\ dmaread_count' = dmaread_count + 1
            /\ UNCHANGED dmadone
  /\ UNCHANGED <<dmadataerr, dmatimout>>

Dma == Idle \/ Set \/ Wait \/ Response \/ BlockByte

(* What a read of the register finds, one cycle later: a word of the       *)
(* buffer is found at the address registered the cycle before.             *)
Word(a) == [k \in 1..WordBytes |-> buf[a * WordBytes + k - 1]]

Found(o) ==
  CASE o.reg = "status" -> Lines(Exit, FALSE, <<rxddata>>)
    [] o.reg = "timer"  -> Lines(frc # 0, FALSE, <<>>)
    [] o.reg = "dma"    -> Lines(dmadone, dmadataerr \/ dmatimout, <<>>)
    [] o.reg = "buffer" -> Lines(FALSE, FALSE, Word(memaddr))
    [] OTHER -> NoData

Bus(o) ==
  /\ memaddr' = o.addr
  /\ readdata' = Found(o)

Clock(o) ==
  /\ Engine(ToEngine(o))
  /\ Timer(ToEngine(o))
  /\ Start(o)
  /\ Dma
  /\ Bus(o)
=============================================================================
