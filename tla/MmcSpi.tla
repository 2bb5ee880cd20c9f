------------------------------- MODULE MmcSpi -------------------------------
(***************************************************************************)
(* The SD driver of software/cineraria_wavplay/mmcfs/mmc_spi.c on top of   *)
(* the controller, and of fatfs/mmcbb.c as much as decides the order in    *)
(* which its functions are called: rcvr_datablock with the two bytes of    *)
(* CRC behind it, select, deselect, and any other mixture of bytes sent    *)
(* and received, select changes and waits.                                 *)
(*                                                                         *)
(* A step of the driver is a cycle of the bus.  Writes take one, reads     *)
(* ReadWait + 1, and any number of cycles may pass in between: the bridge, *)
(* the interconnect and the processor take their time.                     *)
(***************************************************************************)
EXTENDS MmcDma

CONSTANTS
  ReadWait,   \* wait states of a read                            (2)
  Timeout,    \* mmc_spi_SetTimer(100)
  Moment,     \* mmc_spi_SetTimer(1), mmc_spi_Wait100us
  Latency     \* most FF bytes a card says before its answer

ASSUME SpiAssumption ==
  /\ ReadWait \in Nat /\ ReadWait >= 2
  /\ Timeout \in 1..MaxTimer
  /\ Moment \in 1..MaxTimer
  /\ Latency \in Nat

VARIABLES
  pc,      \* where the driver is
  cyc,     \* cycles the read in progress has lasted
  cs,      \* mmc_spi_ncs, FALSE when the card is to be selected
  res,     \* the byte mmc_spi_Recvbyte has returned, None after other calls
  dst,     \* the words mmc_spi_DmaRecv has copied to its buff
  waited,  \* cycles since mmc_spi_DmaRecv has set the timer (history)
  crc,     \* bytes rcvr_datablock has still to receive behind the block
  block    \* number of the block asked for last, modulo 2

drvVars == <<pc, cyc, cs, res, dst, crc, block>>
vars    == <<hwVars, drvVars, waited>>

None == <<"none", 0, 0>>

(* Labels: between calls, and inside mmc_spi_Sendbyte, mmc_spi_Recvbyte,   *)
(* SetCardSelect and SetCardDeselect, the two timer waits, mmc_spi_DmaRecv.*)
SendAt == {"send", "send_write"}
RecvAt == {"recv", "recv_write", "recv_wait"}
SelectAt == {"select", "deselect", "ncs"}
TimerAt == {"timer", "timer_wait"}
DmaAt == {"dma", "dma_timer", "dma_start", "dma_wait", "dma_check", "copy"}

TypeOK ==
  /\ HwTypeOK
  /\ pc \in {"idle"} \union SendAt \union RecvAt \union SelectAt
              \union TimerAt \union DmaAt
  /\ cyc \in 0..ReadWait
  /\ cs \in BOOLEAN
  /\ res \in Byte \union {None}
  /\ dst \in Seq([1..WordBytes -> Byte])
  /\ Len(dst) <= Words
  /\ waited \in 0..Timeout
  /\ crc \in 0..2
  /\ block \in 0..1

Init ==
  /\ HwInit
  /\ pc = "idle"
  /\ cyc = 0
  /\ cs = TRUE
  /\ res = None
  /\ dst = <<>>
  /\ waited = 0
  /\ crc = 0
  /\ block = 0

-----------------------------------------------------------------------------
(* IORD and IOWR.                                                          *)

Cycle(o) ==
  /\ Clock(o)
  /\ waited' = CASE pc \in {"dma_start", "dma_wait"} ->
                      IF waited < Timeout THEN waited + 1 ELSE Timeout
                 [] pc = "dma_check" -> waited
                 [] OTHER -> 0

(* Mutant of LastCycle: the read takes what the bus has one cycle early.   *)
LastCycle_early == cyc >= ReadWait - 1

LastCycle == cyc = ReadWait

(* One more cycle of a read at label l.                                    *)
Reading(l, o) ==
  /\ pc = l
  /\ ~LastCycle
  /\ Cycle(o)
  /\ cyc' = cyc + 1
  /\ UNCHANGED <<pc, cs, res, dst, crc, block>>

(* Its last cycle: readdata is taken.                                      *)
ReadEnds(l, o) ==
  /\ pc = l
  /\ LastCycle
  /\ Cycle(o)
  /\ cyc' = 0

IoWr(l, o, to) ==
  /\ pc = l
  /\ Cycle(o)
  /\ pc' = to
  /\ UNCHANGED cyc

(* Mutant of Poll: an if in the place of the while.                        *)
Poll_once(l, reg, to) ==
  \/ Reading(l, Read(reg))
  \/ /\ ReadEnds(l, Read(reg))
     /\ pc' = to
     /\ UNCHANGED <<cs, res, dst, crc, block>>

(* while (!(IORD(...) & bit)) {}                                           *)
Poll(l, reg, to) ==
  \/ Reading(l, Read(reg))
  \/ /\ ReadEnds(l, Read(reg))
     /\ pc' = IF readdata.flag THEN to ELSE l
     /\ UNCHANGED <<cs, res, dst, crc, block>>

-----------------------------------------------------------------------------

(* mmc_spi_Sendbyte; it does not wait for the byte to be out.              *)
SendPoll == Poll("send", "status", "send_write")

SendWrite ==
  /\ IoWr("send_write", WriteStatus(TRUE, cs), "idle")
  /\ res' = None
  /\ UNCHANGED <<cs, dst, crc, block>>

Sendbyte == SendPoll \/ SendWrite

(* mmc_spi_Recvbyte.                                                       *)
RecvPoll == Poll("recv", "status", "recv_write")

(* Mutant of RecvWrite: the byte is sent without mmc_spi_ncs.              *)
RecvWrite_selects ==
  /\ IoWr("recv_write", WriteStatus(TRUE, FALSE), "recv_wait")
  /\ UNCHANGED <<cs, res, dst, crc, block>>

RecvWrite ==
  /\ IoWr("recv_write", WriteStatus(TRUE, cs), "recv_wait")
  /\ UNCHANGED <<cs, res, dst, crc, block>>

RecvWait ==
  \/ Reading("recv_wait", Read("status"))
  \/ /\ ReadEnds("recv_wait", Read("status"))
     /\ \/ /\ readdata.flag
           /\ pc' = "idle"
           /\ res' = readdata.bytes[1]
        \/ /\ ~readdata.flag
           /\ UNCHANGED <<pc, res>>
     /\ UNCHANGED <<cs, dst, crc, block>>

Recvbyte == RecvPoll \/ RecvWrite \/ RecvWait

(* Mutant of Select: no byte behind the change.                            *)
Select_bare ==
  /\ \/ /\ IoWr("select", WriteStatus(FALSE, FALSE), "idle")
        /\ cs' = FALSE
     \/ /\ (IoWr("deselect", WriteStatus(FALSE, TRUE), "idle")
             \/ IoWr("ncs", WriteStatus(FALSE, TRUE), "idle"))
        /\ cs' = TRUE
  /\ res' = None
  /\ UNCHANGED <<dst, crc, block>>

(* select and deselect: SetCardSelect or SetCardDeselect, and a byte; ncs  *)
(* is the CS_H of disk_status and disk_initialize, without one.  The write *)
(* does not wait for the engine.                                           *)
Select ==
  /\ \/ /\ IoWr("select", WriteStatus(FALSE, FALSE), "recv")
        /\ cs' = FALSE
     \/ /\ IoWr("deselect", WriteStatus(FALSE, TRUE), "recv")
        /\ cs' = TRUE
     \/ /\ IoWr("ncs", WriteStatus(FALSE, TRUE), "idle")
        /\ cs' = TRUE
  /\ res' = None
  /\ UNCHANGED <<dst, crc, block>>

(* mmc_spi_Wait100us; mmc_spi_SetTimer and mmc_spi_CheckTimer in a loop.   *)
TimerWait ==
  \/ /\ IoWr("timer", WriteTimer(Moment), "timer_wait")
     /\ UNCHANGED <<cs, res, dst, crc, block>>
  \/ Reading("timer_wait", Read("timer"))
  \/ /\ ReadEnds("timer_wait", Read("timer"))
     /\ pc' = IF readdata.flag THEN "timer_wait" ELSE "idle"
     /\ UNCHANGED <<cs, res, dst, crc, block>>

(* mmc_spi_DmaRecv.                                                        *)
DmaPoll == Poll("dma", "status", "dma_timer")

(* Mutant of DmaTimer: the timer is left as the last wait has left it.     *)
DmaTimer_unset ==
  /\ IoWr("dma_timer", Nothing, "dma_start")
  /\ UNCHANGED <<cs, res, dst, crc, block>>

DmaTimer ==
  /\ IoWr("dma_timer", WriteTimer(Timeout), "dma_start")
  /\ UNCHANGED <<cs, res, dst, crc, block>>

DmaStart ==
  /\ IoWr("dma_start", StartDma, "dma_wait")
  /\ UNCHANGED <<cs, res, dst, crc, block>>

DmaWait == Poll("dma_wait", "dma", "dma_check")

(* The verdict; after a failure rcvr_datablock returns 0, and its callers  *)
(* deselect the card.                                                      *)
DmaCheck ==
  \/ Reading("dma_check", Read("dma"))
  \/ /\ ReadEnds("dma_check", Read("dma"))
     /\ pc' = IF readdata.error THEN "deselect" ELSE "copy"
     /\ UNCHANGED <<cs, res, dst, crc, block>>

(* One word of the copy.  The two loops of the code do the same for a      *)
(* block of whole words.                                                   *)
DmaCopy ==
  LET o == ReadBuffer(Len(dst))
  IN  \/ Reading("copy", o)
      \/ /\ ReadEnds("copy", o)
         /\ dst' = Append(dst, readdata.bytes)
         /\ \/ /\ Len(dst) + 1 = Words
               /\ pc' = "idle"
               /\ crc' = 2
            \/ /\ Len(dst) + 1 # Words
               /\ UNCHANGED <<pc, crc>>
         /\ UNCHANGED <<cs, res, block>>

DmaRecv ==
  DmaPoll \/ DmaTimer \/ DmaStart \/ DmaWait \/ DmaCheck \/ DmaCopy

-----------------------------------------------------------------------------
(* The callers.  A call costs no cycle.                                    *)

Enter(l) ==
  /\ pc = "idle"
  /\ pc' = l
  /\ UNCHANGED <<hwVars, waited, cyc, cs>>

Call ==
  /\ crc = 0
  /\ \E l \in {"send", "recv", "select", "deselect", "ncs", "timer"} : Enter(l)
  /\ UNCHANGED <<res, dst, crc, block>>

(* rcvr_mmc(d, 2) behind a block.                                          *)
DiscardCrc ==
  /\ crc > 0
  /\ Enter("recv")
  /\ crc' = crc - 1
  /\ UNCHANGED <<res, dst, block>>

(* What a card may say when it has been asked for block t.                 *)
Replies(t) ==
  {Speech(w, s, t, 0) : w \in 0..Latency, s \in {"nothing", "error", "block"}}

(* The card is selected and has acknowledged a command to read a block, or *)
(* has sent the block before, and rcvr_datablock is called.                *)
AskBlock ==
  /\ pc = "idle"
  /\ crc = 0
  /\ ~cs
  /\ res # None
  /\ pc' = "dma"
  /\ block' = 1 - block
  /\ card' \in Replies(block')
  /\ dst' = <<>>
  /\ res' = None
  /\ UNCHANGED <<busy, rxddata, ncs_reg, timerVars, dmaVars, busVars,
                 waited, cyc, cs, crc>>

Driver ==
  Sendbyte \/ Recvbyte \/ Select \/ TimerWait \/ DmaRecv

(* A cycle in which nothing reaches the controller.                        *)
Gap ==
  /\ cyc = 0
  /\ Cycle(Nothing)
  /\ UNCHANGED drvVars

Next == Driver \/ Gap \/ Call \/ DiscardCrc \/ AskBlock

Spec == Init /\ [][Next]_vars

(* The processor goes on: a call that has begun does its next access.      *)
FairSpec == Spec /\ WF_vars(Driver)

-----------------------------------------------------------------------------
(***************************************************************************)
(* Properties.                                                             *)
(***************************************************************************)

(* The done flag the driver waits for is that of the transfer it has       *)
(* started: as soon as it is believed, the state machine is at rest, no    *)
(* start request is pending, and the engine is the processor's again.      *)
DoneIsOurs ==
  pc # "dma_wait" => state = "IDLE" /\ ~dmastart /\ dmadone

(* No byte is written to an engine that is not listening: neither a byte   *)
(* of the driver nor one of the DMA.                                       *)
NoByteIgnored ==
  /\ pc \in {"send_write", "recv_write"} => busy = 0 /\ dmadone
  /\ DmaWrites => busy = 0

(* The word of block t at the place a.                                     *)
BlockWord(t, a) == [k \in 1..WordBytes |-> Data(t, a * WordBytes + k - 1)]

(* When mmc_spi_DmaRecv returns 0, buff holds the block that was asked for *)
(* and no other, and the next byte of the card is the first of its CRC.    *)
BlockIntact ==
  pc = "idle" /\ crc = 2 =>
    /\ dst = [a \in 1..Words |-> BlockWord(block, a - 1)]
    /\ card = Speech(0, "block", block, Block + 1)

(* A verdict of failure is true: the time set for this transfer is over,   *)
(* or the card has refused; and no byte of a block has been swallowed.     *)
FailsForAReason ==
  pc = "dma_check" /\ (dmadataerr \/ dmatimout) =>
    /\ dmatimout => waited = Timeout
    /\ dmadataerr => rxddata = DataError
    /\ \A k \in 0..Block - 1 : rxddata # Data(block, k)

(* A byte that mmc_spi_Recvbyte returns is the one its own exchange has    *)
(* brought, and the exchange is over.                                      *)
ReceivedByteIsFresh == pc = "idle" /\ res # None => busy = 0 /\ res = rxddata

(* A block that came too late is not taken for the next one: nothing of it *)
(* is left when the next command can be sent.                              *)
LateBlockGone ==
  pc = "idle" /\ crc = 0 /\ res # None => card = Silent

(* A byte is exchanged with the card selected as the driver wants it, even *)
(* when the write that was to change the select was lost in a busy engine. *)
SelectedAsAsked ==
  [][busy = 0 /\ busy' # 0 => ncs_reg' = cs]_vars

(* mmc_spi_DmaRecv returns: with the block, or to deselect the card.       *)
DmaRecvReturns == pc = "dma" ~> pc \in {"idle", "deselect"}
=============================================================================
