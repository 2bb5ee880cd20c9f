----------------------------- MODULE MmcSpiInv -----------------------------
(***************************************************************************)
(* The inductive invariant of MmcSpi.  It follows one block read: how the  *)
(* start request is handed over and the done flag handed back, what the    *)
(* bus has latched when the driver looks, where in its speech the card is. *)
(***************************************************************************)
EXTENDS MmcSpi

(* The phases of a transfer: asked for, taken up, going on, over.          *)
Pending == state = "IDLE" /\ dmastart /\ dmadone
Seen    == state = "RESSET" /\ dmastart /\ ~dmadone
Running == state # "IDLE" /\ ~dmastart /\ ~dmadone
Rest    == state = "IDLE" /\ ~dmastart /\ dmadone

(* Only a read lasts.                                                      *)
ReadInv ==
  cyc > 0 =>
    pc \in {"send", "recv", "recv_wait", "timer_wait", "dma", "dma_wait",
            "dma_check", "copy"}

(* The done flag is a cycle behind the request, and what the bus has       *)
(* latched is a cycle behind the flag: a read has to last three cycles.    *)
HandshakeInv ==
  /\ pc # "dma_wait" => Rest
  /\ pc = "dma_wait" =>
       \/ (Pending /\ cyc = 0)
       \/ (Seen /\ cyc <= 1)
       \/ Running
       \/ Rest
  /\ pc = "dma_wait" /\ cyc >= 2 /\ readdata.flag => Rest

(* Who has put the engine to work, and what Recvbyte can rely on.          *)
EngineInv ==
  /\ DmaWrites => busy = 0
  /\ pc \in {"send_write", "recv_write"} \union (DmaAt \ {"dma_wait"})
       => busy = 0
  /\ pc = "dma_wait" /\ (Pending \/ Rest) => busy = 0
  /\ pc \in {"send", "recv", "recv_wait"} /\ cyc >= 1 /\ readdata.flag
       => busy = 0
  /\ pc = "recv_wait" /\ cyc >= 1 /\ readdata.flag
       => readdata.bytes = <<rxddata>>
  /\ pc = "recv_wait" => ncs_reg = cs
  /\ state \in {"RESWAIT", "READSET", "READWAIT"} => ~ncs_reg
  /\ pc \in {"idle"} \union TimerAt /\ res # None => busy = 0 /\ res = rxddata

(* The timer counts from the write of this DmaRecv, and the flag the state *)
(* machine looks at is not that of an earlier wait.                        *)
TimerInv ==
  /\ pc \in {"dma_start", "dma_wait"} => frc = Timeout - waited
  /\ pc = "dma_wait" =>
       /\ waited >= 1
       /\ frczero => waited = Timeout

BlockFrom(k) == card = Speech(0, "block", block, k)
Coming == card = Silent \/ (card.block = block /\ card.next = 0)
StoredTo(k) == \A j \in 0..k - 1 : buf[j] = Data(block, j)
Failed == dmadataerr \/ dmatimout

(* Before the block: the card has not come to its token.                   *)
BeforeBlock ==
  /\ pc \in {"dma", "dma_timer", "dma_start"} => Coming
  /\ pc = "dma_wait" /\ (Pending \/ state = "RESSET") => Coming
  /\ state = "RESWAIT" =>
       IF busy > 0
         THEN Coming
         ELSE \/ (rxddata = FF /\ Coming)
              \/ (rxddata = FE /\ BlockFrom(1))
              \/ rxddata = DataError

(* In the block: as many bytes are stored as have been said.               *)
InBlock ==
  /\ state \in {"RESSET", "RESWAIT"} => dmaread_count = 0
  /\ state = "READSET" => BlockFrom(dmaread_count + 1)
  /\ state = "READWAIT" =>
       IF busy > 0
         THEN BlockFrom(dmaread_count + 1)
         ELSE /\ BlockFrom(dmaread_count + 2)
              /\ rxddata = Data(block, dmaread_count)
  /\ state \in {"READSET", "READWAIT"} => StoredTo(dmaread_count)

(* Behind it: the verdict stands, and the buffer is what was asked for.    *)
AfterBlock ==
  /\ Seen \/ Running => ~Failed
  /\ pc = "dma_check" \/ (pc = "dma_wait" /\ Rest) =>
       IF Failed
         THEN /\ dmatimout => waited = Timeout
              /\ dmadataerr => rxddata = DataError
              /\ rxddata \in {FF, FE, DataError}
         ELSE BlockFrom(Block + 1) /\ StoredTo(Block)
  /\ pc = "dma_check" /\ cyc >= 1 => (readdata.error <=> Failed)

CopyInv ==
  /\ pc = "copy" => BlockFrom(Block + 1) /\ StoredTo(Block) /\ Len(dst) < Words
  /\ pc = "copy" \/ (pc = "idle" /\ crc = 2) =>
       \A a \in 1..Len(dst) : dst[a] = BlockWord(block, a - 1)
  /\ pc \in {"dma", "dma_timer", "dma_start", "dma_wait", "dma_check"}
       => dst = <<>>
  /\ pc = "copy" /\ cyc >= 1 => memaddr = Len(dst)
  /\ pc = "copy" /\ cyc >= 2 => readdata.bytes = BlockWord(block, Len(dst))

(* The bytes behind the block, and the card outside a read.                *)
CrcInv ==
  /\ pc \in DmaAt \/ crc > 0 => ~cs
  /\ pc \in DmaAt => res = None
  /\ crc > 0 => pc \in RecvAt \union {"idle"}
  /\ crc = 2 => pc = "idle" /\ Len(dst) = Words
  /\ crc = 2 => BlockFrom(Block + 1) /\ busy = 0
  /\ crc = 1 =>
       /\ BlockFrom(IF pc = "idle" \/ (pc = "recv_wait" /\ busy = 0)
                      THEN Block + 2 ELSE Block + 1)
       /\ pc # "recv_wait" => busy = 0

SilentInv ==
  /\ pc \in {"recv", "recv_write"} /\ crc = 0 =>
       card = Silent \/ cs \/ (BlockFrom(Block + 2) /\ busy = 0)
  /\ pc = "recv_wait" /\ crc = 0 =>
       card = Silent \/ (busy > 0 /\ (cs \/ BlockFrom(Block + 2)))
  /\ pc \in {"idle", "select", "ncs"} \union SendAt \union TimerAt /\ crc = 0
       => card = Silent

IInv ==
  /\ TypeOK
  /\ ReadInv
  /\ HandshakeInv
  /\ EngineInv
  /\ TimerInv
  /\ BeforeBlock
  /\ InBlock
  /\ AfterBlock
  /\ CopyInv
  /\ CrcInv
  /\ SilentInv
=============================================================================
