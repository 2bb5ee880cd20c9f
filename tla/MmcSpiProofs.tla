---------------------------- MODULE MmcSpiProofs ----------------------------
(***************************************************************************)
(* Proofs about MmcSpi, for every block and word size, every length of an  *)
(* exchange, every timer value and every read of three cycles or more.     *)
(***************************************************************************)
EXTENDS MmcSpiInv, TLAPS

-----------------------------------------------------------------------------
(* Bytes, words and the card.                                              *)

(* The size of a block is at least a byte.                                 *)
LEMMA BlockSize == Block \in Nat \ {0}
<1>1. \A m, n \in Nat \ {0} : m * n \in Nat \ {0}
  OBVIOUS
<1> QED
  BY <1>1, DmaAssumption DEF Block

(* The bytes of word a lie in the block.                                   *)
LEMMA WordPlace ==
  ASSUME NEW a \in 0..Words - 1, NEW k \in 1..WordBytes
  PROVE  a * WordBytes + k - 1 \in 0..Block - 1
<1>1. a * WordBytes \in Nat
  BY DmaAssumption
<1>2. (Words - 1 - a) * WordBytes >= 0
  BY DmaAssumption
<1>3. (Words - 1 - a) * WordBytes = Words * WordBytes - WordBytes - a * WordBytes
  BY DmaAssumption
<1>4. Words * WordBytes \in Nat
  BY DmaAssumption
<1> QED
  BY <1>1, <1>2, <1>3, <1>4, DmaAssumption DEF Block

(* The bytes that are not of a block, and that they differ.                *)
LEMMA Bytes ==
  /\ FF \in Byte /\ FE \in Byte /\ CRC \in Byte /\ DataError \in Byte
  /\ FF # FE /\ FF # DataError /\ FE # DataError
  /\ \A t \in 0..1, k \in 0..Block - 1 :
       /\ Data(t, k) \in Byte
       /\ Data(t, k) # FF /\ Data(t, k) # FE /\ Data(t, k) # DataError
<1>1. FF \in Byte /\ FE \in Byte /\ CRC \in Byte /\ DataError \in Byte
  BY DEF Byte
<1>2. FF # FE /\ FF # DataError /\ FE # DataError
  BY DEF FF, FE, DataError
<1>3. ASSUME NEW t \in 0..1, NEW k \in 0..Block - 1
      PROVE  /\ Data(t, k) \in Byte
             /\ Data(t, k) # FF /\ Data(t, k) # FE /\ Data(t, k) # DataError
  BY BlockSize DEF Data, Byte, FF, FE, DataError
<1> QED
  BY <1>1, <1>2, <1>3

(* A returned byte is never None.                                          *)
LEMMA NoneNotByte == None \notin Byte
  BY DEF None, Byte, FF, FE, CRC, DataError

(* What a card says: nothing, or the next byte of a block.                 *)

(* What a card that is selected says: the rest of its speech, byte after   *)
(* byte, and FF when it is silent or not selected.                         *)
LEMMA Listening ==
  ASSUME card \in Card, block \in 0..1, ncs_reg \in BOOLEAN
  PROVE  /\ Answer \in Byte /\ Unsaid \in Card
         /\ ncs_reg => Unsaid = Silent
         /\ card = Silent => Unsaid = Silent
         /\ BlockFrom(Block + 1) /\ ~ncs_reg =>
              Unsaid = Speech(0, "block", block, Block + 2)
         /\ BlockFrom(Block + 2) => Unsaid = Silent
<1>1. Silent \in Card
  BY BlockSize DEF Silent, Speech, Card
<1>2. Answer \in Byte
  <2>1. Spoken \in Byte
    BY Bytes, BlockSize DEF Spoken, Card
  <2> QED
    BY <2>1, Bytes DEF Answer
<1>3. Unsaid \in Card
  BY <1>1, BlockSize DEF Unsaid, Card
<1>4. ncs_reg => Unsaid = Silent
  BY DEF Unsaid
<1>5. card = Silent => Unsaid = Silent
  BY DEF Unsaid, Silent, Speech
<1>6. BlockFrom(Block + 1) /\ ~ncs_reg =>
        Unsaid = Speech(0, "block", block, Block + 2)
  BY BlockSize DEF Unsaid, BlockFrom, Speech
<1>7. BlockFrom(Block + 2) => Unsaid = Silent
  BY BlockSize DEF Unsaid, BlockFrom, Speech
<1> QED
  BY <1>2, <1>3, <1>4, <1>5, <1>6, <1>7

(* Before the block, an exchange brings FF and the card is still before    *)
(* its block, or the token, or a refusal.                                  *)
LEMMA ListeningBefore ==
  ASSUME card \in Card, block \in 0..1, ncs_reg = FALSE, Coming
  PROVE  \/ /\ Answer = FF
            /\ Unsaid = Silent \/ (Unsaid.block = block /\ Unsaid.next = 0)
         \/ /\ Answer = FE
            /\ Unsaid = Speech(0, "block", block, 1)
         \/ Answer = DataError
<1>1. CASE card = Silent
  BY <1>1, Listening DEF Answer, Silent, Speech
<1>2. CASE card.block = block /\ card.next = 0
  <2>1. CASE card.wait > 0
    BY <1>2, <2>1 DEF Answer, Unsaid, Card
  <2>2. CASE card.wait = 0 /\ card.say = "nothing"
    BY <1>2, <2>2 DEF Answer, Unsaid, Card
  <2>3. CASE card.wait = 0 /\ card.say = "error"
    BY <1>2, <2>3 DEF Answer, Unsaid, Card
  <2>4. CASE card.wait = 0 /\ card.say = "block"
    <3>1. Answer = FE
      BY <1>2, <2>4 DEF Answer, Spoken
    <3>2. Unsaid = [card EXCEPT !.next = @ + 1]
      BY <1>2, <2>4, BlockSize DEF Unsaid
    <3>3. Unsaid = Speech(0, "block", block, 1)
      BY <1>2, <2>4, <3>2 DEF Card, Speech
    <3> QED
      BY <3>1, <3>3
  <2> QED
    BY <2>1, <2>2, <2>3, <2>4 DEF Card
<1> QED
  BY <1>1, <1>2 DEF Coming

(* In the block, an exchange brings its next byte.                         *)
LEMMA ListeningIn ==
  ASSUME block \in 0..1, ncs_reg = FALSE, NEW k \in 1..Block, BlockFrom(k)
  PROVE  /\ Answer = Data(block, k - 1)
         /\ Unsaid = Speech(0, "block", block, k + 1)
<1>1. /\ card.wait = 0 /\ card.say = "block" /\ card.block = block
      /\ card.next = k
  BY DEF BlockFrom, Speech
<1>2. Answer = Data(block, k - 1)
  BY <1>1, BlockSize DEF Answer, Spoken
<1>3. Unsaid = [card EXCEPT !.next = @ + 1]
  BY <1>1, BlockSize DEF Unsaid
<1>4. Unsaid = Speech(0, "block", block, k + 1)
  BY <1>3, BlockSize DEF BlockFrom, Speech
<1> QED
  BY <1>2, <1>4

-----------------------------------------------------------------------------
(* A cycle of the controller.                                              *)

(* What the processor presents.                                            *)
BusOp ==
  [kind : {"none", "read", "write"},
   reg : {"none", "status", "timer", "dma", "buffer"},
   go : BOOLEAN, ncs : BOOLEAN, time : 0..MaxTimer, addr : 0..Words - 1]

(* The operations of the driver, and their fields.                         *)
LEMMA Operations ==
  /\ Nothing \in BusOp /\ Nothing.kind = "none"
  /\ \A r \in {"status", "timer", "dma"} :
       Read(r) \in BusOp /\ Read(r).kind = "read" /\ Read(r).reg = r
  /\ \A a \in 0..Words - 1 :
       /\ ReadBuffer(a) \in BusOp /\ ReadBuffer(a).kind = "read"
       /\ ReadBuffer(a).reg = "buffer" /\ ReadBuffer(a).addr = a
  /\ \A g, n \in BOOLEAN :
       /\ WriteStatus(g, n) \in BusOp /\ WriteStatus(g, n).kind = "write"
       /\ WriteStatus(g, n).reg = "status"
       /\ WriteStatus(g, n).go = g /\ WriteStatus(g, n).ncs = n
  /\ \A t \in 0..MaxTimer :
       /\ WriteTimer(t) \in BusOp /\ WriteTimer(t).kind = "write"
       /\ WriteTimer(t).reg = "timer" /\ WriteTimer(t).time = t
  /\ StartDma \in BusOp /\ StartDma.kind = "write" /\ StartDma.reg = "dma"
<1>1. Nothing \in BusOp /\ Nothing.kind = "none"
  BY DmaAssumption DEF BusOp, Nothing, Op
<1>2. \A r \in {"status", "timer", "dma"} :
        Read(r) \in BusOp /\ Read(r).kind = "read" /\ Read(r).reg = r
  BY DmaAssumption DEF BusOp, Read, Op
<1>3. \A a \in 0..Words - 1 :
        /\ ReadBuffer(a) \in BusOp /\ ReadBuffer(a).kind = "read"
        /\ ReadBuffer(a).reg = "buffer" /\ ReadBuffer(a).addr = a
  BY DmaAssumption DEF BusOp, ReadBuffer, Op
<1>4. \A g, n \in BOOLEAN :
        /\ WriteStatus(g, n) \in BusOp /\ WriteStatus(g, n).kind = "write"
        /\ WriteStatus(g, n).reg = "status"
        /\ WriteStatus(g, n).go = g /\ WriteStatus(g, n).ncs = n
  BY DmaAssumption DEF BusOp, WriteStatus, Op
<1>5. \A t \in 0..MaxTimer :
        /\ WriteTimer(t) \in BusOp /\ WriteTimer(t).kind = "write"
        /\ WriteTimer(t).reg = "timer" /\ WriteTimer(t).time = t
  BY DmaAssumption DEF BusOp, WriteTimer, Op
<1>6. StartDma \in BusOp /\ StartDma.kind = "write" /\ StartDma.reg = "dma"
  BY DmaAssumption DEF BusOp, StartDma, Op
<1> QED
  BY <1>1, <1>2, <1>3, <1>4, <1>5, <1>6

(* The engine takes a write when it is idle and nothing else.              *)
LEMMA EngineStep ==
  ASSUME HwTypeOK, block \in 0..1, NEW o \in BusOp, Engine(o)
  PROVE  /\ busy' \in 0..ByteCycles /\ rxddata' \in Byte
         /\ ncs_reg' \in BOOLEAN /\ card' \in Card
         /\ busy = 0 => rxddata' = rxddata /\ card' = card
         /\ busy = 0 /\ ~Writes(o, "status") =>
              busy' = 0 /\ ncs_reg' = ncs_reg
         /\ busy = 0 /\ Writes(o, "status") =>
              busy' = (IF o.go THEN ByteCycles ELSE 0) /\ ncs_reg' = o.ncs
         /\ busy > 0 => busy' = busy - 1 /\ ncs_reg' = ncs_reg
         /\ busy > 1 => rxddata' = rxddata /\ card' = card
         /\ busy = 1 => rxddata' = Answer /\ card' = Unsaid
<1>1. Answer \in Byte /\ Unsaid \in Card
  BY Listening DEF HwTypeOK
<1>2. o.ncs \in BOOLEAN
  BY DEF BusOp
<1> QED
  BY <1>1, <1>2, DmaAssumption DEF Engine, HwTypeOK

(* Every cycle keeps the types of the registers.                           *)
LEMMA TypeStep ==
  ASSUME HwTypeOK, block \in 0..1, NEW o \in BusOp, Clock(o)
  PROVE  HwTypeOK'
<1>1. ToEngine(o) \in BusOp
  BY Operations DEF ToEngine
<1>2. /\ busy' \in 0..ByteCycles /\ rxddata' \in Byte
      /\ ncs_reg' \in BOOLEAN /\ card' \in Card
  BY <1>1, EngineStep DEF Clock
<1>3. frc' \in 0..MaxTimer /\ frczero' \in BOOLEAN
  BY <1>1, DmaAssumption DEF Clock, Timer, BusOp, HwTypeOK
<1>4. dmastart' \in BOOLEAN
  BY DEF Clock, Start, Writes, HwTypeOK
<1>5. /\ state' \in DmaStates /\ dmadone' \in BOOLEAN
      /\ dmadataerr' \in BOOLEAN /\ dmatimout' \in BOOLEAN
  BY DEF Clock, Dma, Idle, Set, Wait, Response, BlockByte, DmaStates, HwTypeOK
<1>6. dmaread_count' \in 0..Block - 1
  BY BlockSize DEF Clock, Dma, Idle, Set, Wait, Response, BlockByte, LastByte,
       HwTypeOK
<1>7. buf' \in [0..Block - 1 -> Byte]
  BY DEF Clock, Dma, Idle, Set, Wait, Response, BlockByte, Stored, HwTypeOK
<1>8. memaddr' \in 0..Words - 1
  BY DEF Clock, Bus, BusOp
<1>9. readdata' \in ReadData
  <2>1. Found(o) \in ReadData
    <3>1. NoData \in ReadData
      BY DEF NoData, Lines, ReadData
    <3>2. Word(memaddr) \in Seq(Byte)
      <4>1. \A k \in 1..WordBytes : buf[memaddr * WordBytes + k - 1] \in Byte
        BY WordPlace DEF HwTypeOK
      <4>2. Word(memaddr) \in [1..WordBytes -> Byte]
        BY <4>1 DEF Word
      <4> QED
        BY <4>2, DmaAssumption
    <3>3. <<rxddata>> \in Seq(Byte)
      BY DEF HwTypeOK
    <3>4. Exit \in BOOLEAN /\ (frc # 0) \in BOOLEAN
      BY DEF Exit
    <3>5. dmadone \in BOOLEAN /\ (dmadataerr \/ dmatimout) \in BOOLEAN
      BY DEF HwTypeOK
    <3>6. CASE o.reg = "status"
      BY <3>1, <3>3, <3>4, <3>6 DEF Found, Lines, ReadData
    <3>7. CASE o.reg = "timer"
      BY <3>1, <3>4, <3>7 DEF Found, Lines, ReadData
    <3>8. CASE o.reg = "dma"
      BY <3>1, <3>5, <3>8 DEF Found, Lines, ReadData
    <3>9. CASE o.reg = "buffer"
      BY <3>1, <3>2, <3>9 DEF Found, Lines, ReadData
    <3>10. CASE o.reg = "none"
      BY <3>1, <3>10 DEF Found
    <3> QED
      BY <3>6, <3>7, <3>8, <3>9, <3>10 DEF BusOp
  <2> QED
    BY <2>1 DEF Clock, Bus
<1> QED
  BY <1>2, <1>3, <1>4, <1>5, <1>6, <1>7, <1>8, <1>9 DEF HwTypeOK

(* What a read finds.                                                      *)
LEMMA Findings ==
  ASSUME HwTypeOK
  PROVE  /\ Found(Read("status")).flag <=> busy = 0
         /\ Found(Read("status")).bytes = <<rxddata>>
         /\ Found(Read("timer")).flag <=> frc # 0
         /\ Found(Read("dma")).flag <=> dmadone
         /\ Found(Read("dma")).error <=> Failed
         /\ \A a \in 0..Words - 1 : Found(ReadBuffer(a)).bytes = Word(memaddr)
<1>1. /\ Read("status").reg = "status" /\ Read("timer").reg = "timer"
      /\ Read("dma").reg = "dma"
      /\ \A a \in 0..Words - 1 : ReadBuffer(a).reg = "buffer"
  BY Operations
<1>2. /\ Found(Read("status")).flag <=> busy = 0
      /\ Found(Read("status")).bytes = <<rxddata>>
  <2>1. CASE busy = 0
    <3>1. Found(Read("status")) = Lines(TRUE, FALSE, <<rxddata>>)
      BY <1>1, <2>1 DEF Found, Exit
    <3> QED
      BY <2>1, <3>1 DEF Lines
  <2>2. CASE busy # 0
    <3>1. Found(Read("status")) = Lines(FALSE, FALSE, <<rxddata>>)
      BY <1>1, <2>2 DEF Found, Exit
    <3> QED
      BY <2>2, <3>1 DEF Lines
  <2> QED
    BY <2>1, <2>2
<1>3. Found(Read("timer")).flag <=> frc # 0
  <2>1. CASE frc = 0
    <3>1. Found(Read("timer")) = Lines(FALSE, FALSE, <<>>)
      BY <1>1, <2>1 DEF Found
    <3> QED
      BY <2>1, <3>1 DEF Lines
  <2>2. CASE frc # 0
    <3>1. Found(Read("timer")) = Lines(TRUE, FALSE, <<>>)
      BY <1>1, <2>2 DEF Found
    <3> QED
      BY <2>2, <3>1 DEF Lines
  <2> QED
    BY <2>1, <2>2
<1>4. (Found(Read("dma")).flag <=> dmadone) /\ (Found(Read("dma")).error <=> Failed)
  <2>1. Found(Read("dma")) = Lines(dmadone, dmadataerr \/ dmatimout, <<>>)
    BY <1>1 DEF Found
  <2> QED
    BY <2>1 DEF Lines, Failed, HwTypeOK
<1>5. ASSUME NEW a \in 0..Words - 1
      PROVE  Found(ReadBuffer(a)).bytes = Word(memaddr)
  BY <1>1 DEF Found, Lines
<1> QED
  BY <1>2, <1>3, <1>4, <1>5

(* A cycle outside a transfer, with anything but a start request on the    *)
(* bus: the DMA rests, and the engine and the timer are the processor's.   *)
LEMMA RestStep ==
  ASSUME HwTypeOK, block \in 0..1, Rest,
         NEW o \in BusOp, ~Writes(o, "dma"), Clock(o)
  PROVE  /\ HwTypeOK'
         /\ Rest'
         /\ UNCHANGED <<dmadataerr, dmatimout, buf>>
         /\ Engine(o) /\ Timer(o)
         /\ memaddr' = o.addr /\ readdata' = Found(o)
<1>1. HwTypeOK'
  BY TypeStep
<1>2. Rest' /\ UNCHANGED <<dmadataerr, dmatimout, buf>>
  BY DEF Rest, Clock, Start, Dma, Idle, Set, Wait, Response, BlockByte, DmaWrites
<1>3. ToEngine(o) = o
  BY DEF ToEngine, Rest
<1>4. /\ Engine(o) /\ Timer(o)
      /\ memaddr' = o.addr /\ readdata' = Found(o)
  BY <1>3 DEF Clock, Bus
<1> QED
  BY <1>1, <1>2, <1>4

(* The same with a read or nothing on the bus.                             *)
LEMMA QuietStep ==
  ASSUME HwTypeOK, block \in 0..1, Rest,
         NEW o \in BusOp, o.kind # "write", Clock(o)
  PROVE  /\ HwTypeOK'
         /\ Rest'
         /\ UNCHANGED <<dmadataerr, dmatimout, buf, ncs_reg>>
         /\ busy = 0 => busy' = 0 /\ rxddata' = rxddata /\ card' = card
         /\ busy > 0 => busy' = busy - 1
         /\ busy > 1 => rxddata' = rxddata /\ card' = card
         /\ busy = 1 => rxddata' = Answer /\ card' = Unsaid
         /\ frc' = (IF frc > 0 THEN frc - 1 ELSE 0) /\ (frczero' <=> frc = 0)
         /\ memaddr' = o.addr /\ readdata' = Found(o)
<1>1. ~Writes(o, "dma") /\ ~Writes(o, "status") /\ ~Writes(o, "timer")
  BY DEF Writes
<1>2. /\ HwTypeOK' /\ Rest'
      /\ UNCHANGED <<dmadataerr, dmatimout, buf>>
      /\ Engine(o) /\ Timer(o)
      /\ memaddr' = o.addr /\ readdata' = Found(o)
  BY <1>1, RestStep
<1>3. busy \in Nat
  BY DmaAssumption DEF HwTypeOK
<1>4. /\ frc' = (IF frc > 0 THEN frc - 1 ELSE 0)
      /\ frczero' <=> frc = 0
  BY <1>1, <1>2 DEF Timer, HwTypeOK
<1> QED
  BY <1>1, <1>2, <1>3, <1>4, EngineStep

-----------------------------------------------------------------------------
(* Steps outside of a block read.                                          *)

Outside == {"idle"} \union SendAt \union RecvAt \union SelectAt \union TimerAt

(* What the invariant says of the DMA is plain there.                      *)
LEMMA OutsideKept ==
  ASSUME Rest', pc' \in Outside
  PROVE  HandshakeInv' /\ TimerInv' /\ BeforeBlock' /\ InBlock' /\ AfterBlock'
<1>1. pc' \notin DmaAt /\ state' = "IDLE"
  BY DEF Outside, DmaAt, SendAt, RecvAt, SelectAt, TimerAt, Rest
<1> USE DEF DmaAt
<1>2. HandshakeInv'
  BY <1>1 DEF HandshakeInv
<1>3. TimerInv'
  BY <1>1 DEF TimerInv
<1>4. BeforeBlock'
  BY <1>1 DEF BeforeBlock
<1>5. InBlock'
  BY <1>1 DEF InBlock
<1>6. AfterBlock'
  BY <1>1 DEF AfterBlock, Seen, Running
<1> QED
  BY <1>2, <1>3, <1>4, <1>5, <1>6

(* The history variable.                                                   *)
LEMMA WaitedStep ==
  ASSUME TypeOK, NEW o, Cycle(o)
  PROVE  /\ waited' \in 0..Timeout
         /\ pc \in {"dma_start", "dma_wait"} =>
              waited' = IF waited < Timeout THEN waited + 1 ELSE Timeout
         /\ pc = "dma_check" => waited' = waited
         /\ pc \notin {"dma_start", "dma_wait", "dma_check"} => waited' = 0
  BY SpiAssumption DEF Cycle, TypeOK

(* The types, when a step of the driver keeps those of its own variables.  *)
LEMMA TypeKept ==
  ASSUME TypeOK, NEW o \in BusOp, Cycle(o),
         pc' \in Outside \union DmaAt, cyc' \in 0..ReadWait, cs' \in BOOLEAN,
         res' \in Byte \union {None}, dst' = dst,
         crc' \in 0..2, block' \in 0..1
  PROVE  TypeOK'
<1>1. HwTypeOK'
  BY TypeStep DEF TypeOK, Cycle
<1>2. waited' \in 0..Timeout
  BY WaitedStep
<1> QED
  BY <1>1, <1>2 DEF TypeOK, Outside

(* A cycle of a read, or one in which nothing happens, outside of a block  *)
(* read: only an exchange that is going on can change anything.            *)
LEMMA QuietOutside ==
  ASSUME IInv, pc \in Outside, NEW o \in BusOp, o.kind # "write", Cycle(o),
         UNCHANGED <<pc, cs, res, dst, crc, block>>,
         \/ cyc' = 0
         \/ /\ cyc' = cyc + 1 /\ cyc < ReadWait
            /\ pc \in {"send", "recv", "recv_wait", "timer_wait"}
            /\ pc # "timer_wait" => o = Read("status")
  PROVE  IInv'
<1>1. TypeOK /\ HwTypeOK /\ block \in 0..1
  BY DEF IInv, TypeOK
<1>2. Rest
  BY DEF IInv, HandshakeInv, Outside, SendAt, RecvAt, SelectAt, TimerAt
<1>3. Clock(o)
  BY DEF Cycle
<1>4. /\ HwTypeOK'
      /\ Rest'
      /\ UNCHANGED <<dmadataerr, dmatimout, buf, ncs_reg>>
      /\ busy = 0 => busy' = 0 /\ rxddata' = rxddata /\ card' = card
      /\ busy > 0 => busy' = busy - 1
      /\ busy > 1 => rxddata' = rxddata /\ card' = card
      /\ busy = 1 => rxddata' = Answer /\ card' = Unsaid
      /\ readdata' = Found(o)
  BY <1>1, <1>2, <1>3, QuietStep
<1>5. busy \in Nat /\ ncs_reg \in BOOLEAN /\ cs \in BOOLEAN /\ card \in Card
      /\ cyc \in 0..ReadWait
  BY <1>1, DmaAssumption DEF HwTypeOK, TypeOK
<1>6. TypeOK'
  <2>1. cyc' \in 0..ReadWait
    BY <1>5, SpiAssumption
  <2> QED
    BY <1>1, <2>1, TypeKept DEF TypeOK
<1>7. HandshakeInv' /\ TimerInv' /\ BeforeBlock' /\ InBlock' /\ AfterBlock'
  BY <1>4, OutsideKept
<1>8. EngineInv'
  <2>1. state' = "IDLE"
    BY <1>4 DEF Rest
  <2>2. EngineInv
    BY DEF IInv
  <2>3. pc \notin DmaAt
    BY DEF Outside, DmaAt, SendAt, RecvAt, SelectAt, TimerAt
  <2>4. cyc' >= 1 /\ pc \in {"send", "recv", "recv_wait"} /\ readdata'.flag
          => busy = 0
    BY <1>1, <1>4, Findings
  <2>5. cyc' >= 1 /\ pc \in {"send", "recv", "recv_wait"}
          => readdata'.bytes = <<rxddata>>
    BY <1>1, <1>4, Findings
  <2>6. pc' = pc /\ res' = res /\ cs' = cs
    OBVIOUS
  <2> QED
    BY <1>4, <2>1, <2>2, <2>3, <2>4, <2>5, <2>6
    DEF EngineInv, DmaWrites, DmaAt, TimerAt
<1>9. CopyInv'
  <2>1. CopyInv /\ CrcInv
    BY DEF IInv
  <2> QED
    BY <2>1 DEF CopyInv, Outside, SendAt, RecvAt, SelectAt, TimerAt
<1>10. CrcInv /\ SilentInv /\ EngineInv
  BY DEF IInv
<1>11. /\ busy = 1 /\ ncs_reg => Unsaid = Silent
       /\ card = Silent => Unsaid = Silent
       /\ BlockFrom(Block + 1) /\ ~ncs_reg =>
              Unsaid = Speech(0, "block", block, Block + 2)
       /\ BlockFrom(Block + 2) => Unsaid = Silent
  BY <1>1, <1>5, Listening
<1>12. CrcInv'
  BY <1>4, <1>5, <1>10, <1>11
  DEF CrcInv, BlockFrom, RecvAt, EngineInv
<1>13. SilentInv'
  BY <1>4, <1>5, <1>10, <1>11
  DEF SilentInv, BlockFrom, EngineInv
<1>14. ReadInv'
  BY <1>5 DEF ReadInv
<1> QED
  BY <1>6, <1>7, <1>8, <1>9, <1>12, <1>13, <1>14 DEF IInv

(* A poll of mmc_spi_Sendbyte or mmc_spi_Recvbyte has found the engine     *)
(* idle.                                                                   *)
LEMMA PollDone ==
  ASSUME IInv, pc \in {"send", "recv"}, LastCycle, readdata.flag,
         Cycle(Read("status")), cyc' = 0,
         pc' = (IF pc = "send" THEN "send_write" ELSE "recv_write"),
         UNCHANGED <<cs, res, dst, crc, block>>
  PROVE  IInv'
<1>1. TypeOK /\ HwTypeOK /\ block \in 0..1 /\ ReadWait \in Nat /\ ReadWait >= 2
  BY SpiAssumption DEF IInv, TypeOK
<1>2. Rest
  BY DEF IInv, HandshakeInv
<1>3. /\ Read("status") \in BusOp /\ Read("status").kind # "write"
      /\ Clock(Read("status"))
  BY Operations DEF Cycle
<1>4. busy = 0
  BY <1>1 DEF IInv, EngineInv, LastCycle
<1>5. Rest' /\ busy' = 0 /\ rxddata' = rxddata /\ card' = card
  BY <1>1, <1>2, <1>3, <1>4, QuietStep
<1>6. TypeOK'
  BY <1>1, <1>3, TypeKept DEF TypeOK, Outside, SendAt, RecvAt
<1>7. HandshakeInv' /\ TimerInv' /\ BeforeBlock' /\ InBlock' /\ AfterBlock'
  BY <1>5, OutsideKept DEF Outside, SendAt, RecvAt
<1>8. EngineInv'
  BY <1>5 DEF EngineInv, DmaWrites, Rest, DmaAt, TimerAt
<1>9. CopyInv' /\ ReadInv'
  BY DEF CopyInv, ReadInv
<1>10. CrcInv /\ SilentInv
  BY DEF IInv
<1>11. CrcInv'
  BY <1>4, <1>5, <1>10 DEF CrcInv, BlockFrom, RecvAt, DmaAt
<1>12. SilentInv'
  BY <1>4, <1>5, <1>10 DEF SilentInv, CrcInv, BlockFrom, SendAt, RecvAt, TimerAt
<1> QED
  BY <1>6, <1>7, <1>8, <1>9, <1>11, <1>12 DEF IInv

(* mmc_spi_Recvbyte returns.                                               *)
LEMMA RecvDone ==
  ASSUME IInv, pc = "recv_wait", LastCycle, readdata.flag,
         Cycle(Read("status")), cyc' = 0, pc' = "idle",
         res' = readdata.bytes[1], UNCHANGED <<cs, dst, crc, block>>
  PROVE  IInv'
<1>1. TypeOK /\ HwTypeOK /\ block \in 0..1 /\ ReadWait \in Nat /\ ReadWait >= 2
  BY SpiAssumption DEF IInv, TypeOK
<1>2. Rest
  BY DEF IInv, HandshakeInv
<1>3. /\ Read("status") \in BusOp /\ Read("status").kind # "write"
      /\ Clock(Read("status"))
  BY Operations DEF Cycle
<1>4. busy = 0 /\ readdata.bytes = <<rxddata>>
  BY <1>1 DEF IInv, EngineInv, LastCycle
<1>5. Rest' /\ busy' = 0 /\ rxddata' = rxddata /\ card' = card
  BY <1>1, <1>2, <1>3, <1>4, QuietStep
<1>6. res' = rxddata
  BY <1>4
<1>7. TypeOK'
  BY <1>1, <1>3, <1>6, TypeKept DEF TypeOK, Outside, HwTypeOK
<1>8. HandshakeInv' /\ TimerInv' /\ BeforeBlock' /\ InBlock' /\ AfterBlock'
  BY <1>5, OutsideKept DEF Outside
<1>9. EngineInv'
  BY <1>5, <1>6 DEF EngineInv, DmaWrites, Rest, DmaAt, TimerAt
<1>10. CrcInv /\ SilentInv
  BY DEF IInv
<1>11. CopyInv' /\ ReadInv'
  BY <1>10 DEF CopyInv, ReadInv, CrcInv
<1>12. CrcInv'
  BY <1>4, <1>5, <1>10 DEF CrcInv, BlockFrom, RecvAt, DmaAt
<1>13. SilentInv'
  BY <1>4, <1>5, <1>10 DEF SilentInv, CrcInv, BlockFrom, SendAt, RecvAt, TimerAt
<1> QED
  BY <1>7, <1>8, <1>9, <1>11, <1>12, <1>13 DEF IInv

(* A wait is over.                                                         *)
LEMMA TimerDone ==
  ASSUME IInv, pc = "timer_wait",
         Cycle(Read("timer")), cyc' = 0, pc' \in {"idle", "timer_wait"},
         UNCHANGED <<cs, res, dst, crc, block>>
  PROVE  IInv'
<1>1. TypeOK /\ HwTypeOK /\ block \in 0..1
  BY SpiAssumption DEF IInv, TypeOK
<1>2. Rest
  BY DEF IInv, HandshakeInv
<1>3. /\ Read("timer") \in BusOp /\ Read("timer").kind # "write"
      /\ Clock(Read("timer"))
  BY Operations DEF Cycle
<1>4. crc = 0 /\ card = Silent
  BY <1>1 DEF IInv, CrcInv, SilentInv, RecvAt, TimerAt, TypeOK
<1>5. Rest' /\ card' = Silent /\ (busy = 0 => busy' = 0 /\ rxddata' = rxddata)
  <2>1. busy \in Nat /\ card \in Card /\ ncs_reg \in BOOLEAN
    BY <1>1, DmaAssumption DEF HwTypeOK
  <2>2. busy = 1 => Unsaid = Silent
    BY <1>1, <1>4, <2>1, Listening
  <2> QED
    BY <1>1, <1>2, <1>3, <1>4, <2>1, <2>2, QuietStep
<1>6. TypeOK'
  <2>1. pc' \in Outside /\ cyc' \in 0..ReadWait
    BY SpiAssumption DEF Outside, TimerAt
  <2> QED
    BY <1>1, <1>3, <2>1, TypeKept DEF TypeOK
<1>7. HandshakeInv' /\ TimerInv' /\ BeforeBlock' /\ InBlock' /\ AfterBlock'
  BY <1>5, OutsideKept DEF Outside, TimerAt
<1>8. EngineInv'
  BY <1>5 DEF IInv, EngineInv, DmaWrites, Rest, DmaAt, TimerAt
<1>9. CopyInv' /\ ReadInv'
  BY <1>4 DEF CopyInv, ReadInv
<1>10. CrcInv' /\ SilentInv'
  BY <1>4, <1>5 DEF CrcInv, SilentInv, DmaAt
<1> QED
  BY <1>6, <1>7, <1>8, <1>9, <1>10 DEF IInv

(* The writes that leave a call of the byte functions, and the changes of  *)
(* the select line.                                                        *)
LEMMA SendWriteStep ==
  ASSUME IInv, SendWrite
  PROVE  IInv'
<1>1. TypeOK /\ HwTypeOK /\ block \in 0..1
  BY DEF IInv, TypeOK
<1>2. pc = "send_write" /\ pc' = "idle" /\ res' = None /\ cyc' = cyc
      /\ UNCHANGED <<cs, dst, crc, block>> /\ Cycle(WriteStatus(TRUE, cs))
  BY DEF SendWrite, IoWr
<1>3. Rest /\ busy = 0 /\ crc = 0 /\ card = Silent
  BY <1>1, <1>2 DEF IInv, HandshakeInv, EngineInv, CrcInv, SilentInv, SendAt,
     RecvAt, TypeOK
<1> DEFINE o == WriteStatus(TRUE, cs)
<1>4. o \in BusOp /\ ~Writes(o, "dma") /\ Clock(o)
  BY <1>1, <1>2, Operations DEF Writes, TypeOK, Cycle
<1> HIDE DEF o
<1>5. Rest' /\ card' = Silent
  BY <1>1, <1>3, <1>4, RestStep, EngineStep
<1>6. TypeOK'
  BY <1>1, <1>2, <1>4, TypeKept DEF TypeOK, Outside, o
<1>7. HandshakeInv' /\ TimerInv' /\ BeforeBlock' /\ InBlock' /\ AfterBlock'
  BY <1>2, <1>5, OutsideKept DEF Outside
<1>8. EngineInv'
  BY <1>2, <1>5 DEF EngineInv, DmaWrites, Rest, DmaAt
<1>9. CopyInv' /\ CrcInv' /\ SilentInv'
  BY <1>2, <1>3, <1>5 DEF CopyInv, CrcInv, SilentInv, DmaAt
<1>10. ReadInv'
  BY <1>2 DEF IInv, ReadInv
<1> QED
  BY <1>6, <1>7, <1>8, <1>9, <1>10 DEF IInv

(* The write that starts the exchange of mmc_spi_Recvbyte.                 *)
LEMMA RecvWriteStep ==
  ASSUME IInv, RecvWrite
  PROVE  IInv'
<1>1. TypeOK /\ HwTypeOK /\ block \in 0..1
  BY DEF IInv, TypeOK
<1>2. pc = "recv_write" /\ pc' = "recv_wait" /\ cyc' = cyc
      /\ UNCHANGED <<cs, res, dst, crc, block>> /\ Cycle(WriteStatus(TRUE, cs))
  BY DEF RecvWrite, IoWr
<1>3. Rest /\ busy = 0 /\ cyc = 0
  BY <1>1, <1>2 DEF IInv, HandshakeInv, EngineInv, ReadInv, TypeOK
<1> DEFINE o == WriteStatus(TRUE, cs)
<1>4. /\ o \in BusOp /\ ~Writes(o, "dma") /\ Writes(o, "status") /\ Clock(o)
      /\ o.go = TRUE /\ o.ncs = cs
  BY <1>1, <1>2, Operations DEF Writes, TypeOK, Cycle
<1> HIDE DEF o
<1>5. Rest' /\ card' = card /\ busy' = ByteCycles /\ ncs_reg' = cs
  BY <1>1, <1>3, <1>4, RestStep, EngineStep
<1>6. TypeOK'
  BY <1>1, <1>2, <1>4, TypeKept DEF TypeOK, Outside, RecvAt, o
<1>7. HandshakeInv' /\ TimerInv' /\ BeforeBlock' /\ InBlock' /\ AfterBlock'
  BY <1>2, <1>5, OutsideKept DEF Outside, RecvAt
<1>8. EngineInv'
  BY <1>2, <1>3, <1>5 DEF EngineInv, DmaWrites, Rest, DmaAt, TimerAt
<1>9. CrcInv /\ SilentInv
  BY DEF IInv
<1>10. CopyInv'
  BY <1>2 DEF CopyInv
<1>11. CrcInv'
  BY <1>2, <1>5, <1>9, DmaAssumption DEF CrcInv, BlockFrom, RecvAt, DmaAt
<1>12. SilentInv'
  BY <1>2, <1>5, <1>9, DmaAssumption
  DEF SilentInv, CrcInv, BlockFrom, SendAt, TimerAt
<1>13. ReadInv'
  BY <1>2, <1>3 DEF ReadInv
<1> QED
  BY <1>6, <1>7, <1>8, <1>10, <1>11, <1>12, <1>13 DEF IInv

(* The write that changes the select, with the engine busy or not.         *)
LEMMA SelectStep ==
  ASSUME IInv, Select
  PROVE  IInv'
<1>1. TypeOK /\ HwTypeOK /\ block \in 0..1
  BY DEF IInv, TypeOK
<1>2. PICK n \in BOOLEAN :
        /\ pc \in SelectAt /\ cyc' = cyc
        /\ cs' = n /\ res' = None /\ UNCHANGED <<dst, crc, block>>
        /\ Cycle(WriteStatus(FALSE, n))
        /\ \/ pc = "select" /\ pc' = "recv"
           \/ pc = "deselect" /\ pc' = "recv" /\ n = TRUE
           \/ pc = "ncs" /\ pc' = "idle"
  BY DEF Select, IoWr, SelectAt
<1>3. Rest /\ crc = 0 /\ cyc = 0 /\ (pc # "deselect" => card = Silent)
  BY <1>1, <1>2
  DEF IInv, HandshakeInv, CrcInv, SilentInv, ReadInv, SelectAt, RecvAt, TypeOK
<1> DEFINE o == WriteStatus(FALSE, n)
<1>4. o \in BusOp /\ ~Writes(o, "dma") /\ Clock(o)
  BY <1>1, <1>2, Operations DEF Writes, Cycle
<1> HIDE DEF o
<1>5. Rest' /\ (pc # "deselect" => card' = Silent)
  <2>1. busy \in Nat /\ card \in Card /\ ncs_reg \in BOOLEAN
    BY <1>1, DmaAssumption DEF HwTypeOK
  <2>2. card = Silent => Unsaid = Silent
    BY <1>1, <2>1, Listening
  <2> QED
    BY <1>1, <1>3, <1>4, <2>1, <2>2, RestStep, EngineStep
<1>6. pc' \in Outside
  BY <1>2 DEF Outside, RecvAt
<1>7. TypeOK'
  BY <1>1, <1>2, <1>4, <1>6, TypeKept DEF TypeOK, o
<1>8. HandshakeInv' /\ TimerInv' /\ BeforeBlock' /\ InBlock' /\ AfterBlock'
  BY <1>5, <1>6, OutsideKept
<1>9. EngineInv'
  BY <1>2, <1>3, <1>5 DEF EngineInv, DmaWrites, Rest, DmaAt
<1>10. CopyInv' /\ CrcInv' /\ ReadInv'
  BY <1>2, <1>3 DEF CopyInv, CrcInv, ReadInv, DmaAt
<1>11. SilentInv'
  BY <1>2, <1>3, <1>5 DEF SilentInv, SendAt, TimerAt
<1> QED
  BY <1>7, <1>8, <1>9, <1>10, <1>11 DEF IInv

(* mmc_spi_SetTimer of a wait.                                             *)
LEMMA TimerWriteStep ==
  ASSUME IInv, IoWr("timer", WriteTimer(Moment), "timer_wait"),
         UNCHANGED <<cs, res, dst, crc, block>>
  PROVE  IInv'
<1>1. TypeOK /\ HwTypeOK /\ block \in 0..1
  BY DEF IInv, TypeOK
<1>2. pc = "timer" /\ pc' = "timer_wait" /\ cyc' = cyc
      /\ Cycle(WriteTimer(Moment))
  BY DEF IoWr
<1>3. Rest /\ crc = 0 /\ card = Silent /\ cyc = 0
  BY <1>1, <1>2
  DEF IInv, HandshakeInv, CrcInv, SilentInv, ReadInv, TimerAt, RecvAt, TypeOK
<1> DEFINE o == WriteTimer(Moment)
<1>4. /\ o \in BusOp /\ ~Writes(o, "dma") /\ ~Writes(o, "status") /\ Clock(o)
  BY <1>2, Operations, SpiAssumption DEF Writes, Cycle
<1> HIDE DEF o
<1>5. Rest' /\ card' = Silent /\ (busy = 0 => busy' = 0 /\ rxddata' = rxddata)
  <2>1. busy \in Nat /\ card \in Card /\ ncs_reg \in BOOLEAN
    BY <1>1, DmaAssumption DEF HwTypeOK
  <2>2. Unsaid = Silent
    BY <1>1, <1>3, <2>1, Listening
  <2> QED
    BY <1>1, <1>3, <1>4, <2>1, <2>2, RestStep, EngineStep
<1>6. pc' \in Outside
  BY <1>2 DEF Outside, TimerAt
<1>7. TypeOK'
  BY <1>1, <1>2, <1>4, <1>6, TypeKept DEF TypeOK, o
<1>8. HandshakeInv' /\ TimerInv' /\ BeforeBlock' /\ InBlock' /\ AfterBlock'
  BY <1>5, <1>6, OutsideKept
<1>9. EngineInv'
  BY <1>2, <1>3, <1>5 DEF IInv, EngineInv, DmaWrites, Rest, DmaAt, TimerAt
<1>10. CopyInv' /\ CrcInv' /\ ReadInv' /\ SilentInv'
  BY <1>2, <1>3, <1>5 DEF CopyInv, CrcInv, ReadInv, SilentInv, DmaAt
<1> QED
  BY <1>7, <1>8, <1>9, <1>10 DEF IInv

(* A call, which takes no cycle.                                           *)
LEMMA CallStep ==
  ASSUME IInv, Call
  PROVE  IInv'
<1>1. TypeOK /\ HwTypeOK
  BY DEF IInv, TypeOK
<1>2. PICK l \in {"send", "recv", "select", "deselect", "ncs", "timer"} :
        pc = "idle" /\ pc' = l /\ UNCHANGED <<hwVars, waited, cyc, cs>>
  BY DEF Call, Enter
<1>3. crc = 0 /\ UNCHANGED <<res, dst, crc, block>>
  BY DEF Call
<1>4. Rest /\ card = Silent /\ cyc = 0
  BY <1>1, <1>2, <1>3 DEF IInv, HandshakeInv, SilentInv, ReadInv, TypeOK
<1>5. /\ Rest' /\ card' = Silent /\ busy' = busy /\ rxddata' = rxddata
      /\ HwTypeOK'
  <2>1. UNCHANGED <<engineVars, timerVars, dmaVars, busVars>>
    BY <1>2 DEF hwVars
  <2>2. HwTypeOK'
    BY <1>1, <2>1 DEF HwTypeOK, engineVars, timerVars, dmaVars, busVars
  <2>3. Rest'
    BY <1>4, <2>1 DEF Rest, dmaVars
  <2> QED
    BY <1>4, <2>1, <2>2, <2>3 DEF engineVars
<1>6. pc' \in Outside
  BY <1>2 DEF Outside, SendAt, RecvAt, SelectAt, TimerAt
<1>7. TypeOK'
  BY <1>1, <1>2, <1>3, <1>5, <1>6 DEF TypeOK, Outside
<1>8. HandshakeInv' /\ TimerInv' /\ BeforeBlock' /\ InBlock' /\ AfterBlock'
  BY <1>5, <1>6, OutsideKept
<1>9. EngineInv'
  BY <1>2, <1>3, <1>4, <1>5
  DEF IInv, EngineInv, DmaWrites, Rest, DmaAt, TimerAt
<1>10. CopyInv' /\ CrcInv' /\ ReadInv' /\ SilentInv'
  BY <1>2, <1>3, <1>4, <1>5 DEF CopyInv, CrcInv, ReadInv, SilentInv, DmaAt
<1> QED
  BY <1>7, <1>8, <1>9, <1>10 DEF IInv

(* The call that receives a byte of the CRC.                               *)
LEMMA DiscardCrcStep ==
  ASSUME IInv, DiscardCrc
  PROVE  IInv'
<1>1. TypeOK /\ HwTypeOK
  BY DEF IInv, TypeOK
<1>2. /\ pc = "idle" /\ pc' = "recv" /\ UNCHANGED <<hwVars, waited, cyc, cs>>
      /\ crc > 0 /\ crc' = crc - 1 /\ UNCHANGED <<res, dst, block>>
  BY DEF DiscardCrc, Enter
<1>3. Rest /\ cyc = 0 /\ crc \in 1..2 /\ crc' \in 0..1
  BY <1>1, <1>2 DEF IInv, HandshakeInv, ReadInv, TypeOK
<1>4. /\ Rest' /\ card' = card /\ busy' = busy /\ rxddata' = rxddata
      /\ HwTypeOK'
  BY <1>1, <1>2, <1>3 DEF Rest, hwVars, engineVars, timerVars, dmaVars, busVars,
     HwTypeOK
<1>5. pc' \in Outside
  BY <1>2 DEF Outside, RecvAt
<1>6. TypeOK'
  BY <1>1, <1>2, <1>3, <1>4, <1>5 DEF TypeOK, Outside
<1>7. HandshakeInv' /\ TimerInv' /\ BeforeBlock' /\ InBlock' /\ AfterBlock'
  BY <1>4, <1>5, OutsideKept
<1>8. EngineInv'
  BY <1>2, <1>3, <1>4 DEF EngineInv, DmaWrites, Rest, DmaAt, TimerAt
<1>9. CrcInv
  BY DEF IInv
<1>10. CopyInv' /\ ReadInv'
  BY <1>2, <1>3 DEF CopyInv, ReadInv
<1>11. CrcInv'
  BY <1>2, <1>3, <1>4, <1>9 DEF CrcInv, BlockFrom, RecvAt, DmaAt
<1>12. SilentInv'
  BY <1>2, <1>3, <1>4, <1>9 DEF SilentInv, CrcInv, BlockFrom, SendAt, TimerAt
<1> QED
  BY <1>6, <1>7, <1>8, <1>10, <1>11, <1>12 DEF IInv

(* The call of rcvr_datablock, with the card about to answer.              *)
LEMMA AskBlockStep ==
  ASSUME IInv, AskBlock
  PROVE  IInv'
<1>1. TypeOK /\ HwTypeOK
  BY DEF IInv, TypeOK
<1>2. /\ pc = "idle" /\ pc' = "dma" /\ crc = 0 /\ ~cs /\ res # None
      /\ block' = 1 - block /\ card' \in Replies(block')
      /\ dst' = <<>> /\ res' = None
      /\ UNCHANGED <<busy, rxddata, ncs_reg, timerVars, dmaVars, busVars,
                     waited, cyc, cs, crc>>
  BY DEF AskBlock
<1>3. Rest /\ busy = 0 /\ cyc = 0
  BY <1>1, <1>2 DEF IInv, HandshakeInv, EngineInv, ReadInv, TypeOK
<1>4. block' \in 0..1
  BY <1>1, <1>2 DEF TypeOK
<1>5. card' \in Card /\ card'.block = block' /\ card'.next = 0
  <2>1. PICK w \in 0..Latency, s \in {"nothing", "error", "block"} :
          card' = Speech(w, s, block', 0)
    BY <1>2 DEF Replies
  <2> QED
    BY <1>4, <2>1, SpiAssumption, BlockSize DEF Speech, Card
<1>6. Rest' /\ busy' = 0
  BY <1>2, <1>3 DEF Rest, dmaVars
<1>7. TypeOK'
  <2>1. HwTypeOK'
    BY <1>1, <1>2, <1>5 DEF HwTypeOK, timerVars, dmaVars, busVars
  <2>2. dst' \in Seq([1..WordBytes -> Byte]) /\ Len(dst') <= Words
    BY <1>2, DmaAssumption
  <2> QED
    BY <1>1, <1>2, <1>4, <2>1, <2>2 DEF TypeOK, DmaAt
<1>8. HandshakeInv' /\ TimerInv' /\ InBlock' /\ AfterBlock'
  BY <1>2, <1>6
  DEF HandshakeInv, TimerInv, InBlock, AfterBlock, Rest, Seen, Running
<1>9. BeforeBlock'
  BY <1>2, <1>5, <1>6 DEF BeforeBlock, Rest, Coming
<1>10. EngineInv'
  BY <1>2, <1>3, <1>6 DEF EngineInv, DmaWrites, Rest, DmaAt, TimerAt
<1>11. CopyInv' /\ CrcInv' /\ ReadInv' /\ SilentInv'
  BY <1>2, <1>3
  DEF CopyInv, CrcInv, ReadInv, SilentInv, SendAt, TimerAt
<1> QED
  BY <1>7, <1>8, <1>9, <1>10, <1>11 DEF IInv

-----------------------------------------------------------------------------
(* Steps of a block read outside of the wait for the DMA.                  *)

Inside == DmaAt \ {"dma_wait"}

(* The DMA rests, the engine is idle, and a read or nothing on the bus     *)
(* changes the timer and what the bus has latched.                         *)
LEMMA InsideStep ==
  ASSUME IInv, pc \in Inside, NEW o \in BusOp, o.kind # "write", Cycle(o)
  PROVE  /\ HwTypeOK' /\ Rest /\ Rest' /\ crc = 0 /\ busy = 0
         /\ UNCHANGED <<dmadataerr, dmatimout, buf, ncs_reg, busy, rxddata, card>>
         /\ frc' = (IF frc > 0 THEN frc - 1 ELSE 0)
         /\ memaddr' = o.addr /\ readdata' = Found(o)
<1>1. TypeOK /\ HwTypeOK /\ block \in 0..1
  BY DEF IInv, TypeOK
<1>2. Rest /\ busy = 0 /\ crc = 0
  BY <1>1 DEF IInv, HandshakeInv, EngineInv, CrcInv, Inside, DmaAt, RecvAt, TypeOK
<1>3. Clock(o)
  BY DEF Cycle
<1> QED
  BY <1>1, <1>2, <1>3, QuietStep

(* A cycle of a read there, or one in which nothing happens.               *)
LEMMA QuietInside ==
  ASSUME IInv, pc \in Inside, NEW o \in BusOp, o.kind # "write", Cycle(o),
         UNCHANGED <<pc, cs, res, dst, crc, block>>,
         \/ cyc' = 0
         \/ /\ cyc' = cyc + 1 /\ cyc < ReadWait
            /\ pc \in {"dma", "dma_check", "copy"}
            /\ pc = "dma_check" => o = Read("dma")
            /\ pc = "copy" => o = ReadBuffer(Len(dst))
  PROVE  IInv'
<1>1. TypeOK /\ HwTypeOK /\ cyc \in 0..ReadWait /\ waited \in 0..Timeout
      /\ dst \in Seq([1..WordBytes -> Byte])
  BY DEF IInv, TypeOK
<1>2. /\ HwTypeOK' /\ Rest' /\ crc = 0 /\ busy = 0
      /\ UNCHANGED <<dmadataerr, dmatimout, buf, ncs_reg, busy, rxddata, card>>
      /\ frc' = (IF frc > 0 THEN frc - 1 ELSE 0)
      /\ memaddr' = o.addr /\ readdata' = Found(o)
  BY InsideStep
<1>3. cyc' \in 0..ReadWait
  BY <1>1, SpiAssumption
<1>4. TypeOK'
  BY <1>1, <1>3, TypeKept DEF TypeOK, Inside
<1>5. HandshakeInv'
  BY <1>2 DEF HandshakeInv, Inside
<1>6. EngineInv'
  BY <1>2 DEF EngineInv, DmaWrites, Rest, DmaAt, TimerAt, Inside
<1>7. TimerInv'
  <2>1. pc = "dma_start" => frc = Timeout - waited
    BY DEF IInv, TimerInv
  <2>2. pc = "dma_start" =>
          waited' = IF waited < Timeout THEN waited + 1 ELSE Timeout
    BY <1>1, WaitedStep
  <2> QED
    BY <1>1, <1>2, <2>1, <2>2, SpiAssumption DEF TimerInv, Inside
<1>8. BeforeBlock'
  BY <1>2 DEF IInv, BeforeBlock, Rest, Coming, Inside
<1>9. InBlock'
  BY <1>2 DEF InBlock, Rest
<1>10. AfterBlock'
  <2>1. pc = "dma_check" => waited' = waited
    BY <1>1, WaitedStep
  <2>2. pc = "dma_check" /\ cyc' >= 1 => (readdata'.error <=> Failed)
    BY <1>1, <1>2, Findings
  <2> QED
    BY <1>2, <2>1, <2>2
    DEF IInv, AfterBlock, Rest, Seen, Running, Failed, StoredTo, BlockFrom, Inside
<1>11. CopyInv'
  <2>1. CopyInv
    BY DEF IInv
  <2>2. pc = "copy" /\ cyc' >= 1 => memaddr' = Len(dst)
    <3>1. pc = "copy" => Len(dst) \in 0..Words - 1
      BY <1>1, <2>1, DmaAssumption DEF CopyInv
    <3> QED
      BY <1>2, <3>1, Operations
  <2>3. pc = "copy" /\ cyc' >= 2 => readdata'.bytes = BlockWord(block, Len(dst))
    <3> SUFFICES ASSUME pc = "copy", cyc' >= 2
                 PROVE  readdata'.bytes = BlockWord(block, Len(dst))
      OBVIOUS
    <3>1. /\ Len(dst) \in 0..Words - 1 /\ memaddr = Len(dst)
          /\ o = ReadBuffer(Len(dst))
      BY <1>1, <2>1, DmaAssumption DEF CopyInv
    <3>2. readdata'.bytes = Word(Len(dst))
      BY <1>1, <1>2, <3>1, Findings
    <3>3. \A j \in 0..Block - 1 : buf[j] = Data(block, j)
      BY <2>1 DEF CopyInv, StoredTo
    <3>4. \A k \in 1..WordBytes :
            buf[Len(dst) * WordBytes + k - 1]
              = Data(block, Len(dst) * WordBytes + k - 1)
      BY <3>1, <3>3, WordPlace
    <3> QED
      BY <3>2, <3>4 DEF Word, BlockWord
  <2> QED
    BY <1>2, <2>1, <2>2, <2>3 DEF CopyInv, BlockFrom, StoredTo, Inside
<1>12. CrcInv' /\ SilentInv'
  BY <1>2 DEF IInv, CrcInv, SilentInv, SendAt, TimerAt, Inside, DmaAt
<1>13. ReadInv'
  BY <1>1 DEF ReadInv
<1> QED
  BY <1>4, <1>5, <1>6, <1>7, <1>8, <1>9, <1>10, <1>11, <1>12, <1>13 DEF IInv

(* The engine was idle: the timer is set next.                             *)
LEMMA DmaPollDone ==
  ASSUME IInv, pc = "dma", Cycle(Read("status")), cyc' = 0,
         pc' \in {"dma", "dma_timer"}, UNCHANGED <<cs, res, dst, crc, block>>
  PROVE  IInv'
<1>1. TypeOK
  BY DEF IInv
<1>2. Read("status") \in BusOp /\ Read("status").kind # "write"
  BY Operations
<1>3. /\ HwTypeOK' /\ Rest' /\ crc = 0 /\ busy = 0
      /\ UNCHANGED <<busy, rxddata, ncs_reg, card>>
  BY <1>2, InsideStep DEF Inside, DmaAt
<1>4. TypeOK'
  <2>1. pc' \in DmaAt /\ cyc' \in 0..ReadWait
    BY SpiAssumption DEF DmaAt
  <2> QED
    BY <1>1, <1>2, <2>1, TypeKept DEF TypeOK
<1>5. HandshakeInv' /\ TimerInv' /\ InBlock' /\ AfterBlock' /\ ReadInv'
  BY <1>3
  DEF HandshakeInv, TimerInv, InBlock, AfterBlock, ReadInv, Rest, Seen, Running
<1>6. BeforeBlock'
  BY <1>3 DEF IInv, BeforeBlock, Rest, Coming
<1>7. EngineInv'
  BY <1>3 DEF EngineInv, DmaWrites, Rest, DmaAt, TimerAt
<1>8. CopyInv' /\ CrcInv' /\ SilentInv'
  BY <1>3 DEF IInv, CopyInv, CrcInv, SilentInv, SendAt, TimerAt, DmaAt
<1> QED
  BY <1>4, <1>5, <1>6, <1>7, <1>8 DEF IInv

(* The timer is set: from now on it counts the time waited.                *)
LEMMA DmaTimerStep ==
  ASSUME IInv, DmaTimer
  PROVE  IInv'
<1>1. TypeOK /\ HwTypeOK /\ block \in 0..1
  BY DEF IInv, TypeOK
<1>2. /\ pc = "dma_timer" /\ pc' = "dma_start" /\ cyc' = cyc
      /\ UNCHANGED <<cs, res, dst, crc, block>> /\ Cycle(WriteTimer(Timeout))
  BY DEF DmaTimer, IoWr
<1>3. Rest /\ busy = 0 /\ crc = 0 /\ cyc = 0
  BY <1>1, <1>2
  DEF IInv, HandshakeInv, EngineInv, CrcInv, ReadInv, DmaAt, RecvAt, TypeOK
<1> DEFINE o == WriteTimer(Timeout)
<1>4. /\ o \in BusOp /\ ~Writes(o, "dma") /\ ~Writes(o, "status") /\ Clock(o)
      /\ Writes(o, "timer") /\ o.time = Timeout
  BY <1>2, Operations, SpiAssumption DEF Writes, Cycle
<1> HIDE DEF o
<1>5. /\ Rest' /\ busy' = 0 /\ rxddata' = rxddata /\ card' = card
      /\ frc' = Timeout
  BY <1>1, <1>3, <1>4, RestStep, EngineStep DEF Timer
<1>6. waited' = 0
  BY <1>1, <1>2, WaitedStep
<1>7. TypeOK'
  BY <1>1, <1>2, <1>4, TypeKept DEF TypeOK, DmaAt, o
<1>8. HandshakeInv' /\ InBlock' /\ AfterBlock' /\ ReadInv'
  BY <1>2, <1>3, <1>5
  DEF HandshakeInv, InBlock, AfterBlock, ReadInv, Rest, Seen, Running
<1>9. TimerInv'
  BY <1>2, <1>5, <1>6, SpiAssumption DEF TimerInv
<1>10. BeforeBlock'
  BY <1>2, <1>5 DEF IInv, BeforeBlock, Rest, Coming
<1>11. EngineInv'
  BY <1>2, <1>5 DEF EngineInv, DmaWrites, Rest, DmaAt, TimerAt
<1>12. CopyInv' /\ CrcInv' /\ SilentInv'
  BY <1>2, <1>3 DEF IInv, CopyInv, CrcInv, SilentInv, SendAt, TimerAt, DmaAt
<1> QED
  BY <1>7, <1>8, <1>9, <1>10, <1>11, <1>12 DEF IInv

(* The request is made: it is pending, and the done flag still stands.     *)
LEMMA DmaStartStep ==
  ASSUME IInv, DmaStart
  PROVE  IInv'
<1>1. TypeOK /\ HwTypeOK /\ block \in 0..1 /\ waited \in 0..Timeout
  BY DEF IInv, TypeOK
<1>2. /\ pc = "dma_start" /\ pc' = "dma_wait" /\ cyc' = cyc
      /\ UNCHANGED <<cs, res, dst, crc, block>> /\ Cycle(StartDma)
  BY DEF DmaStart, IoWr
<1>3. Rest /\ busy = 0 /\ crc = 0 /\ cyc = 0 /\ frc = Timeout - waited
  BY <1>1, <1>2
  DEF IInv, HandshakeInv, EngineInv, CrcInv, ReadInv, TimerInv, DmaAt, RecvAt,
      TypeOK
<1>4. /\ StartDma \in BusOp /\ Clock(StartDma)
      /\ Writes(StartDma, "dma") /\ ~Writes(StartDma, "status")
      /\ ~Writes(StartDma, "timer")
  BY <1>2, Operations DEF Writes, Cycle
<1>5. Pending'
  BY <1>3, <1>4
  DEF Pending, Rest, Clock, Start, Dma, Idle, Set, Wait, Response, BlockByte,
      DmaWrites
<1>6. ToEngine(StartDma) = StartDma
  BY <1>3 DEF ToEngine, Rest
<1>7. /\ busy' = 0 /\ card' = card
      /\ frc' = (IF frc > 0 THEN frc - 1 ELSE 0) /\ (frczero' <=> frc = 0)
  BY <1>1, <1>3, <1>4, <1>6, EngineStep, TypeStep DEF Clock, Timer, HwTypeOK
<1>8. waited' = IF waited < Timeout THEN waited + 1 ELSE Timeout
  BY <1>1, <1>2, WaitedStep
<1>9. TypeOK'
  BY <1>1, <1>2, <1>4, TypeKept DEF TypeOK, DmaAt
<1>10. HandshakeInv' /\ InBlock' /\ AfterBlock' /\ ReadInv'
  BY <1>2, <1>3, <1>5
  DEF HandshakeInv, InBlock, AfterBlock, ReadInv, Pending, Rest, Seen, Running
<1>11. TimerInv'
  BY <1>1, <1>2, <1>3, <1>7, <1>8, SpiAssumption DEF TimerInv
<1>12. BeforeBlock'
  BY <1>2, <1>5, <1>7 DEF IInv, BeforeBlock, Pending, Coming
<1>13. EngineInv'
  BY <1>2, <1>3, <1>5, <1>7 DEF EngineInv, DmaWrites, Pending, DmaAt, TimerAt
<1>14. CopyInv' /\ CrcInv' /\ SilentInv'
  BY <1>2, <1>3 DEF IInv, CopyInv, CrcInv, SilentInv, SendAt, TimerAt, DmaAt
<1> QED
  BY <1>9, <1>10, <1>11, <1>12, <1>13, <1>14 DEF IInv

(* The verdict: the block is copied or the card deselected.                *)
LEMMA DmaCheckDone ==
  ASSUME IInv, pc = "dma_check", LastCycle, Cycle(Read("dma")), cyc' = 0,
         pc' = (IF readdata.error THEN "deselect" ELSE "copy"),
         UNCHANGED <<cs, res, dst, crc, block>>
  PROVE  IInv'
<1>1. TypeOK /\ ReadWait \in Nat /\ ReadWait >= 2
  BY SpiAssumption DEF IInv, TypeOK
<1>2. Read("dma") \in BusOp /\ Read("dma").kind # "write"
  BY Operations
<1>3. /\ HwTypeOK' /\ Rest' /\ crc = 0 /\ busy = 0
      /\ UNCHANGED <<busy, rxddata, ncs_reg, card, buf>>
  BY <1>2, InsideStep DEF Inside, DmaAt
<1>4. pc' = IF Failed THEN "deselect" ELSE "copy"
  BY <1>1 DEF IInv, AfterBlock, LastCycle
<1>5. TypeOK'
  <2>1. pc' \in Outside \union DmaAt /\ cyc' \in 0..ReadWait
    BY <1>1 DEF DmaAt, Outside, SelectAt
  <2> QED
    BY <1>1, <1>2, <2>1, TypeKept DEF TypeOK
<1>6. HandshakeInv' /\ TimerInv' /\ BeforeBlock' /\ InBlock' /\ AfterBlock'
      /\ ReadInv'
  BY <1>3, <1>4
  DEF HandshakeInv, TimerInv, BeforeBlock, InBlock, AfterBlock, ReadInv, Rest,
      Seen, Running
<1>7. EngineInv'
  BY <1>3, <1>4 DEF EngineInv, DmaWrites, Rest, DmaAt, TimerAt
<1>8. CopyInv'
  <2>1. dst = <<>>
    BY DEF IInv, CopyInv
  <2>2. ~Failed => BlockFrom(Block + 1) /\ StoredTo(Block)
    BY DEF IInv, AfterBlock
  <2> QED
    BY <1>3, <1>4, <2>1, <2>2, DmaAssumption DEF CopyInv, BlockFrom, StoredTo
<1>9. CrcInv' /\ SilentInv'
  BY <1>3, <1>4 DEF IInv, CrcInv, SilentInv, SendAt, TimerAt, DmaAt
<1> QED
  BY <1>5, <1>6, <1>7, <1>8, <1>9 DEF IInv

(* A word is copied.                                                       *)
LEMMA DmaCopyDone ==
  ASSUME IInv, ReadEnds("copy", ReadBuffer(Len(dst))),
         dst' = Append(dst, readdata.bytes),
         \/ /\ Len(dst) + 1 = Words
            /\ pc' = "idle" /\ crc' = 2
         \/ /\ Len(dst) + 1 # Words
            /\ UNCHANGED <<pc, crc>>,
         UNCHANGED <<cs, res, block>>
  PROVE  IInv'
<1>1. TypeOK /\ ReadWait \in Nat /\ ReadWait >= 2
      /\ dst \in Seq([1..WordBytes -> Byte]) /\ block \in 0..1
  BY SpiAssumption DEF IInv, TypeOK
<1>2. /\ pc = "copy" /\ cyc = ReadWait /\ cyc' = 0
      /\ Cycle(ReadBuffer(Len(dst)))
  BY DEF ReadEnds, LastCycle
<1>3. /\ Len(dst) \in 0..Words - 1 /\ BlockFrom(Block + 1) /\ StoredTo(Block)
      /\ \A a \in 1..Len(dst) : dst[a] = BlockWord(block, a - 1)
      /\ readdata.bytes = BlockWord(block, Len(dst))
  BY <1>1, <1>2, DmaAssumption DEF IInv, CopyInv
<1>4. /\ ReadBuffer(Len(dst)) \in BusOp
      /\ ReadBuffer(Len(dst)).kind # "write"
  BY <1>3, Operations
<1>5. /\ HwTypeOK' /\ Rest' /\ crc = 0 /\ busy = 0
      /\ UNCHANGED <<busy, rxddata, ncs_reg, card, buf>>
  BY <1>2, <1>4, InsideStep DEF Inside, DmaAt
<1>6. readdata.bytes \in [1..WordBytes -> Byte]
  <2>1. \A k \in 1..WordBytes :
          Data(block, Len(dst) * WordBytes + k - 1) \in Byte
    BY <1>1, <1>3, WordPlace, Bytes
  <2> QED
    BY <1>3, <2>1 DEF BlockWord
<1>7. /\ dst' \in Seq([1..WordBytes -> Byte])
      /\ Len(dst') = Len(dst) + 1
      /\ \A a \in 1..Len(dst) : dst'[a] = dst[a]
      /\ dst'[Len(dst) + 1] = readdata.bytes
  BY <1>1, <1>6
<1>8. \A a \in 1..Len(dst') : dst'[a] = BlockWord(block, a - 1)
  BY <1>1, <1>3, <1>7
<1>9. \/ pc' = "idle" /\ crc' = 2 /\ Len(dst') = Words
      \/ pc' = "copy" /\ crc' = 0 /\ Len(dst') < Words
  BY <1>1, <1>2, <1>3, <1>5, <1>7, DmaAssumption
<1>10. TypeOK'
  <2>1. waited' \in 0..Timeout
    BY <1>1, <1>2, WaitedStep
  <2> QED
    BY <1>1, <1>2, <1>5, <1>7, <1>9, <2>1, DmaAssumption DEF TypeOK, DmaAt
<1>11. HandshakeInv' /\ TimerInv' /\ BeforeBlock' /\ InBlock' /\ AfterBlock'
       /\ ReadInv'
  BY <1>2, <1>5, <1>9
  DEF HandshakeInv, TimerInv, BeforeBlock, InBlock, AfterBlock, ReadInv, Rest,
      Seen, Running
<1>12. EngineInv'
  <2>1. res = None
    BY <1>2 DEF IInv, CrcInv, DmaAt
  <2> QED
    BY <1>5, <1>9, <2>1 DEF EngineInv, DmaWrites, Rest, DmaAt, TimerAt
<1>13. CopyInv'
  BY <1>2, <1>3, <1>5, <1>8, <1>9 DEF CopyInv, BlockFrom, StoredTo, BlockWord
<1>14. CrcInv'
  BY <1>2, <1>3, <1>5, <1>9 DEF IInv, CrcInv, BlockFrom, DmaAt
<1>15. SilentInv'
  BY <1>9 DEF SilentInv, SendAt, TimerAt
<1> QED
  BY <1>10, <1>11, <1>12, <1>13, <1>14, <1>15 DEF IInv

-----------------------------------------------------------------------------
(* The wait for the DMA.                                                   *)

(* A cycle of the wait, in which nothing or a read of the DMA's register   *)
(* is on the bus: the driver goes on when it has seen the flag.            *)
WaitCycle(o) ==
  /\ pc = "dma_wait"
  /\ o \in {Nothing, Read("dma")}
  /\ Cycle(o)
  /\ UNCHANGED <<cs, res, dst, crc, block>>
  /\ \/ /\ pc' = pc
        /\ \/ cyc' = 0
           \/ cyc' = cyc + 1 /\ cyc < ReadWait /\ o = Read("dma")
     \/ /\ pc' = "dma_check" /\ cyc' = 0
        /\ LastCycle /\ readdata.flag

(* What every such cycle does.                                             *)
LEMMA WaitStep ==
  ASSUME IInv, NEW o, WaitCycle(o)
  PROVE  /\ TypeOK' /\ HwTypeOK' /\ TimerInv' /\ CrcInv' /\ SilentInv' /\ ReadInv'
         /\ readdata' = Found(o)
         /\ Clock(o) /\ o \in BusOp /\ o.kind # "write"
         /\ pc' = "dma_check" => Rest
         /\ cyc' >= 1 => cyc' = cyc + 1 /\ (readdata'.flag <=> dmadone)
         /\ waited' = IF waited < Timeout THEN waited + 1 ELSE Timeout
<1>1. TypeOK /\ HwTypeOK /\ block \in 0..1 /\ waited \in 0..Timeout
      /\ cyc \in 0..ReadWait /\ crc \in 0..2
  BY DEF IInv, TypeOK
<1>2. o \in BusOp /\ o.kind # "write" /\ Clock(o)
  BY Operations DEF WaitCycle, Cycle
<1>3. TypeOK' /\ HwTypeOK'
  <2>1. pc' \in DmaAt /\ cyc' \in 0..ReadWait
    BY <1>1, SpiAssumption DEF WaitCycle, DmaAt
  <2>2. TypeOK'
    BY <1>1, <1>2, <2>1, TypeKept DEF TypeOK, WaitCycle
  <2> QED
    BY <2>2 DEF TypeOK
<1>4. readdata' = Found(o)
  BY <1>2 DEF Clock, Bus
<1>5. pc' = "dma_check" => Rest
  BY SpiAssumption DEF WaitCycle, IInv, HandshakeInv, LastCycle
<1>6. cyc' >= 1 => cyc' = cyc + 1 /\ (readdata'.flag <=> dmadone)
  BY <1>1, <1>4, Findings DEF WaitCycle
<1>7. waited' = IF waited < Timeout THEN waited + 1 ELSE Timeout
  BY <1>1, WaitedStep DEF WaitCycle
<1>8. TimerInv'
  <2>1. ~Writes(o, "timer") /\ ~Writes(WriteStatus(TRUE, FALSE), "timer")
        /\ ~Writes(Nothing, "timer")
    BY <1>2, Operations DEF Writes
  <2>2. ~Writes(ToEngine(o), "timer")
    BY <2>1 DEF ToEngine
  <2>3. frc' = (IF frc > 0 THEN frc - 1 ELSE 0) /\ (frczero' <=> frc = 0)
    BY <1>2, <1>3, <2>2 DEF Clock, Timer, HwTypeOK
  <2>4. frc = Timeout - waited /\ pc' # "dma_start"
    BY DEF IInv, TimerInv, WaitCycle
  <2> QED
    BY <1>1, <1>7, <2>3, <2>4, SpiAssumption DEF TimerInv
<1>9. crc = 0 /\ crc' = 0
  BY <1>1 DEF IInv, CrcInv, WaitCycle, RecvAt
<1>10. CrcInv'
  BY <1>9 DEF IInv, CrcInv, WaitCycle, DmaAt
<1>11. SilentInv' /\ ReadInv'
  BY DEF SilentInv, ReadInv, WaitCycle, SendAt, TimerAt
<1> QED
  BY <1>2, <1>3, <1>4, <1>5, <1>6, <1>7, <1>8, <1>10, <1>11

(* The request is seen: the flag falls, and so do the errors.              *)
LEMMA PendingStep ==
  ASSUME IInv, NEW o, WaitCycle(o), Pending
  PROVE  IInv'
<1>1. TypeOK /\ HwTypeOK /\ block \in 0..1 /\ cyc \in 0..ReadWait
  BY DEF IInv, TypeOK
<1>2. /\ TypeOK' /\ HwTypeOK' /\ TimerInv' /\ CrcInv' /\ SilentInv' /\ ReadInv'
      /\ Clock(o) /\ o \in BusOp /\ o.kind # "write"
      /\ pc' = "dma_check" => Rest
      /\ cyc' >= 1 => cyc' = cyc + 1
  BY WaitStep
<1>3. busy = 0 /\ cyc = 0 /\ Coming /\ pc = "dma_wait"
  BY DEF IInv, HandshakeInv, EngineInv, BeforeBlock, WaitCycle, Pending, Rest,
     Seen, Running
<1>4. pc' = "dma_wait"
  BY <1>2 DEF WaitCycle, Pending, Rest
<1>5. Seen' /\ ~Failed' /\ dmaread_count' = 0
  BY <1>2 DEF Pending, Seen, Failed, Clock, Start, Dma, Idle, Set, Wait, Response,
     BlockByte, DmaWrites
<1>6. ToEngine(o) = o /\ ~Writes(o, "status")
  BY <1>2 DEF ToEngine, Pending, Writes
<1>7. busy' = 0 /\ card' = card
  BY <1>1, <1>2, <1>3, <1>6, EngineStep DEF Clock
<1>8. cyc' <= 1
  BY <1>2, <1>3, SpiAssumption DEF WaitCycle
<1>9. block' = block /\ dst' = dst
  BY DEF WaitCycle
<1>10. HandshakeInv'
  BY <1>1, <1>2, <1>4, <1>5, <1>8, SpiAssumption DEF HandshakeInv, TypeOK
<1>11. EngineInv'
  BY <1>4, <1>5, <1>7 DEF EngineInv, Seen, Pending, Rest, TimerAt
<1>12. BeforeBlock'
  BY <1>3, <1>4, <1>5, <1>7, <1>9 DEF BeforeBlock, Seen, Coming
<1>13. InBlock'
  BY <1>5 DEF InBlock, Seen
<1>14. AfterBlock'
  BY <1>4, <1>5 DEF AfterBlock, Seen, Rest
<1>15. CopyInv'
  BY <1>3, <1>4, <1>9 DEF IInv, CopyInv
<1> QED
  BY <1>2, <1>10, <1>11, <1>12, <1>13, <1>14, <1>15 DEF IInv

(* At rest again: what has been brought stands until the driver looks.     *)
LEMMA RestingStep ==
  ASSUME IInv, NEW o, WaitCycle(o), Rest
  PROVE  IInv'
<1>1. TypeOK /\ HwTypeOK /\ block \in 0..1
  BY DEF IInv, TypeOK
<1>2. /\ TypeOK' /\ HwTypeOK' /\ TimerInv' /\ CrcInv' /\ SilentInv' /\ ReadInv'
      /\ Clock(o) /\ o \in BusOp /\ o.kind # "write"
      /\ waited' = IF waited < Timeout THEN waited + 1 ELSE Timeout
  BY WaitStep
<1>3. busy = 0 /\ pc = "dma_wait"
  BY DEF IInv, EngineInv, WaitCycle
<1>4. /\ Rest'
      /\ UNCHANGED <<dmadataerr, dmatimout, buf, busy, rxddata, card>>
  BY <1>1, <1>2, <1>3, QuietStep
<1>5. /\ pc' \in {"dma_wait", "dma_check"} /\ block' = block /\ dst' = dst
      /\ pc' = "dma_check" => cyc' = 0
  BY DEF WaitCycle
<1>6. HandshakeInv'
  BY <1>4, <1>5 DEF HandshakeInv
<1>7. EngineInv'
  BY <1>3, <1>4, <1>5 DEF EngineInv, DmaWrites, Rest, DmaAt, TimerAt
<1>8. BeforeBlock' /\ InBlock'
  BY <1>4, <1>5 DEF BeforeBlock, InBlock, Rest, Pending
<1>9. AfterBlock'
  <2>1. waited \in 0..Timeout /\ Timeout \in Nat
    BY SpiAssumption DEF IInv, TypeOK
  <2>2. waited = Timeout => waited' = Timeout
    BY <1>2, <2>1
  <2>3. IF Failed
          THEN /\ dmatimout => waited = Timeout
               /\ dmadataerr => rxddata = DataError
               /\ rxddata \in {FF, FE, DataError}
          ELSE BlockFrom(Block + 1) /\ StoredTo(Block)
    BY <1>3 DEF IInv, AfterBlock
  <2> QED
    BY <1>4, <1>5, <2>2, <2>3
    DEF AfterBlock, Rest, Seen, Running, Failed, BlockFrom, StoredTo
<1>10. CopyInv'
  BY <1>3, <1>5 DEF IInv, CopyInv
<1> QED
  BY <1>2, <1>6, <1>7, <1>8, <1>9, <1>10 DEF IInv

(* The request is taken back and the first byte asked for.                 *)
LEMMA SeenStep ==
  ASSUME IInv, NEW o, WaitCycle(o), Seen
  PROVE  IInv'
<1>1. TypeOK /\ HwTypeOK /\ block \in 0..1
  BY DEF IInv, TypeOK
<1>2. /\ TypeOK' /\ HwTypeOK' /\ TimerInv' /\ CrcInv' /\ SilentInv' /\ ReadInv'
      /\ Clock(o)
      /\ pc' = "dma_check" => Rest
      /\ cyc' >= 1 => (readdata'.flag <=> dmadone)
  BY WaitStep
<1>3. busy = 0 /\ Coming /\ ~Failed /\ dmaread_count = 0 /\ pc = "dma_wait"
  BY DEF IInv, EngineInv, BeforeBlock, InBlock, AfterBlock, WaitCycle, Seen,
     DmaWrites
<1>4. pc' = "dma_wait"
  BY <1>2 DEF WaitCycle, Seen, Rest
<1>5. Running' /\ state' = "RESWAIT" /\ ~Failed' /\ dmaread_count' = 0
  BY <1>2, <1>3 DEF Seen, Running, Failed, Clock, Start, Dma, Idle, Set, Wait,
     Response, BlockByte, DmaWrites
<1> DEFINE w == WriteStatus(TRUE, FALSE)
<1>6. ToEngine(o) = w
  BY DEF ToEngine, Seen, DmaWrites
<1>7. w \in BusOp /\ Writes(w, "status") /\ w.go = TRUE /\ w.ncs = FALSE
  BY Operations DEF Writes
<1> HIDE DEF w
<1>8. busy' = ByteCycles /\ card' = card /\ ncs_reg' = FALSE
  BY <1>1, <1>2, <1>3, <1>6, <1>7, EngineStep DEF Clock
<1>9. block' = block /\ dst' = dst
  BY DEF WaitCycle
<1>10. HandshakeInv'
  BY <1>2, <1>4, <1>5, SpiAssumption DEF HandshakeInv, Seen, TypeOK
<1>11. EngineInv'
  BY <1>4, <1>5, <1>8
  DEF EngineInv, Running, Pending, Rest, DmaWrites, TimerAt
<1>12. BeforeBlock'
  BY <1>3, <1>4, <1>5, <1>8, <1>9, DmaAssumption
  DEF BeforeBlock, Pending, Running, Coming
<1>13. InBlock'
  BY <1>5 DEF InBlock
<1>14. AfterBlock'
  BY <1>4, <1>5 DEF AfterBlock, Running, Rest
<1>15. CopyInv'
  BY <1>3, <1>4, <1>9 DEF IInv, CopyInv
<1> QED
  BY <1>2, <1>10, <1>11, <1>12, <1>13, <1>14, <1>15 DEF IInv

(* In a cycle of a transfer that is going on the driver waits.             *)
LEMMA RunningFrame ==
  ASSUME IInv, NEW o, WaitCycle(o), Running
  PROVE  /\ HwTypeOK /\ HwTypeOK' /\ Clock(o)
         /\ pc = "dma_wait" /\ pc' = "dma_wait"
         /\ block \in 0..1 /\ block' = block
         /\ ~dmastart' /\ ~Failed
         /\ frczero => waited' = Timeout
<1>1. TypeOK /\ HwTypeOK /\ block \in 0..1 /\ waited \in 0..Timeout
  BY DEF IInv, TypeOK
<1>2. /\ Clock(o) /\ o \in BusOp /\ o.kind # "write" /\ HwTypeOK'
      /\ pc' = "dma_check" => Rest
      /\ waited' = IF waited < Timeout THEN waited + 1 ELSE Timeout
  BY WaitStep
<1>3. pc = "dma_wait" /\ pc' = "dma_wait" /\ block' = block
  BY <1>2 DEF WaitCycle, Running, Rest
<1>4. ~dmastart'
  BY <1>2 DEF Running, Clock, Start, Writes
<1>5. ~Failed /\ (frczero => waited' = Timeout)
  BY <1>1, <1>2, <1>3, SpiAssumption DEF IInv, AfterBlock, TimerInv
<1> QED
  BY <1>1, <1>2, <1>3, <1>4, <1>5

(* It keeps the invariant when it keeps what is said of the card and of    *)
(* the machine.                                                            *)
LEMMA RunningKept ==
  ASSUME IInv, NEW o, WaitCycle(o), Running,
         Running' \/ Rest', EngineInv', BeforeBlock', InBlock', AfterBlock'
  PROVE  IInv'
<1>1. /\ TypeOK' /\ TimerInv' /\ CrcInv' /\ SilentInv' /\ ReadInv'
      /\ cyc' >= 1 => (readdata'.flag <=> dmadone)
  BY WaitStep
<1>2. pc = "dma_wait" /\ pc' = "dma_wait" /\ dst' = dst
  BY RunningFrame DEF WaitCycle
<1>3. cyc' >= 2 /\ readdata'.flag => FALSE
  BY <1>1, SpiAssumption DEF Running, TypeOK
<1>4. HandshakeInv'
  BY <1>2, <1>3 DEF HandshakeInv
<1>5. CopyInv'
  BY <1>2 DEF IInv, CopyInv
<1> QED
  BY <1>1, <1>4, <1>5 DEF IInv

(* A byte is asked for, to see the token or for the block.                 *)
LEMMA SetStep ==
  ASSUME IInv, NEW o, WaitCycle(o), Running, DmaWrites
  PROVE  IInv'
<1>1. /\ HwTypeOK /\ Clock(o) /\ pc = "dma_wait" /\ pc' = "dma_wait"
      /\ block \in 0..1 /\ block' = block /\ ~dmastart' /\ ~Failed
  BY RunningFrame
<1>2. /\ UNCHANGED <<dmadone, dmadataerr, dmatimout, dmaread_count, buf>>
      /\ state' = IF state = "RESSET" THEN "RESWAIT" ELSE "READWAIT"
  BY <1>1 DEF Clock, Dma, Idle, Set, Wait, Response, BlockByte, DmaWrites
<1> DEFINE w == WriteStatus(TRUE, FALSE)
<1>3. ToEngine(o) = w
  BY DEF ToEngine, Running
<1>4. w \in BusOp /\ Writes(w, "status") /\ w.go = TRUE /\ w.ncs = FALSE
  BY Operations DEF Writes
<1> HIDE DEF w
<1>5. busy = 0
  BY DEF IInv, EngineInv
<1>6. busy' = ByteCycles /\ card' = card /\ ncs_reg' = FALSE
  BY <1>1, <1>3, <1>4, <1>5, EngineStep DEF Clock
<1>7. Running'
  BY <1>1, <1>2 DEF Running
<1>8. EngineInv'
  BY <1>1, <1>2, <1>6, <1>7
  DEF EngineInv, Running, Pending, Rest, DmaWrites, TimerAt
<1>9. BeforeBlock'
  <2>1. state = "RESSET" => Coming
    BY <1>1 DEF IInv, BeforeBlock
  <2> QED
    BY <1>1, <1>2, <1>6, <2>1, DmaAssumption
    DEF BeforeBlock, Pending, Coming, DmaWrites
<1>10. InBlock'
  BY <1>1, <1>2, <1>6, DmaAssumption
  DEF IInv, InBlock, BlockFrom, StoredTo, DmaWrites
<1>11. AfterBlock'
  BY <1>1, <1>2, <1>7 DEF AfterBlock, Running, Rest, Failed
<1> QED
  BY <1>7, <1>8, <1>9, <1>10, <1>11, RunningKept

(* The exchange goes on, and at its end the card has said its byte.        *)
LEMMA ExchangeStep ==
  ASSUME IInv, NEW o, WaitCycle(o), Running, ~DmaWrites, busy > 0
  PROVE  IInv'
<1>1. /\ HwTypeOK /\ Clock(o) /\ pc = "dma_wait" /\ pc' = "dma_wait"
      /\ block \in 0..1 /\ block' = block /\ ~dmastart' /\ ~Failed
  BY RunningFrame
<1>2. /\ UNCHANGED <<state, dmadone, dmadataerr, dmatimout, dmaread_count, buf>>
      /\ state \in {"RESWAIT", "READWAIT"}
  BY <1>1
  DEF Clock, Dma, Idle, Set, Wait, Response, BlockByte, DmaWrites, Exit, Running
<1>3. ToEngine(o) = Nothing /\ Nothing \in BusOp
  BY Operations DEF ToEngine, Running
<1>4. busy \in Nat /\ card \in Card /\ ncs_reg = FALSE
  BY <1>1, <1>2, DmaAssumption DEF IInv, EngineInv, HwTypeOK
<1>5. /\ busy' = busy - 1 /\ ncs_reg' = FALSE
      /\ busy > 1 => card' = card
      /\ busy = 1 => rxddata' = Answer /\ card' = Unsaid
  BY <1>1, <1>3, <1>4, EngineStep DEF Clock
<1>6. Running'
  BY <1>1, <1>2 DEF Running
<1>7. EngineInv'
  BY <1>1, <1>2, <1>5, <1>6
  DEF EngineInv, Running, Pending, Rest, DmaWrites, TimerAt
<1>8. BeforeBlock'
  <2>1. state = "RESWAIT" => Coming
    BY DEF IInv, BeforeBlock
  <2>2. CASE busy > 1
    BY <1>1, <1>2, <1>4, <1>5, <2>1, <2>2 DEF BeforeBlock, Pending, Coming
  <2>3. CASE busy = 1
    <3>1. state = "RESWAIT" =>
            \/ rxddata' = FF /\ Coming'
            \/ rxddata' = FE /\ BlockFrom(1)'
            \/ rxddata' = DataError
      BY <1>1, <1>4, <1>5, <2>1, <2>3, ListeningBefore DEF Coming, BlockFrom
    <3> QED
      BY <1>1, <1>2, <1>5, <2>3, <3>1 DEF BeforeBlock, Pending
  <2> QED
    BY <1>4, <2>2, <2>3
<1>9. InBlock'
  <2>1. state = "READWAIT" =>
          BlockFrom(dmaread_count + 1) /\ StoredTo(dmaread_count)
    BY DEF IInv, InBlock
  <2>2. state = "READWAIT" => StoredTo(dmaread_count)'
    BY <1>1, <1>2, <2>1 DEF StoredTo
  <2>3. state = "RESWAIT" => dmaread_count' = 0
    BY <1>2 DEF IInv, InBlock
  <2>4. CASE busy > 1
    BY <1>1, <1>2, <1>4, <1>5, <2>1, <2>2, <2>3, <2>4 DEF InBlock, BlockFrom
  <2>5. CASE busy = 1
    <3>1. dmaread_count + 1 \in 1..Block
      BY <1>1, BlockSize DEF HwTypeOK
    <3>2. state = "READWAIT" =>
            /\ Answer = Data(block, dmaread_count)
            /\ Unsaid = Speech(0, "block", block, dmaread_count + 2)
      <4> SUFFICES ASSUME state = "READWAIT"
                   PROVE  /\ Answer = Data(block, dmaread_count)
                          /\ Unsaid = Speech(0, "block", block, dmaread_count + 2)
        OBVIOUS
      <4> DEFINE k == dmaread_count + 1
      <4>1. k \in 1..Block /\ k - 1 = dmaread_count /\ k + 1 = dmaread_count + 2
        BY <1>1, <3>1 DEF HwTypeOK
      <4>2. BlockFrom(k)
        BY <2>1
      <4> HIDE DEF k
      <4>3. Answer = Data(block, k - 1) /\ Unsaid = Speech(0, "block", block, k + 1)
        BY <1>1, <1>4, <4>1, <4>2, ListeningIn
      <4> QED
        BY <4>1, <4>3
    <3> QED
      BY <1>1, <1>2, <1>5, <2>2, <2>3, <2>5, <3>2 DEF InBlock, BlockFrom
  <2> QED
    BY <1>4, <2>4, <2>5
<1>10. AfterBlock'
  BY <1>1, <1>2, <1>6 DEF AfterBlock, Running, Rest, Failed
<1> QED
  BY <1>6, <1>7, <1>8, <1>9, <1>10, RunningKept

(* What the engine does in a cycle in which the DMA looks at its byte.     *)
LEMMA LookStep ==
  ASSUME IInv, NEW o, WaitCycle(o), Running, ~DmaWrites, busy = 0
  PROVE  UNCHANGED <<busy, rxddata, ncs_reg, card>>
<1>1. HwTypeOK /\ Clock(o) /\ block \in 0..1
  BY RunningFrame
<1>2. ToEngine(o) = Nothing /\ Nothing \in BusOp /\ ~Writes(Nothing, "status")
  BY Operations DEF ToEngine, Running, Writes
<1> QED
  BY <1>1, <1>2, EngineStep DEF Clock

(* The byte is FF, the token or a refusal, or it is too late.              *)
LEMMA ResponseStep ==
  ASSUME IInv, NEW o, WaitCycle(o), Running, state = "RESWAIT", busy = 0
  PROVE  IInv'
<1>1. /\ HwTypeOK /\ Clock(o) /\ pc = "dma_wait" /\ pc' = "dma_wait"
      /\ block \in 0..1 /\ block' = block /\ ~dmastart' /\ ~Failed
      /\ frczero => waited' = Timeout
  BY RunningFrame
<1>2. UNCHANGED <<busy, rxddata, ncs_reg, card>> /\ ncs_reg = FALSE
  BY LookStep DEF DmaWrites, IInv, EngineInv
<1>3. Response
  BY <1>1 DEF Clock, Dma, Idle, Set, Wait, BlockByte, DmaWrites, Exit
<1>4. dmaread_count' = 0 /\ buf' = buf
  BY <1>3 DEF Response, IInv, InBlock
<1>5. \/ rxddata = FF /\ Coming
      \/ rxddata = FE /\ BlockFrom(1)
      \/ rxddata = DataError
  BY DEF IInv, BeforeBlock
<1>6. Verdict =
        IF frczero THEN "timeout"
        ELSE IF rxddata = FE THEN "READSET"
        ELSE IF rxddata = FF THEN "RESSET" ELSE "error"
  BY Bytes DEF Verdict
<1>7. CASE Verdict \in {"RESSET", "READSET"}
  <2>1. /\ state' = Verdict
        /\ UNCHANGED <<dmadone, dmadataerr, dmatimout>>
    BY <1>3, <1>7 DEF Response, DmaStates
  <2>2. Running'
    BY <1>1, <1>7, <2>1 DEF Running
  <2>3. EngineInv'
    BY <1>1, <1>2, <1>7, <2>1, <2>2
    DEF EngineInv, Running, Pending, Rest, DmaWrites, TimerAt
  <2>4. BeforeBlock'
    BY <1>1, <1>2, <1>5, <1>6, <1>7, <2>1, Bytes
    DEF BeforeBlock, Pending, Coming
  <2>5. InBlock'
    BY <1>1, <1>2, <1>4, <1>5, <1>6, <1>7, <2>1, Bytes
    DEF InBlock, BlockFrom, StoredTo
  <2>6. AfterBlock'
    BY <1>1, <2>1, <2>2 DEF AfterBlock, Running, Rest, Failed
  <2> QED
    BY <2>2, <2>3, <2>4, <2>5, <2>6, RunningKept
<1>8. CASE Verdict \in {"error", "timeout"}
  <2>1. /\ state' = "IDLE" /\ dmadone' = TRUE
        /\ dmadataerr' <=> Verdict = "error"
        /\ dmatimout' <=> Verdict = "timeout"
    BY <1>3, <1>8 DEF Response, DmaStates
  <2>2. Rest'
    BY <1>1, <2>1 DEF Rest
  <2>3. EngineInv'
    BY <1>1, <1>2, <2>1 DEF EngineInv, DmaWrites, TimerAt
  <2>4. BeforeBlock' /\ InBlock'
    BY <1>1, <2>1, <2>2 DEF BeforeBlock, InBlock, Pending, Rest
  <2>5. AfterBlock'
    BY <1>1, <1>2, <1>5, <1>6, <1>8, <2>1
    DEF AfterBlock, Failed, Seen, Running
  <2> QED
    BY <2>2, <2>3, <2>4, <2>5, RunningKept
<1> QED
  BY <1>6, <1>7, <1>8

(* The byte goes to its place in the buffer.                               *)
LEMMA BlockByteStep ==
  ASSUME IInv, NEW o, WaitCycle(o), Running, state = "READWAIT", busy = 0
  PROVE  IInv'
<1>1. /\ HwTypeOK /\ Clock(o) /\ pc = "dma_wait" /\ pc' = "dma_wait"
      /\ block \in 0..1 /\ block' = block /\ ~dmastart' /\ ~Failed
      /\ dmaread_count \in 0..Block - 1 /\ buf \in [0..Block - 1 -> Byte]
  BY RunningFrame DEF HwTypeOK
<1>2. UNCHANGED <<busy, rxddata, ncs_reg, card>> /\ ncs_reg = FALSE
  BY LookStep DEF DmaWrites, IInv, EngineInv
<1>3. BlockByte
  BY <1>1 DEF Clock, Dma, Idle, Set, Wait, Response, DmaWrites, Exit
<1>4. UNCHANGED <<dmadataerr, dmatimout>>
      /\ buf' = [buf EXCEPT ![dmaread_count] = rxddata]
  BY <1>3 DEF BlockByte, Stored
<1>5. /\ BlockFrom(dmaread_count + 2) /\ rxddata = Data(block, dmaread_count)
      /\ StoredTo(dmaread_count)
  BY DEF IInv, InBlock
<1>6. \A j \in 0..dmaread_count : buf'[j] = Data(block, j)
  BY <1>1, <1>4, <1>5, BlockSize DEF StoredTo
<1>7. CASE LastByte
  <2>1. /\ state' = "IDLE" /\ dmadone' = TRUE
        /\ dmaread_count = Block - 1
    BY <1>3, <1>7 DEF BlockByte, LastByte
  <2>2. Rest'
    BY <1>1, <2>1 DEF Rest
  <2>3. EngineInv'
    BY <1>1, <1>2, <2>1 DEF EngineInv, DmaWrites, TimerAt
  <2>4. BeforeBlock' /\ InBlock'
    BY <1>1, <2>1, <2>2 DEF BeforeBlock, InBlock, Pending, Rest
  <2>5. BlockFrom(Block + 1)' /\ StoredTo(Block)'
    BY <1>1, <1>2, <1>5, <1>6, <2>1, BlockSize DEF BlockFrom, StoredTo
  <2>6. AfterBlock'
    BY <1>1, <1>4, <2>1, <2>5 DEF AfterBlock, Failed, Seen, Running
  <2> QED
    BY <2>2, <2>3, <2>4, <2>6, RunningKept
<1>8. CASE ~LastByte
  <2>1. /\ state' = "READSET" /\ dmadone' = dmadone
        /\ dmaread_count' = dmaread_count + 1
    BY <1>3, <1>8 DEF BlockByte
  <2>2. Running'
    BY <1>1, <2>1 DEF Running
  <2>3. EngineInv'
    BY <1>1, <1>2, <2>1, <2>2
    DEF EngineInv, Running, Pending, Rest, DmaWrites, TimerAt
  <2>4. BeforeBlock'
    BY <1>1, <2>1 DEF BeforeBlock, Pending
  <2>5. InBlock'
    <3>1. BlockFrom(dmaread_count + 1)'
      BY <1>1, <1>2, <1>5, <2>1 DEF BlockFrom
    <3>2. StoredTo(dmaread_count)'
      BY <1>1, <1>6, <2>1 DEF StoredTo
    <3> QED
      BY <2>1, <3>1, <3>2 DEF InBlock
  <2>6. AfterBlock'
    BY <1>1, <1>4, <2>1, <2>2 DEF AfterBlock, Running, Rest, Failed
  <2> QED
    BY <2>2, <2>3, <2>4, <2>5, <2>6, RunningKept
<1> QED
  BY <1>7, <1>8

(* A cycle of the wait for the done flag, in any phase of the transfer.    *)
LEMMA WaitCycleStep ==
  ASSUME IInv, NEW o, WaitCycle(o)
  PROVE  IInv'
<1>1. Pending \/ Seen \/ Running \/ Rest
  BY DEF IInv, HandshakeInv, WaitCycle
<1>2. CASE Running
  <2>1. busy \in Nat /\ state \in DmaStates \ {"IDLE"}
    BY <1>2, DmaAssumption DEF IInv, TypeOK, HwTypeOK, Running
  <2>2. CASE DmaWrites
    BY <1>2, <2>2, SetStep
  <2>3. CASE ~DmaWrites /\ busy > 0
    BY <1>2, <2>3, ExchangeStep
  <2>4. CASE ~DmaWrites /\ busy = 0
    BY <1>2, <2>1, <2>4, ResponseStep, BlockByteStep DEF DmaWrites, DmaStates
  <2> QED
    BY <2>1, <2>2, <2>3, <2>4
<1> QED
  BY <1>1, <1>2, PendingStep, SeenStep, RestingStep

-----------------------------------------------------------------------------
(* The steps of the driver, and the invariant.                             *)

(* mmc_spi_Sendbyte: a cycle of its poll, or its write.                    *)
LEMMA SendbyteStep ==
  ASSUME IInv, Sendbyte
  PROVE  IInv'
<1>1. Read("status") \in BusOp /\ Read("status").kind # "write"
  BY Operations
<1>2. cyc \in 0..ReadWait
  BY DEF IInv, TypeOK
<1>3. CASE Reading("send", Read("status"))
  BY <1>1, <1>2, <1>3, QuietOutside, SpiAssumption
  DEF Reading, LastCycle, Outside, SendAt
<1>4. CASE /\ ReadEnds("send", Read("status"))
           /\ pc' = IF readdata.flag THEN "send_write" ELSE "send"
           /\ UNCHANGED <<cs, res, dst, crc, block>>
  <2>1. CASE readdata.flag
    BY <1>4, <2>1, PollDone DEF ReadEnds
  <2>2. CASE ~readdata.flag
    BY <1>1, <1>4, <2>2, QuietOutside DEF ReadEnds, Outside, SendAt
  <2> QED
    BY <2>1, <2>2
<1>5. CASE SendWrite
  BY <1>5, SendWriteStep
<1> QED
  BY <1>3, <1>4, <1>5 DEF Sendbyte, SendPoll, Poll

(* mmc_spi_Recvbyte: a cycle of one of its polls, or its write.            *)
LEMMA RecvbyteStep ==
  ASSUME IInv, Recvbyte
  PROVE  IInv'
<1>1. Read("status") \in BusOp /\ Read("status").kind # "write"
  BY Operations
<1>2. cyc \in 0..ReadWait
  BY DEF IInv, TypeOK
<1>3. CASE Reading("recv", Read("status")) \/ Reading("recv_wait", Read("status"))
  BY <1>1, <1>2, <1>3, QuietOutside, SpiAssumption
  DEF Reading, LastCycle, Outside, RecvAt
<1>4. CASE /\ ReadEnds("recv", Read("status"))
           /\ pc' = IF readdata.flag THEN "recv_write" ELSE "recv"
           /\ UNCHANGED <<cs, res, dst, crc, block>>
  <2>1. CASE readdata.flag
    BY <1>4, <2>1, PollDone DEF ReadEnds
  <2>2. CASE ~readdata.flag
    BY <1>1, <1>4, <2>2, QuietOutside DEF ReadEnds, Outside, RecvAt
  <2> QED
    BY <2>1, <2>2
<1>5. CASE RecvWrite
  BY <1>5, RecvWriteStep
<1>6. CASE /\ ReadEnds("recv_wait", Read("status"))
           /\ \/ readdata.flag /\ pc' = "idle" /\ res' = readdata.bytes[1]
              \/ ~readdata.flag /\ UNCHANGED <<pc, res>>
           /\ UNCHANGED <<cs, dst, crc, block>>
  <2>1. CASE readdata.flag
    BY <1>6, <2>1, RecvDone DEF ReadEnds
  <2>2. CASE ~readdata.flag
    BY <1>1, <1>6, <2>2, QuietOutside DEF ReadEnds, Outside, RecvAt
  <2> QED
    BY <2>1, <2>2
<1> QED
  BY <1>3, <1>4, <1>5, <1>6 DEF Recvbyte, RecvPoll, RecvWait, Poll

(* The timer waits: the write, or a cycle of the poll.                     *)
LEMMA TimerWaitStep ==
  ASSUME IInv, TimerWait
  PROVE  IInv'
<1>1. Read("timer") \in BusOp /\ Read("timer").kind # "write"
  BY Operations
<1>2. cyc \in 0..ReadWait
  BY DEF IInv, TypeOK
<1>3. CASE Reading("timer_wait", Read("timer"))
  BY <1>1, <1>2, <1>3, QuietOutside, SpiAssumption
  DEF Reading, LastCycle, Outside, TimerAt
<1>4. CASE /\ ReadEnds("timer_wait", Read("timer"))
           /\ pc' = IF readdata.flag THEN "timer_wait" ELSE "idle"
           /\ UNCHANGED <<cs, res, dst, crc, block>>
  BY <1>4, TimerDone DEF ReadEnds
<1> QED
  BY <1>3, <1>4, TimerWriteStep DEF TimerWait

(* mmc_spi_DmaRecv: each of its accesses.                                  *)
LEMMA DmaRecvStep ==
  ASSUME IInv, DmaRecv
  PROVE  IInv'
<1>1. \A r \in {"status", "dma"} : Read(r) \in BusOp /\ Read(r).kind # "write"
  BY Operations
<1>2. cyc \in 0..ReadWait /\ ReadWait \in Nat
  BY SpiAssumption DEF IInv, TypeOK
<1>3. CASE DmaPoll
  <2>1. CASE Reading("dma", Read("status"))
    BY <1>1, <1>2, <2>1, QuietInside DEF Reading, LastCycle, Inside, DmaAt
  <2>2. CASE /\ ReadEnds("dma", Read("status"))
             /\ pc' = IF readdata.flag THEN "dma_timer" ELSE "dma"
             /\ UNCHANGED <<cs, res, dst, crc, block>>
    BY <2>2, DmaPollDone DEF ReadEnds
  <2> QED
    BY <1>3, <2>1, <2>2 DEF DmaPoll, Poll
<1>4. CASE DmaWait
  <2>1. WaitCycle(Read("dma"))
    BY <1>2, <1>4 DEF DmaWait, Poll, Reading, ReadEnds, WaitCycle, LastCycle
  <2> QED
    BY <2>1, WaitCycleStep
<1>5. CASE DmaCheck
  <2>1. CASE Reading("dma_check", Read("dma"))
    BY <1>1, <1>2, <2>1, QuietInside DEF Reading, LastCycle, Inside, DmaAt
  <2>2. CASE /\ ReadEnds("dma_check", Read("dma"))
             /\ pc' = IF readdata.error THEN "deselect" ELSE "copy"
             /\ UNCHANGED <<cs, res, dst, crc, block>>
    BY <2>2, DmaCheckDone DEF ReadEnds
  <2> QED
    BY <1>5, <2>1, <2>2 DEF DmaCheck
<1>6. CASE DmaCopy
  <2>1. CASE Reading("copy", ReadBuffer(Len(dst)))
    <3>1. Len(dst) \in 0..Words - 1
      BY <2>1, DmaAssumption DEF IInv, TypeOK, CopyInv, Reading
    <3>2. ReadBuffer(Len(dst)) \in BusOp /\ ReadBuffer(Len(dst)).kind # "write"
      BY <3>1, Operations
    <3> QED
      BY <1>2, <2>1, <3>2, QuietInside DEF Reading, LastCycle, Inside, DmaAt
  <2> QED
    BY <1>6, <2>1, DmaCopyDone DEF DmaCopy
<1> QED
  BY <1>3, <1>4, <1>5, <1>6, DmaTimerStep, DmaStartStep DEF DmaRecv

(* A cycle in which nothing reaches the controller.                        *)
LEMMA GapStep ==
  ASSUME IInv, Gap
  PROVE  IInv'
<1>1. /\ cyc = 0 /\ cyc' = 0 /\ Cycle(Nothing)
      /\ UNCHANGED <<pc, cs, res, dst, crc, block>>
  BY DEF Gap, drvVars
<1>2. Nothing \in BusOp /\ Nothing.kind # "write"
  BY Operations
<1>3. CASE pc \in Outside
  BY <1>1, <1>2, <1>3, QuietOutside
<1>4. CASE pc \in Inside
  BY <1>1, <1>2, <1>4, QuietInside
<1>5. CASE pc = "dma_wait"
  <2>1. WaitCycle(Nothing)
    BY <1>1, <1>5 DEF WaitCycle
  <2> QED
    BY <2>1, WaitCycleStep
<1> QED
  BY <1>3, <1>4, <1>5 DEF IInv, TypeOK, Outside, Inside, DmaAt

(* The invariant is inductive and holds in every state of the driver and   *)
(* of the controller.                                                      *)
THEOREM Invariant == Spec => []IInv
<1>1. Init => IInv
  <2> SUFFICES ASSUME Init PROVE IInv
    OBVIOUS
  <2> USE DEF Init, HwInit
  <2>1. Rest
    BY DEF Rest
  <2>2. TypeOK
    <3>1. HwTypeOK
      <4>1. FF \in Byte /\ Silent \in Card /\ NoData \in ReadData
        <5>1. FF \in Byte /\ Silent \in Card
          BY Bytes, BlockSize DEF Silent, Speech, Card
        <5>2. NoData \in ReadData
          BY DEF NoData, Lines, ReadData
        <5> QED
          BY <5>1, <5>2
      <4>2. buf \in [0..Block - 1 -> Byte] /\ rxddata \in Byte
            /\ readdata \in ReadData /\ card \in Card
        BY <4>1
      <4>3. /\ busy \in 0..ByteCycles /\ frc \in 0..MaxTimer
            /\ dmaread_count \in 0..Block - 1 /\ memaddr \in 0..Words - 1
        BY DmaAssumption, BlockSize
      <4>4. /\ ncs_reg \in BOOLEAN /\ frczero \in BOOLEAN /\ state \in DmaStates
            /\ dmastart \in BOOLEAN /\ dmadone \in BOOLEAN
            /\ dmadataerr \in BOOLEAN /\ dmatimout \in BOOLEAN
        BY DEF DmaStates
      <4> QED
        BY <4>2, <4>3, <4>4 DEF HwTypeOK
    <3> QED
      BY <3>1, SpiAssumption, DmaAssumption DEF TypeOK
  <2>3. HandshakeInv /\ TimerInv /\ BeforeBlock /\ InBlock /\ AfterBlock
    BY <2>1
    DEF HandshakeInv, TimerInv, BeforeBlock, InBlock, AfterBlock, Seen, Running
  <2>4. EngineInv
    BY DEF EngineInv, DmaWrites, DmaAt
  <2>5. ReadInv /\ CopyInv /\ CrcInv /\ SilentInv
    BY DEF ReadInv, CopyInv, CrcInv, SilentInv, DmaAt
  <2> QED
    BY <2>2, <2>3, <2>4, <2>5 DEF IInv
<1>2. IInv /\ [Next]_vars => IInv'
  <2> SUFFICES ASSUME IInv, [Next]_vars PROVE IInv'
    OBVIOUS
  <2>1. CASE Driver
    BY <2>1, SendbyteStep, RecvbyteStep, SelectStep, TimerWaitStep, DmaRecvStep
    DEF Driver
  <2>2. CASE UNCHANGED vars
    <3> USE <2>2 DEF vars, drvVars, hwVars, engineVars, timerVars, dmaVars, busVars
    <3>1. TypeOK'
      BY DEF IInv, TypeOK, HwTypeOK
    <3>2. HandshakeInv' /\ EngineInv' /\ TimerInv' /\ ReadInv'
      BY DEF IInv, HandshakeInv, EngineInv, TimerInv, ReadInv, Pending, Seen,
             Running, Rest, DmaWrites
    <3>3. BeforeBlock' /\ InBlock' /\ AfterBlock'
      BY DEF IInv, BeforeBlock, InBlock, AfterBlock, Pending, Seen, Running, Rest,
             Coming, BlockFrom, StoredTo, Failed
    <3>4. CopyInv' /\ CrcInv' /\ SilentInv'
      BY DEF IInv, CopyInv, CrcInv, SilentInv, BlockFrom, StoredTo, BlockWord
    <3> QED
      BY <3>1, <3>2, <3>3, <3>4 DEF IInv
  <2> QED
    BY <2>1, <2>2, GapStep, CallStep, DiscardCrcStep, AskBlockStep DEF Next
<1> QED
  BY <1>1, <1>2, PTL DEF Spec

-----------------------------------------------------------------------------
(* The properties.                                                         *)

(* Every register, and every variable of the driver, has its type.         *)
THEOREM TypeCorrect == Spec => []TypeOK
<1>1. IInv => TypeOK
  BY DEF IInv
<1> QED
  BY <1>1, Invariant, PTL

(* The done flag mmc_spi_DmaRecv believes is that of its own transfer: no  *)
(* state of a transfer, or of a request, is left when it looks at the      *)
(* result.                                                                 *)
THEOREM HandshakeCorrect == Spec => []DoneIsOurs
<1>1. IInv => DoneIsOurs
  BY DEF IInv, HandshakeInv, Rest, DoneIsOurs
<1> QED
  BY <1>1, Invariant, PTL

(* Every byte that is written, by the driver or by the DMA, is written to  *)
(* an idle engine and is exchanged.                                        *)
THEOREM NoByteLost == Spec => []NoByteIgnored
<1>1. IInv => NoByteIgnored
  BY DEF IInv, HandshakeInv, EngineInv, Rest, NoByteIgnored
<1> QED
  BY <1>1, Invariant, PTL

(* A block that mmc_spi_DmaRecv returns is the block that was asked for,   *)
(* byte for byte, and the two bytes of its CRC come next.                  *)
THEOREM BlockCorrect == Spec => []BlockIntact
<1>1. IInv => BlockIntact
  <2> SUFFICES ASSUME IInv, pc = "idle", crc = 2
               PROVE  /\ dst = [a \in 1..Words |-> BlockWord(block, a - 1)]
                      /\ card = Speech(0, "block", block, Block + 1)
    BY DEF BlockIntact
  <2>1. dst \in Seq([1..WordBytes -> Byte]) /\ Len(dst) = Words
    BY DEF IInv, TypeOK, CrcInv
  <2>2. \A a \in 1..Words : dst[a] = BlockWord(block, a - 1)
    BY <2>1 DEF IInv, CopyInv
  <2>3. dst = [a \in 1..Words |-> BlockWord(block, a - 1)]
    BY <2>1, <2>2
  <2> QED
    BY <2>3 DEF IInv, CrcInv, BlockFrom
<1> QED
  BY <1>1, Invariant, PTL

(* A failure of mmc_spi_DmaRecv is one: the time it set is over or the     *)
(* card has sent neither FF nor the token, and no byte of the block has    *)
(* been taken for an answer.                                               *)
THEOREM FailureCorrect == Spec => []FailsForAReason
<1>1. IInv => FailsForAReason
  <2> SUFFICES ASSUME IInv, pc = "dma_check", Failed
               PROVE  /\ dmatimout => waited = Timeout
                      /\ dmadataerr => rxddata = DataError
                      /\ \A k \in 0..Block - 1 : rxddata # Data(block, k)
    BY DEF FailsForAReason, Failed
  <2>1. /\ dmatimout => waited = Timeout
        /\ dmadataerr => rxddata = DataError
        /\ rxddata \in {FF, FE, DataError}
    BY DEF IInv, AfterBlock
  <2>2. block \in 0..1
    BY DEF IInv, TypeOK
  <2> QED
    BY <2>1, <2>2, Bytes
<1> QED
  BY <1>1, Invariant, PTL

(* mmc_spi_Recvbyte returns the byte of its own exchange.                  *)
THEOREM ReceiveCorrect == Spec => []ReceivedByteIsFresh
<1>1. IInv => ReceivedByteIsFresh
  BY DEF IInv, EngineInv, ReceivedByteIsFresh
<1> QED
  BY <1>1, Invariant, PTL

(* When a call has received a byte and no CRC is due, the card has nothing *)
(* of an earlier block left to say.                                        *)
THEOREM LateBlockCorrect == Spec => []LateBlockGone
<1>1. IInv => LateBlockGone
  BY DEF IInv, SilentInv, LateBlockGone
<1> QED
  BY <1>1, Invariant, PTL

(* An exchange that begins has the card selected as mmc_spi_ncs says.      *)
LEMMA EngineSelects ==
  ASSUME IInv, NEW o \in BusOp, Clock(o), busy = 0, busy' # 0,
         Writes(o, "status") /\ o.go => o.ncs = cs
  PROVE  ncs_reg' = cs
<1>1. TypeOK /\ HwTypeOK /\ block \in 0..1
  BY DEF IInv, TypeOK
<1> DEFINE w == ToEngine(o)
<1>2. w \in BusOp
  BY Operations DEF ToEngine
<1>3. Writes(w, "status") /\ w.go => w.ncs = cs
  <2>1. CASE dmadone
    BY <2>1 DEF ToEngine
  <2>2. CASE ~dmadone
    <3>1. pc = "dma_wait"
      BY <2>2 DEF IInv, HandshakeInv, Rest
    <3>2. cs = FALSE
      BY <1>1, <3>1 DEF IInv, CrcInv, DmaAt, TypeOK
    <3>3. w = WriteStatus(TRUE, FALSE) \/ w = Nothing
      BY <2>2 DEF ToEngine
    <3>4. WriteStatus(TRUE, FALSE).ncs = FALSE /\ ~Writes(Nothing, "status")
      BY Operations DEF Writes
    <3> HIDE DEF w
    <3> QED
      BY <3>2, <3>3, <3>4
  <2> QED
    BY <2>1, <2>2
<1> HIDE DEF w
<1>4. Engine(w)
  BY DEF Clock, w
<1>5. w.go \in BOOLEAN
  BY <1>2 DEF BusOp
<1> QED
  BY <1>1, <1>2, <1>3, <1>4, <1>5, EngineStep

(* What every step presents, if it is a cycle.                             *)
LEMMA StepPresents ==
  ASSUME IInv, Next
  PROVE  \/ UNCHANGED busy
         \/ \E o \in BusOp :
              Clock(o) /\ (Writes(o, "status") /\ o.go => o.ncs = cs)
<1> DEFINE Fine(o) ==
      o \in BusOp /\ Clock(o) /\ (Writes(o, "status") /\ o.go => o.ncs = cs)
<1>1. cs \in BOOLEAN /\ dst \in Seq([1..WordBytes -> Byte])
  BY DEF IInv, TypeOK
<1>2. \A r \in {"status", "timer", "dma"} :
        Cycle(Read(r)) => \E o \in BusOp : Fine(o)
  BY Operations DEF Writes, Cycle
<1>3. Cycle(Nothing) => \E o \in BusOp : Fine(o)
  BY Operations DEF Writes, Cycle
<1>4. Cycle(WriteStatus(TRUE, cs)) => \E o \in BusOp : Fine(o)
  BY <1>1, Operations DEF Writes, Cycle
<1>5. \A n \in BOOLEAN :
        Cycle(WriteStatus(FALSE, n)) => \E o \in BusOp : Fine(o)
  BY Operations DEF Writes, Cycle
<1>6. \A t \in {Moment, Timeout} :
        Cycle(WriteTimer(t)) => \E o \in BusOp : Fine(o)
  BY Operations, SpiAssumption DEF Writes, Cycle
<1>7. Cycle(StartDma) => \E o \in BusOp : Fine(o)
  BY Operations DEF Writes, Cycle
<1>8. pc = "copy" /\ Cycle(ReadBuffer(Len(dst))) => \E o \in BusOp : Fine(o)
  <2>1. pc = "copy" => Len(dst) \in 0..Words - 1
    BY <1>1, DmaAssumption DEF IInv, CopyInv
  <2> QED
    BY <2>1, Operations DEF Writes, Cycle
<1> HIDE DEF Fine
<1>9. CASE Sendbyte \/ Recvbyte
  BY <1>2, <1>4, <1>9
  DEF Sendbyte, SendPoll, SendWrite, Recvbyte, RecvPoll, RecvWrite, RecvWait,
      Poll, Reading, ReadEnds, IoWr, Fine
<1>10. CASE Select \/ TimerWait
  BY <1>2, <1>5, <1>6, <1>10
  DEF Select, TimerWait, Reading, ReadEnds, IoWr, Fine
<1>11. CASE DmaRecv
  BY <1>2, <1>6, <1>7, <1>8, <1>11
  DEF DmaRecv, DmaPoll, DmaTimer, DmaStart, DmaWait, DmaCheck, DmaCopy, Poll,
      Reading, ReadEnds, IoWr, Fine
<1>12. CASE Gap
  BY <1>3, <1>12 DEF Gap, Fine
<1>13. CASE Call \/ DiscardCrc
  BY <1>13 DEF Call, DiscardCrc, Enter, hwVars, engineVars
<1>14. CASE AskBlock
  BY <1>14 DEF AskBlock
<1> QED
  BY <1>9, <1>10, <1>11, <1>12, <1>13, <1>14 DEF Next, Driver

(* No exchange, of a byte or of a block, ever reaches the card with the    *)
(* select line in a state mmc_spi_ncs does not have.                       *)
THEOREM SelectCorrect == Spec => SelectedAsAsked
<1>1. IInv /\ [Next]_vars => [busy = 0 /\ busy' # 0 => ncs_reg' = cs]_vars
  BY StepPresents, EngineSelects
<1> QED
  BY <1>1, Invariant, PTL DEF Spec, SelectedAsAsked
=============================================================================
