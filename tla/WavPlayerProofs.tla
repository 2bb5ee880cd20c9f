-------------------------- MODULE WavPlayerProofs --------------------------
(***************************************************************************)
(* Proofs about WavPlayer, for every FIFO depth, threshold, burst and      *)
(* bridge depth that PortAssumption and PlayerAssumption allow, and every  *)
(* directory.                                                              *)
(***************************************************************************)
EXTENDS WavPlayerInv, SequenceTheorems, TLAPS

(* What a posted write does to the bridge.                                 *)
LEMMA PostStep ==
  ASSUME bridge \in Seq(Command), Len(bridge) <= BridgeDepth,
         NEW c \in Command, Post(c)
  PROVE  /\ bridge' \in Seq(Command)
         /\ Len(bridge') <= BridgeDepth
         /\ Len(bridge') = Len(bridge) + 1
         /\ bridge' # <<>>
         /\ \A k \in 1..Len(bridge) : bridge'[k] = bridge[k]
         /\ bridge'[Len(bridge) + 1] = c
  BY PortAssumption DEF Post

(* What the landing of a write does to the bridge and to the FIFO.         *)
LEMMA DeliverStep ==
  ASSUME PortTypeOK, Deliver
  PROVE  /\ bridge # <<>>
         /\ bridge' \in Seq(Command)
         /\ Len(bridge') = Len(bridge) - 1
         /\ \A k \in 1..Len(bridge') : bridge'[k] = bridge[k + 1]
         /\ Head(bridge) = bridge[1]
         /\ bridge[1] \in Command
         /\ fifo' \in Seq(Word)
         /\ Len(fifo') <= Depth
         /\ bridge[1].reg = "status" =>
              /\ irqena' = bridge[1].irq
              /\ fiforst' = bridge[1].rst
              /\ ~bridge[1].rst => fifo' = fifo
              /\ Len(fifo') <= Len(fifo)
              /\ fifo = <<>> => fifo' = <<>>
         /\ bridge[1].reg = "fifowr" =>
              /\ irqena' = irqena /\ fiforst' = fiforst
              /\ Len(fifo') <= Len(fifo) + 1
         /\ dac' = dac
<1>1. /\ bridge # <<>>
      /\ bridge' = Tail(bridge)
      /\ bridge \in Seq(Command)
  BY DEF Deliver, PortTypeOK
<1>2. /\ bridge' \in Seq(Command)
      /\ Len(bridge') = Len(bridge) - 1
      /\ \A k \in 1..Len(bridge') : bridge'[k] = bridge[k + 1]
      /\ Head(bridge) = bridge[1]
      /\ bridge[1] \in Command
  BY <1>1
<1>3. /\ bridge[1].reg \in {"status", "fifowr"}
      /\ bridge[1].word \in Word
  BY <1>2 DEF Command
<1>4. fifo \in Seq(Word) /\ Len(fifo) \in Nat /\ Len(fifo) <= Depth
  BY DEF PortTypeOK
<1>5. /\ fifo' \in Seq(Word)
      /\ Len(fifo') <= Depth
  <2>1. CASE bridge[1].reg = "status"
    <3>1. fifo' = fifo \/ fifo' = <<>>
      BY <1>2, <2>1 DEF Deliver
    <3>2. fifo' = <<>> => fifo' \in Seq(Word) /\ Len(fifo') = 0
      BY EmptySeq
    <3>3. Depth \in Nat /\ 0 <= Depth
      BY PortAssumption
    <3>4. QED
      BY <3>1, <3>2, <3>3, <1>4
  <2>2. CASE bridge[1].reg = "fifowr"
    <3>1. \/ fifo' = fifo
          \/ fifo' = Append(fifo, bridge[1].word) /\ Len(fifo) # Depth
      BY <1>2, <2>2 DEF Deliver
    <3>2. CASE fifo' = Append(fifo, bridge[1].word) /\ Len(fifo) # Depth
      BY <3>2, <1>3, <1>4, PortAssumption
    <3>3. QED
      BY <3>1, <3>2, <1>4
  <2>3. QED
    BY <1>3, <2>1, <2>2
<1>6. bridge[1].reg = "status" =>
        /\ irqena' = bridge[1].irq
        /\ fiforst' = bridge[1].rst
        /\ ~bridge[1].rst => fifo' = fifo
        /\ Len(fifo') <= Len(fifo)
        /\ fifo = <<>> => fifo' = <<>>
  BY <1>2, <1>4 DEF Deliver
<1>7. bridge[1].reg = "fifowr" =>
        /\ irqena' = irqena /\ fiforst' = fiforst
        /\ Len(fifo') <= Len(fifo) + 1
  BY <1>2, <1>3, <1>4 DEF Deliver
<1>8. QED
  BY <1>1, <1>2, <1>5, <1>6, <1>7 DEF Deliver

(* A sample period only ever takes from the FIFO.                          *)
LEMMA TickStep ==
  ASSUME PortTypeOK, Tick
  PROVE  /\ fifo' \in Seq(Word)
         /\ Len(fifo') <= Len(fifo)
         /\ fifo = <<>> => fifo' = <<>>
         /\ dac' \in Word
         /\ UNCHANGED <<bridge, irqena, fiforst>>
  BY PortAssumption DEF Tick, PortTypeOK
-----------------------------------------------------------------------------
(***************************************************************************)
(* The effect of each kind of step on the parts of the invariant that are  *)
(* about the port.                                                         *)
(***************************************************************************)

(* A step that leaves the port alone.                                      *)
LEMMA PortKept ==
  ASSUME UNCHANGED portVars
  PROVE  /\ PortTypeOK' = PortTypeOK
         /\ BridgeInv' = BridgeInv
         /\ NoData' = NoData
         /\ Off' = Off
         /\ OnAtLast' = OnAtLast
         /\ SettlesTo(TRUE)' = SettlesTo(TRUE)
         /\ SettlesTo(FALSE)' = SettlesTo(FALSE)
         /\ Irq' = Irq
         /\ PLAY' = PLAY
         /\ Flushed' = Flushed
  BY DEF portVars, PortTypeOK, BridgeInv, NoData, Off, OnAtLast, SettlesTo,
         Irq, PLAY, Flushed

(* A status write is posted.                                               *)
LEMMA StatusPosted ==
  ASSUME PortTypeOK, BridgeInv, NEW b \in BOOLEAN,
         Post(Status(b, FALSE)), UNCHANGED <<irqena, fiforst, fifo, dac>>
  PROVE  /\ PortTypeOK'
         /\ BridgeInv'
         /\ NoData => NoData'
         /\ ~b /\ Off => Off'
         /\ Off => OnAtLast'
         /\ SettlesTo(b)'
         /\ Irq' = Irq
         /\ bridge' # <<>>
<1> DEFINE c == Status(b, FALSE)
<1>1. c \in Command
  BY PortAssumption DEF Status, Command
<1>2. /\ bridge \in Seq(Command)
      /\ Len(bridge) \in Nat
      /\ Len(bridge) <= BridgeDepth
  BY DEF PortTypeOK
<1>3. /\ bridge' \in Seq(Command)
      /\ Len(bridge') <= BridgeDepth
      /\ Len(bridge') = Len(bridge) + 1
      /\ bridge' # <<>>
      /\ \A k \in 1..Len(bridge) : bridge'[k] = bridge[k]
      /\ bridge'[Len(bridge) + 1] = c
  BY <1>1, <1>2, PostStep
<1>4. c.reg = "status" /\ c.irq = b /\ c.rst = FALSE
  BY DEF Status
<1> HIDE DEF c
<1>5. PortTypeOK'
  BY <1>3 DEF PortTypeOK
<1>6. BridgeInv'
  <2>1. \A k \in 1..Len(bridge') : ~bridge'[k].rst
    BY <1>2, <1>3, <1>4 DEF BridgeInv
  <2>2. ASSUME NEW j \in 1..Len(bridge'), NEW k \in 1..Len(bridge'),
               j < k, bridge'[j].irq
        PROVE  bridge'[k].reg = "status"
    <3>1. j \in 1..Len(bridge)
      BY <1>2, <1>3, <2>2
    <3>2. CASE k \in 1..Len(bridge)
      BY <1>3, <2>2, <3>1, <3>2 DEF BridgeInv
    <3>3. CASE k = Len(bridge) + 1
      BY <1>3, <1>4, <3>3
    <3>4. QED
      BY <1>2, <1>3, <3>2, <3>3
  <2>3. irqena' => NoData'
    BY <1>2, <1>3, <1>4 DEF BridgeInv, NoData
  <2>4. \A k \in 1..Len(bridge') :
          bridge'[k].reg = "fifowr" => Len(fifo') + k <= Depth
    BY <1>2, <1>3, <1>4 DEF BridgeInv
  <2>5. QED
    BY <2>1, <2>2, <2>3, <2>4 DEF BridgeInv
<1>7. NoData => NoData'
  BY <1>2, <1>3, <1>4 DEF NoData
<1>8. ~b /\ Off => Off'
  BY <1>2, <1>3, <1>4 DEF Off
<1>9. SettlesTo(b)'
  BY <1>2, <1>3, <1>4 DEF SettlesTo
<1>10. Off => OnAtLast'
  BY <1>2, <1>3, <1>4 DEF Off, OnAtLast
<1>11. QED
  BY <1>3, <1>5, <1>6, <1>7, <1>8, <1>9, <1>10 DEF Irq

(* A word is posted, with the interrupt off and room in the FIFO.          *)
LEMMA WordPosted ==
  ASSUME PortTypeOK, BridgeInv, NEW w \in Word, Off, ~fiforst,
         Len(fifo) + Len(bridge) < Depth,
         Post(FifoWr(w)), UNCHANGED <<irqena, fiforst, fifo, dac>>
  PROVE  /\ PortTypeOK'
         /\ BridgeInv'
         /\ Off'
         /\ Len(bridge') = Len(bridge) + 1
         /\ bridge' # <<>>
<1> DEFINE c == FifoWr(w)
<1>1. c \in Command
  BY DEF FifoWr, Command
<1>2. /\ bridge \in Seq(Command)
      /\ Len(bridge) \in Nat
      /\ Len(bridge) <= BridgeDepth
      /\ Len(fifo) \in Nat
  BY DEF PortTypeOK
<1>3. /\ bridge' \in Seq(Command)
      /\ Len(bridge') <= BridgeDepth
      /\ Len(bridge') = Len(bridge) + 1
      /\ bridge' # <<>>
      /\ \A k \in 1..Len(bridge) : bridge'[k] = bridge[k]
      /\ bridge'[Len(bridge) + 1] = c
  BY <1>1, <1>2, PostStep
<1>4. c.reg = "fifowr" /\ c.irq = FALSE /\ c.rst = FALSE
  BY DEF FifoWr
<1> HIDE DEF c
<1>5. PortTypeOK'
  BY <1>3 DEF PortTypeOK
<1>6. Off'
  BY <1>2, <1>3, <1>4 DEF Off
<1>7. BridgeInv'
  <2>1. \A k \in 1..Len(bridge') : ~bridge'[k].rst
    BY <1>2, <1>3, <1>4 DEF BridgeInv
  <2>2. \A k \in 1..Len(bridge') :
          bridge'[k].reg = "fifowr" => Len(fifo') + k <= Depth
    <3>1. Depth \in Nat
      BY PortAssumption
    <3>2. QED
      BY <1>2, <1>3, <1>4, <3>1 DEF BridgeInv
  <2>3. QED
    BY <1>6, <2>1, <2>2 DEF BridgeInv, Off
<1>8. QED
  BY <1>3, <1>5, <1>6, <1>7

(* A posted write lands.                                                   *)
LEMMA Landed ==
  ASSUME PortTypeOK, BridgeInv, Deliver, fiforst => ~irqena /\ NoData
  PROVE  /\ PortTypeOK'
         /\ BridgeInv'
         /\ NoData => /\ NoData'
                      /\ Len(fifo') <= Len(fifo)
                      /\ fifo = <<>> => fifo' = <<>>
         /\ Off => Off'
         /\ OnAtLast => OnAtLast'
         /\ SettlesTo(TRUE) => SettlesTo(TRUE)'
         /\ SettlesTo(FALSE) => SettlesTo(FALSE)'
         /\ Len(fifo') + Len(bridge') <= Len(fifo) + Len(bridge)
         /\ ~fiforst'
<1>1. /\ bridge # <<>>
      /\ bridge' \in Seq(Command)
      /\ Len(bridge') = Len(bridge) - 1
      /\ \A k \in 1..Len(bridge') : bridge'[k] = bridge[k + 1]
      /\ bridge[1] \in Command
      /\ fifo' \in Seq(Word)
      /\ Len(fifo') <= Depth
      /\ bridge[1].reg = "status" =>
           /\ irqena' = bridge[1].irq
           /\ fiforst' = bridge[1].rst
           /\ ~bridge[1].rst => fifo' = fifo
           /\ Len(fifo') <= Len(fifo)
           /\ fifo = <<>> => fifo' = <<>>
      /\ bridge[1].reg = "fifowr" =>
           /\ irqena' = irqena /\ fiforst' = fiforst
           /\ Len(fifo') <= Len(fifo) + 1
      /\ dac' = dac
  BY DeliverStep
<1>2. /\ bridge \in Seq(Command)
      /\ Len(bridge) \in Nat \ {0}
      /\ Len(bridge) <= BridgeDepth
      /\ BridgeDepth \in Nat
      /\ Len(fifo) \in Nat /\ Len(fifo') \in Nat
      /\ Depth \in Nat
      /\ irqena \in BOOLEAN /\ fiforst \in BOOLEAN /\ dac \in Word
  BY <1>1, PortAssumption DEF PortTypeOK
<1>3. /\ bridge[1].reg \in {"status", "fifowr"}
      /\ bridge[1].irq \in BOOLEAN
      /\ bridge[1].rst = FALSE
  BY <1>1, <1>2 DEF Command, BridgeInv
<1>4. PortTypeOK'
  <2>1. irqena' \in BOOLEAN /\ fiforst' \in BOOLEAN
    BY <1>1, <1>2, <1>3
  <2>2. Len(bridge') <= BridgeDepth
    BY <1>1, <1>2
  <2>3. QED
    BY <1>1, <1>2, <2>1, <2>2 DEF PortTypeOK
<1>5. Len(fifo') + Len(bridge') <= Len(fifo) + Len(bridge)
  BY <1>1, <1>2, <1>3
<1>6. NoData => NoData' /\ bridge[1].reg = "status"
  BY <1>1, <1>2 DEF NoData
<1>7. BridgeInv'
  <2>1. \A k \in 1..Len(bridge') : ~bridge'[k].rst
    BY <1>1, <1>2 DEF BridgeInv
  <2>2. ASSUME NEW j \in 1..Len(bridge'), NEW k \in 1..Len(bridge'),
               j < k, bridge'[j].irq
        PROVE  bridge'[k].reg = "status"
    <3>1. j + 1 \in 1..Len(bridge) /\ k + 1 \in 1..Len(bridge) /\ j + 1 < k + 1
      BY <1>1, <1>2, <2>2
    <3>2. bridge[j + 1].irq
      BY <1>1, <2>2
    <3>3. bridge[k + 1].reg = "status"
      BY <3>1, <3>2 DEF BridgeInv
    <3>4. QED
      BY <1>1, <3>3
  <2>3. ASSUME irqena', NEW k \in 1..Len(bridge')
        PROVE  bridge'[k].reg = "status"
    <3>1. k + 1 \in 1..Len(bridge) /\ 1 \in 1..Len(bridge) /\ 1 < k + 1
      BY <1>1, <1>2
    <3>2. bridge[k + 1].reg = "status"
      <4>1. CASE bridge[1].reg = "status"
        BY <1>1, <2>3, <3>1, <4>1 DEF BridgeInv
      <4>2. CASE bridge[1].reg = "fifowr"
        BY <1>1, <2>3, <3>1, <4>2 DEF BridgeInv, NoData
      <4>3. QED
        BY <1>3, <4>1, <4>2
    <3>3. QED
      BY <1>1, <3>2
  <2>4. ASSUME NEW k \in 1..Len(bridge'), bridge'[k].reg = "fifowr"
        PROVE  Len(fifo') + k <= Depth
    <3>1. k + 1 \in 1..Len(bridge) /\ bridge[k + 1].reg = "fifowr"
      BY <1>1, <1>2, <2>4
    <3>2. Len(fifo) + (k + 1) <= Depth
      BY <3>1 DEF BridgeInv
    <3>3. QED
      BY <1>1, <1>2, <1>3, <3>2
  <2>5. QED
    BY <2>1, <2>2, <2>3, <2>4 DEF BridgeInv, NoData
<1>8. Off => Off'
  BY <1>1, <1>2, <1>3 DEF Off
<1>9. ASSUME NEW b \in BOOLEAN, SettlesTo(b)
      PROVE  SettlesTo(b)'
  <2>1. CASE bridge' = <<>>
    <3>1. Len(bridge) = 1
      BY <1>1, <1>2, <2>1
    <3>2. bridge[1].reg = "status" /\ bridge[1].irq = b
      BY <1>1, <1>9, <3>1 DEF SettlesTo
    <3>3. QED
      BY <1>1, <2>1, <3>2 DEF SettlesTo
  <2>2. CASE bridge' # <<>>
    <3>1. Len(bridge') \in 1..Len(bridge')
      BY <1>1, <2>2
    <3>2. bridge'[Len(bridge')] = bridge[Len(bridge)]
      BY <1>1, <1>2, <3>1
    <3>3. QED
      BY <1>1, <1>9, <2>2, <3>2 DEF SettlesTo
  <2>3. QED
    BY <2>1, <2>2
<1>10. ~fiforst'
  BY <1>1, <1>2, <1>3 DEF NoData
<1>11. OnAtLast => OnAtLast'
  <2> SUFFICES ASSUME OnAtLast
               PROVE  OnAtLast'
    OBVIOUS
  <2>1. ~irqena
    BY <1>1 DEF OnAtLast
  <2>2. irqena' => bridge' = <<>>
    <3>1. CASE bridge[1].irq /\ bridge[1].reg = "status"
      <4> 1 \in 1..Len(bridge)
        BY <1>2
      <4>1. Len(bridge) = 1
        BY <3>1 DEF OnAtLast
      <4>2. Len(bridge') = 0
        BY <1>1, <4>1
      <4>3. bridge' # <<>> => Len(bridge') \in Nat \ {0}
        BY <1>1, EmptySeq
      <4>4. bridge' = <<>>
        BY <4>2, <4>3
      <4>5. QED
        BY <4>4
    <3>2. QED
      BY <1>1, <1>3, <2>1, <3>1
  <2>3. ASSUME NEW k \in 1..Len(bridge'), bridge'[k].irq
        PROVE  k = Len(bridge')
    <3>1. k + 1 \in 1..Len(bridge) /\ bridge[k + 1].irq
      BY <1>1, <1>2, <2>3
    <3>2. QED
      BY <1>1, <1>2, <3>1 DEF OnAtLast
  <2>4. QED
    BY <2>2, <2>3 DEF OnAtLast
<1>12. QED
  BY <1>1, <1>4, <1>5, <1>6, <1>7, <1>8, <1>9, <1>10, <1>11

(* A sample period passes.                                                 *)
LEMMA Sampled ==
  ASSUME PortTypeOK, BridgeInv, Tick
  PROVE  /\ PortTypeOK'
         /\ BridgeInv'
         /\ Len(fifo') <= Len(fifo)
         /\ fifo = <<>> => fifo' = <<>>
         /\ UNCHANGED <<bridge, irqena, fiforst>>
         /\ NoData' = NoData
         /\ Off' = Off
         /\ OnAtLast' = OnAtLast
         /\ SettlesTo(TRUE)' = SettlesTo(TRUE)
         /\ SettlesTo(FALSE)' = SettlesTo(FALSE)
         /\ Irq => Irq'
<1>1. /\ fifo' \in Seq(Word)
      /\ Len(fifo') <= Len(fifo)
      /\ fifo = <<>> => fifo' = <<>>
      /\ dac' \in Word
      /\ UNCHANGED <<bridge, irqena, fiforst>>
  BY TickStep
<1>2. /\ Len(fifo) \in Nat /\ Len(fifo') \in Nat
      /\ Depth \in Nat /\ Threshold \in Nat
      /\ Len(fifo) <= Depth
  BY <1>1, PortAssumption DEF PortTypeOK
<1>3. PortTypeOK'
  BY <1>1, <1>2 DEF PortTypeOK
<1>4. NoData' = NoData /\ Off' = Off /\ OnAtLast' = OnAtLast
  BY <1>1 DEF NoData, Off, OnAtLast
<1>5. /\ SettlesTo(TRUE)' = SettlesTo(TRUE)
      /\ SettlesTo(FALSE)' = SettlesTo(FALSE)
  BY <1>1 DEF SettlesTo
<1>6. Irq => Irq'
  BY <1>1, <1>2 DEF Irq
<1>7. BridgeInv'
  <2>1. \A k \in 1..Len(bridge) :
          bridge[k].reg = "fifowr" => Len(fifo') + k <= Depth
    BY <1>1, <1>2 DEF BridgeInv
  <2>2. QED
    BY <1>1, <1>4, <2>1 DEF BridgeInv
<1>8. QED
  BY <1>1, <1>3, <1>4, <1>5, <1>6, <1>7

-----------------------------------------------------------------------------
(***************************************************************************)
(* The invariant is inductive.                                             *)
(***************************************************************************)

(* The player starts at rest, with an empty bridge and a silent FIFO.      *)
LEMMA InitEstablishes ==
  ASSUME Init
  PROVE  IInv
<1>1. TypeOK
  <2>1. /\ bridge \in Seq(Command) /\ Len(bridge) = 0
        /\ fifo \in Seq(Word) /\ Len(fifo) = 0
    <3>1. bridge = <<>> /\ fifo = <<>>
      BY DEF Init, PortInit
    <3>2. <<>> \in Seq(Command) /\ Len(<<>>) = 0
      BY EmptySeq, Zenon
    <3>3. <<>> \in Seq(Word)
      BY EmptySeq, Zenon
    <3>4. QED
      BY <3>1, <3>2, <3>3, Zenon
  <2>2. PortTypeOK
    <3>1. 0 <= Depth /\ 0 <= BridgeDepth /\ Silence \in Word
      BY PortAssumption
    <3>2. /\ irqena = FALSE /\ fiforst = TRUE /\ dac = Silence
      BY DEF Init, PortInit
    <3>3. QED
      BY <2>1, <3>1, <3>2 DEF PortTypeOK
  <2>3. /\ rt \in [Ctx -> Dispatch \union Hung \union Body \union {"idle"}]
        /\ n \in [Ctx -> 0..Burst] /\ i \in [Ctx -> 0..Burst]
        /\ eof \in [Ctx -> BOOLEAN]
        /\ g_datbuff \in [1..Burst -> Word]
    BY PortAssumption, PlayerAssumption DEF Init
  <2>4. /\ g_fsobj \in FileObject
        /\ ready \in BOOLEAN /\ stat \in BOOLEAN /\ torn \in BOOLEAN
    BY DEF Init, FileObject
  <2>5. Len(Listing) \in Nat
    BY PlayerAssumption
  <2>6. /\ g_wavsize \in 0..UintMod - 1 /\ g_playsize \in 0..UintMod - 1
        /\ dir \in 0..Len(Listing) + 1 /\ due \in Nat
        /\ fwav \in Files \union {NoFile}
    BY <2>5, PlayerAssumption DEF Init
  <2>7. QED
    BY <2>2, <2>3, <2>4, <2>6 DEF Init, TypeOK, Labels, FsCall
<1>2. Len(bridge) = 0
  BY EmptySeq DEF Init, PortInit
<1>3. QED
  BY <1>1, <1>2, PortAssumption
  DEF Init, PortInit, IInv, ControlInv, BridgeInv, ResetInv, HandlerInv,
      BurstInv, FileInv, QuietInv, LoudInv, PlayInv, StopInv, NoData, Off,
      OnAtLast, SettlesTo, Loud, Stopping, Ctx

(* The directory walk and the calls that open a file.                      *)
LEMMA WalkKeeps ==
  ASSUME IInv, NoName \/ GetName \/ OpenDir \/ Open \/ ReadHeader
               \/ CloseHeader
  PROVE  IInv'
<1>1. /\ TypeOK /\ ControlInv /\ FileInv /\ QuietInv /\ StopInv
      /\ BridgeInv /\ ResetInv
  BY DEF IInv
<1>2. /\ UNCHANGED portVars /\ UNCHANGED isrVars
      /\ UNCHANGED <<g_wavsize, g_playsize, g_datbuff, after, due, stat>>
      /\ pc \in {"f_readdir", "f_opendir", "f_open", "f_read", "f_close"}
      /\ pc' \in {"f_readdir", "f_opendir", "f_open", "f_read", "f_close",
                  "load", "poll", "exit"}
  BY DEF NoName, GetName, OpenDir, Open, ReadHeader, CloseHeader, playVars
<1>3. /\ rt["irq"] = "idle" /\ rt["main"] = "idle"
      /\ g_wavsize = 0 /\ Off /\ NoData /\ fifo = <<>>
  BY <1>1, <1>2 DEF ControlInv, QuietInv, Loud, Stopping, NoName, GetName,
                    OpenDir, Open, ReadHeader, CloseHeader, MainRuns
<1>4. /\ g_fsobj' \in FileObject
      /\ g_fsobj'.open => g_fsobj.open /\ g_fsobj' = g_fsobj
      /\ ready' \in BOOLEAN
      /\ ready' /\ g_fsobj'.open => ready
  BY <1>1 DEF NoName, GetName, OpenDir, Open, ReadHeader, CloseHeader,
              playVars, Kept, Remounted, Works, TypeOK, FileObject
<1>5. Len(Listing) \in Nat /\ \A k \in 1..Len(Listing) : Listing[k] \in Files
  BY PlayerAssumption
<1>6. /\ dir' \in 0..Len(Listing) + 1
      /\ fwav' \in Files \union {NoFile}
      /\ pc' \in {"f_open", "f_read", "f_close", "load"} => fwav' \in Files
      /\ torn' \in BOOLEAN
  <2>1. \/ dir' = 0 \/ dir' = 1 \/ dir' = dir
        \/ dir' = dir + 1 /\ dir \in 1..Len(Listing)
    <3>1. CASE NoName \/ ReadHeader \/ CloseHeader
      BY <3>1 DEF NoName, ReadHeader, CloseHeader
    <3>2. CASE GetName
      BY <3>2 DEF GetName
    <3>3. CASE OpenDir
      BY <3>3 DEF OpenDir
    <3>4. CASE Open
      BY <3>4 DEF Open
    <3>5. QED
      BY <3>1, <3>2, <3>3, <3>4
  <2>2. dir' \in 0..Len(Listing) + 1
    BY <1>1, <1>5, <2>1 DEF TypeOK
  <2>3. torn' = FALSE
    BY DEF NoName, GetName, OpenDir, Open, ReadHeader, CloseHeader
  <2>4. CASE GetName
    BY <1>5, <2>2, <2>3, <2>4 DEF GetName
  <2>5. CASE ~GetName
    <3>1. fwav' = fwav
      BY <2>5
      DEF NoName, OpenDir, Open, ReadHeader, CloseHeader, playVars
    <3>2. pc' \in {"f_open", "f_read", "f_close", "load"} => fwav \in Files
      BY <1>1, <2>5
      DEF NoName, OpenDir, Open, ReadHeader, CloseHeader, FileInv
    <3>3. QED
      BY <1>1, <2>2, <2>3, <3>1, <3>2 DEF TypeOK
  <2>6. QED
    BY <2>4, <2>5
<1>7. TypeOK'
  BY <1>1, <1>2, <1>4, <1>6, PortKept
  DEF TypeOK, Labels, FsCall, isrVars
<1>8. /\ NoData' /\ Off' /\ BridgeInv' /\ fifo' = <<>>
      /\ rt' = rt /\ bridge' = bridge /\ fiforst' = fiforst /\ irqena' = irqena
      /\ i' = i
  BY <1>1, <1>2, <1>3, PortKept DEF portVars, isrVars
<1>9. \A c \in Ctx : rt'[c] = "idle"
  BY <1>3, <1>8 DEF Ctx
<1>10. ControlInv' /\ QuietInv' /\ LoudInv' /\ StopInv'
  BY <1>1, <1>2, <1>3, <1>8, <1>9
  DEF ControlInv, QuietInv, LoudInv, StopInv, Ctx, Loud, Stopping
<1>11. FileInv'
  BY <1>1, <1>2, <1>3, <1>4, <1>6, <1>9 DEF FileInv
<1>12. ResetInv' /\ \A c \in Ctx : HandlerInv(c)' /\ BurstInv(c)'
  BY <1>1, <1>8, <1>9 DEF ResetInv, HandlerInv, BurstInv
<1>13. PlayInv'
  BY <1>2, <1>3, <1>8, <1>9 DEF PlayInv, Off, OnAtLast, Ctx, Dispatch, Hung
<1>14. QED
  BY <1>7, <1>8, <1>10, <1>11, <1>12, <1>13 DEF IInv

(* Only one context is in the handler.                                     *)
LEMMA OneHandler ==
  ASSUME ControlInv, NEW c \in Ctx, rt[c] # "idle"
  PROVE  /\ \A d \in Ctx : d # c => rt[d] = "idle"
         /\ c = "main" => pc = "kick" /\ pc \notin Loud
         /\ c = "irq" => pc # "kick" /\ pc \in Loud
  BY DEF ControlInv, Ctx, Loud, Stopping

(* play_wav takes the file over.                                           *)
LEMMA LoadKeeps ==
  ASSUME IInv, Load
  PROVE  IInv'
<1>1. /\ TypeOK /\ ControlInv /\ FileInv /\ QuietInv /\ StopInv
      /\ BridgeInv /\ ResetInv
  BY DEF IInv
<1>2. /\ pc = "load" /\ rt["irq"] = "idle" /\ rt["main"] = "idle"
      /\ g_wavsize = 0 /\ Off /\ NoData /\ fifo = <<>>
  BY <1>1 DEF Load, MainRuns, ControlInv, QuietInv, Loud, Stopping
<1>3. /\ UNCHANGED portVars
      /\ g_fsobj' = [file |-> fwav, pos |-> 0, open |-> TRUE]
      /\ g_wavsize' = WavSize[fwav]
      /\ g_playsize' = 0
      /\ due' = 0
      /\ pc' = "kick"
      /\ rt' = [rt EXCEPT !["main"] = "isr"]
      /\ UNCHANGED <<after, g_datbuff, fwav, n, i, eof, fsVars>>
  BY <1>2 DEF Load
<1>4. /\ fwav \in Files
      /\ WavSize[fwav] \in 0..UintMod - 1
      /\ DataLen[fwav] \in Nat
      /\ UintMod \in Nat /\ 0 < UintMod
      /\ Threshold \in Nat /\ 0 < Threshold
  BY <1>1, <1>2, PortAssumption, PlayerAssumption DEF FileInv
<1>5. /\ rt' \in [Ctx -> Dispatch \union Hung \union Body \union {"idle"}]
      /\ rt'["main"] = "isr" /\ rt'["irq"] = "idle"
  BY <1>1, <1>2, <1>3 DEF TypeOK, Ctx, Body
<1>6. /\ NoData' /\ Off' /\ BridgeInv' /\ PortTypeOK' /\ fifo' = <<>>
      /\ bridge' = bridge /\ fiforst' = fiforst /\ irqena' = irqena
  BY <1>1, <1>2, <1>3, PortKept DEF portVars, TypeOK
<1>7. Len(fifo') < Threshold
  <2>1. Len(fifo') = 0
    BY <1>6, EmptySeq
  <2>2. QED
    BY <1>4, <2>1
<1>8. TypeOK'
  <2>1. g_fsobj' \in FileObject
    BY <1>3, <1>4 DEF FileObject
  <2>2. QED
    BY <1>1, <1>3, <1>4, <1>5, <1>6, <2>1 DEF TypeOK, Labels, fsVars
<1>9. ControlInv'
  BY <1>3, <1>5 DEF ControlInv, Body
<1>10. ResetInv' /\ \A c \in Ctx : HandlerInv(c)' /\ BurstInv(c)'
  BY <1>1, <1>5, <1>6, <1>7 DEF ResetInv, HandlerInv, BurstInv, Ctx
<1>11. FileInv'
  BY <1>3, <1>4, <1>5 DEF FileInv, Ctx
<1>12. QuietInv' /\ LoudInv' /\ PlayInv' /\ StopInv'
  BY <1>1, <1>3, <1>5, <1>6
  DEF QuietInv, LoudInv, PlayInv, StopInv, Loud, Stopping
<1>13. QED
  BY <1>6, <1>8, <1>9, <1>10, <1>11, <1>12 DEF IInv

(* The main loop, and what play_stop does apart from its masking write.    *)
LEMMA LoopKeeps ==
  ASSUME IInv, Poll \/ Key \/ Release \/ StopTest \/ StopEnter
               \/ StopClose \/ StopClear \/ StopWait
  PROVE  IInv'
<1>1. /\ TypeOK /\ ControlInv /\ FileInv /\ LoudInv /\ PlayInv /\ StopInv
      /\ BridgeInv /\ ResetInv
  BY DEF IInv
<1>2. /\ UNCHANGED portVars /\ UNCHANGED isrVars
      /\ UNCHANGED <<g_playsize, g_datbuff, fwav, due, dir>>
      /\ pc \in Loud /\ pc # "stop"
      /\ pc' \in Loud \union {"f_readdir"}
      /\ MainRuns
  BY <1>1
  DEF Poll, Key, Release, StopTest, StopEnter, StopClose, StopClear, StopWait,
      playVars, fsVars, Loud, Stopping, StopInv
<1>3. /\ rt["irq"] = "idle" /\ rt["main"] = "idle" /\ ~Irq
  BY <1>1, <1>2 DEF ControlInv, MainRuns, Loud, Stopping
<1>4. /\ g_fsobj' \in FileObject
      /\ ready' \in BOOLEAN /\ stat' \in BOOLEAN /\ torn' \in BOOLEAN
      /\ g_wavsize' \in {0, g_wavsize}
      /\ after' = "release"
      /\ pc' \notin {"kick", "clear", "wait"} =>
            g_wavsize' = g_wavsize /\ g_fsobj' = g_fsobj /\ ready' = ready
  BY <1>1
  DEF Poll, Key, Release, StopTest, StopEnter, StopClose, StopClear, StopWait,
      playVars, fsVars, TypeOK, FileObject, StopInv
<1>5. /\ g_fsobj'.open =>
           /\ g_fsobj.open
           /\ g_fsobj'.file = g_fsobj.file /\ g_fsobj'.pos = g_fsobj.pos
      /\ \/ ~(g_fsobj'.open /\ ready')
         \/ g_wavsize' = g_wavsize /\ g_fsobj'.open = g_fsobj.open
               /\ ready' = ready
      /\ pc' = "clear" => ~(g_fsobj'.open /\ ready')
      /\ pc' = "wait" => g_wavsize' = 0
  <2>1. CASE Poll \/ Key \/ Release \/ StopTest \/ StopEnter \/ StopWait
    <3>1. UNCHANGED <<g_fsobj, g_wavsize, ready>>
      BY <2>1
      DEF Poll, Key, Release, StopTest, StopEnter, StopWait, playVars, fsVars
    <3>2. /\ pc' = "clear" => ~g_fsobj.open
          /\ pc' = "wait" => g_wavsize = 0
      BY <1>1, <2>1
      DEF Poll, Key, Release, StopTest, StopEnter, StopWait, StopInv
    <3>3. QED
      BY <3>1, <3>2
  <2>2. CASE StopClose
    <3>1. /\ pc' = "clear"
          /\ g_fsobj' = [g_fsobj EXCEPT !.open = g_fsobj.open /\ ~ready']
      BY <2>2 DEF StopClose
    <3>2. /\ g_fsobj'.open = (g_fsobj.open /\ ~ready')
          /\ g_fsobj'.file = g_fsobj.file /\ g_fsobj'.pos = g_fsobj.pos
      BY <1>1, <3>1 DEF TypeOK, FileObject
    <3>3. QED
      BY <3>1, <3>2
  <2>3. CASE StopClear
    BY <1>1, <2>3 DEF StopClear, fsVars, StopInv
  <2>4. QED
    BY <2>1, <2>2, <2>3
<1>6. TypeOK'
  <2>1. pc' \in Labels
    BY <1>2 DEF Loud, Stopping, Labels, FsCall
  <2>2. UintMod \in Nat /\ 0 < UintMod
    BY PlayerAssumption
  <2>3. g_wavsize' \in 0..UintMod - 1
    BY <1>1, <1>4, <2>2 DEF TypeOK
  <2>4. QED
    BY <1>1, <1>2, <1>4, <2>1, <2>3, PortKept DEF TypeOK, isrVars
<1>7. /\ NoData' = NoData /\ Off' = Off /\ OnAtLast' = OnAtLast
      /\ SettlesTo(TRUE)' = SettlesTo(TRUE)
      /\ BridgeInv' /\ fifo' = fifo /\ rt' = rt
      /\ bridge' = bridge /\ fiforst' = fiforst /\ irqena' = irqena
  BY <1>1, <1>2, PortKept DEF portVars, isrVars
<1>8. \A c \in Ctx : rt'[c] = "idle"
  BY <1>3, <1>7 DEF Ctx
<1>9. ResetInv' /\ \A c \in Ctx : HandlerInv(c)' /\ BurstInv(c)'
  BY <1>1, <1>7, <1>8 DEF ResetInv, HandlerInv, BurstInv
<1>10. ControlInv' /\ StopInv'
  BY <1>2, <1>4, <1>5, <1>8
  DEF ControlInv, StopInv, Ctx, Loud, Stopping
<1>11. FileInv'
  <2>1. pc' \notin {"f_open", "f_read", "f_close", "load"}
    BY <1>2 DEF Loud, Stopping
  <2>2. g_fsobj'.open => /\ g_fsobj'.file \in Files
                         /\ g_fsobj'.pos <= DataLen[g_fsobj'.file]
    BY <1>1, <1>5 DEF FileInv
  <2>3. g_playsize' <= g_wavsize' \/ g_wavsize' = 0
    BY <1>1, <1>2, <1>4 DEF FileInv
  <2>4. g_wavsize' = 0 => ~(g_fsobj'.open /\ ready')
    BY <1>1, <1>2, <1>5 DEF FileInv, Loud, Stopping
  <2>5. \A c \in Ctx : rt'[c] # "send"
    BY <1>8
  <2>6. QED
    BY <2>1, <2>2, <2>3, <2>4, <2>5 DEF FileInv
<1>12. LoudInv'
  BY <1>1, <1>2, <1>3, <1>7 DEF LoudInv
(* What is on or not yet over keeps the main loop in it.                   *)
<1>13. ASSUME bridge = <<>>, ~Playing
       PROVE  Off /\ NoData /\ fifo = <<>>
  <2>1. /\ Len(bridge) = 0
        /\ fifo = <<>> => Len(fifo) = 0
        /\ 0 < Threshold
    BY <1>13, EmptySeq, PortAssumption
  <2>2. fifo = <<>>
    BY <1>1, <1>2, <1>13 DEF LoudInv, Playing, PLAY, TypeOK
  <2>3. ~irqena
    BY <1>3, <2>1, <2>2 DEF Irq
  <2>4. QED
    BY <2>1, <2>2, <2>3 DEF Off, NoData
<1>14. QuietInv'
  <2>1. CASE pc' \in Loud
    BY <2>1 DEF QuietInv
  <2>2. CASE pc' = "f_readdir"
    <3>1. pc = "poll" /\ bridge = <<>> /\ ~Playing
      BY <1>1, <2>2
      DEF Poll, Key, Release, StopTest, StopEnter, StopClose, StopClear,
          StopWait, Flushed, StopInv
    <3>2. Off /\ NoData /\ fifo = <<>>
      BY <1>13, <3>1
    <3>3. g_wavsize = 0
      <4>1. g_wavsize # 0 => SettlesTo(TRUE)
        BY <1>1, <1>3, <3>1 DEF PlayInv, Loud, Stopping, Dispatch
      <4>2. ~SettlesTo(TRUE)
        BY <3>1, <3>2 DEF SettlesTo, Off
      <4>3. QED
        BY <4>1, <4>2
    <3>4. g_wavsize' = 0
      BY <1>4, <3>3
    <3>5. QED
      BY <1>7, <2>2, <3>2, <3>4 DEF QuietInv
  <2>3. QED
    BY <1>2, <2>1, <2>2
<1>15. PlayInv'
  <2>1. CASE pc \notin Stopping /\ pc' \in Loud \ Stopping
    <3>1. g_wavsize' = g_wavsize /\ g_fsobj' = g_fsobj /\ ready' = ready
      BY <1>4, <2>1 DEF Loud, Stopping
    <3>2. /\ OnAtLast
          /\ g_wavsize # 0 => SettlesTo(TRUE)
          /\ ~Off => g_playsize < g_wavsize /\ g_fsobj.open /\ ready
      BY <1>1, <1>2, <1>3, <2>1 DEF PlayInv, Dispatch
    <3>3. QED
      BY <1>2, <1>3, <1>7, <3>1, <3>2 DEF PlayInv, Hung
  <2>2. CASE pc \in Stopping /\ pc' \in Loud \ Stopping
    <3>1. pc = "wait" /\ bridge = <<>> /\ ~Playing
      BY <2>2
      DEF Poll, Key, Release, StopTest, StopEnter, StopClose, StopClear,
          StopWait, Flushed, Stopping, Loud
    <3>2. Off /\ NoData
      BY <1>13, <3>1
    <3>3. g_wavsize' = 0
      BY <1>1, <1>4, <3>1 DEF StopInv
    <3>4. OnAtLast
      BY <3>1, <3>2 DEF OnAtLast, Off, NoData
    <3>5. QED
      BY <1>3, <1>7, <3>2, <3>3, <3>4 DEF PlayInv, Hung
  <2>3. QED
    BY <1>2, <2>1, <2>2 DEF PlayInv
<1>16. QED
  BY <1>6, <1>7, <1>9, <1>10, <1>11, <1>12, <1>14, <1>15 DEF IInv

(* play_stop posts its masking write.                                      *)
LEMMA StopMaskKeeps ==
  ASSUME IInv, StopMask
  PROVE  IInv'
<1>1. /\ TypeOK /\ ControlInv /\ FileInv /\ LoudInv /\ StopInv
      /\ BridgeInv /\ ResetInv /\ PortTypeOK
  BY DEF IInv, TypeOK
<1>2. /\ Post(Status(FALSE, FALSE))
      /\ UNCHANGED <<irqena, fiforst, fifo, dac, playVars, isrVars, fsVars>>
      /\ pc = "stop" /\ pc' = "test"
      /\ rt["irq"] = "idle" /\ rt["main"] = "idle"
  BY <1>1 DEF StopMask, MainRuns, ControlInv
<1>3. /\ PortTypeOK' /\ BridgeInv'
      /\ NoData => NoData'
      /\ Off => Off'
  BY <1>1, <1>2, StatusPosted
<1>4. \A c \in Ctx : rt'[c] = "idle"
  BY <1>2 DEF Ctx, isrVars
<1>5. TypeOK'
  BY <1>1, <1>2, <1>3
  DEF TypeOK, Labels, Stopping, playVars, isrVars, fsVars
<1>6. ControlInv' /\ StopInv'
  BY <1>1, <1>2, <1>4
  DEF ControlInv, StopInv, Ctx, playVars, isrVars
<1>7. ResetInv' /\ \A c \in Ctx : HandlerInv(c)' /\ BurstInv(c)'
  BY <1>1, <1>2, <1>3, <1>4 DEF ResetInv, HandlerInv, BurstInv
<1>8. FileInv'
  BY <1>1, <1>2, <1>4 DEF FileInv, playVars, fsVars
<1>9. QuietInv' /\ LoudInv' /\ PlayInv'
  BY <1>1, <1>2, <1>3, <1>4
  DEF QuietInv, LoudInv, PlayInv, Loud, Stopping, playVars, isrVars, Ctx
<1>10. QED
  BY <1>3, <1>5, <1>6, <1>7, <1>8, <1>9 DEF IInv
-----------------------------------------------------------------------------
(***************************************************************************)
(* The handler's steps.                                                    *)
(***************************************************************************)

(* Mask, and choose the burst.                                             *)
LEMMA IsrMaskKeeps ==
  ASSUME IInv, NEW c \in Ctx, IsrMask(c)
  PROVE  IInv'
<1>1. /\ TypeOK /\ ControlInv /\ FileInv /\ QuietInv /\ LoudInv /\ PlayInv
      /\ StopInv /\ BridgeInv /\ ResetInv /\ PortTypeOK
      /\ HandlerInv(c)
  BY DEF IInv, TypeOK
<1>2. /\ rt[c] = "isr"
      /\ Post(Status(FALSE, FALSE))
      /\ n' = [n EXCEPT ![c] = BurstOf(WordsLeft)]
      /\ eof' = [eof EXCEPT ![c] = Last(WordsLeft)]
      /\ i' = [i EXCEPT ![c] = 0]
      /\ rt' = [rt EXCEPT ![c] = "read"]
      /\ torn' = (torn \/ Intrudes(c))
      /\ UNCHANGED <<irqena, fiforst, fifo, dac, pc, playVars, ready, stat, dir>>
  BY DEF IsrMask
<1>3. /\ \A d \in Ctx : d # c => rt[d] = "idle"
      /\ c = "main" => pc = "kick" /\ pc \notin Loud
      /\ c = "irq" => pc # "kick" /\ pc \in Loud
  BY <1>1, <1>2, OneHandler
<1>4. /\ NoData /\ Len(fifo) < Threshold
      /\ PortTypeOK' /\ BridgeInv' /\ NoData'
      /\ Off => Off'
      /\ SettlesTo(FALSE)'
      /\ bridge' # <<>>
  BY <1>1, <1>2, StatusPosted DEF HandlerInv
<1>5. /\ rt' \in [Ctx -> Dispatch \union Hung \union Body \union {"idle"}]
      /\ rt'[c] = "read"
      /\ \A d \in Ctx : d # c => rt'[d] = "idle"
  BY <1>1, <1>2, <1>3 DEF TypeOK, Body
<1>6. /\ WordsLeft \in Nat
      /\ g_playsize <= g_wavsize =>
           /\ 4 * WordsLeft <= g_wavsize - g_playsize
  BY <1>1, PlayerAssumption DEF WordsLeft, TypeOK
<1>7. /\ n'[c] \in 0..Burst
      /\ n'[c] <= WordsLeft
      /\ i'[c] = 0
      /\ eof'[c] \in BOOLEAN
      /\ ~eof'[c] => n'[c] = Burst /\ Burst < WordsLeft
      /\ n' \in [Ctx -> 0..Burst] /\ i' \in [Ctx -> 0..Burst]
      /\ eof' \in [Ctx -> BOOLEAN]
  <2> DEFINE m == BurstOf(WordsLeft)
             e == Last(WordsLeft)
  <2>1. /\ m \in 0..Burst /\ m <= WordsLeft /\ 0 \in 0..Burst
        /\ e \in BOOLEAN
        /\ ~e => m = Burst /\ Burst < WordsLeft
    BY <1>6, PlayerAssumption DEF BurstOf, Last
  <2> HIDE DEF m, e
  <2>2. n' = [n EXCEPT ![c] = m] /\ eof' = [eof EXCEPT ![c] = e]
    BY <1>2 DEF m, e
  <2>3. n'[c] = m /\ eof'[c] = e /\ i'[c] = 0
    BY <1>1, <1>2, <2>2 DEF TypeOK
  <2>4. /\ n' \in [Ctx -> 0..Burst] /\ i' \in [Ctx -> 0..Burst]
        /\ eof' \in [Ctx -> BOOLEAN]
    BY <1>1, <1>2, <2>1, <2>2 DEF TypeOK
  <2>5. QED
    BY <2>1, <2>3, <2>4
<1>8. TypeOK'
  <2>1. torn' \in BOOLEAN
    BY <1>1, <1>2 DEF Intrudes, TypeOK
  <2>2. QED
    BY <1>1, <1>2, <1>4, <1>5, <1>7, <2>1 DEF TypeOK, playVars
<1>9. ControlInv'
  BY <1>1, <1>2, <1>3, <1>5 DEF ControlInv, Ctx, Body
<1>10. ResetInv' /\ HandlerInv(c)' /\ \A d \in Ctx : d # c => HandlerInv(d)'
  BY <1>1, <1>2, <1>4, <1>5, <1>7 DEF ResetInv, HandlerInv
<1>11. BurstInv(c)' /\ \A d \in Ctx : d # c => BurstInv(d)'
  <2>1. CASE g_fsobj.open /\ ready
    <3>1. g_playsize <= g_wavsize
      <4>1. CASE c = "main"
        BY <1>1, <1>2, <1>3, <4>1 DEF QuietInv, TypeOK
      <4>2. CASE c = "irq"
        BY <1>1, <1>3, <2>1, <4>2 DEF FileInv
      <4>3. QED
        BY <4>1, <4>2 DEF Ctx
    <3>2. g_playsize + 4 * n'[c] <= g_wavsize
      BY <1>1, <1>6, <1>7, <3>1, PlayerAssumption DEF TypeOK
    <3>3. ~eof'[c] => n'[c] = Burst /\ g_playsize + 4 * n'[c] < g_wavsize
      BY <1>1, <1>6, <1>7, <3>1, PlayerAssumption DEF TypeOK
    <3>4. QED
      BY <1>2, <1>5, <3>2, <3>3 DEF BurstInv, playVars
  <2>2. CASE ~(g_fsobj.open /\ ready)
    BY <1>2, <1>5, <2>2 DEF BurstInv, playVars
  <2>3. QED
    BY <2>1, <2>2
<1>12. FileInv' /\ StopInv'
  BY <1>1, <1>2, <1>5 DEF FileInv, StopInv, playVars
<1>13. QuietInv' /\ LoudInv' /\ PlayInv'
  <2>1. CASE c = "main"
    BY <1>1, <1>2, <1>3, <1>4, <1>5, <2>1
    DEF QuietInv, LoudInv, PlayInv, playVars
  <2>2. CASE c = "irq"
    BY <1>1, <1>2, <1>3, <1>4, <1>5, <2>2
    DEF QuietInv, LoudInv, PlayInv, playVars, Dispatch, Hung
  <2>3. QED
    BY <2>1, <2>2 DEF Ctx
<1>14. QED
  BY <1>4, <1>8, <1>9, <1>10, <1>11, <1>12, <1>13 DEF IInv

(* f_read fails.                                                           *)
LEMMA IsrReadErrorKeeps ==
  ASSUME IInv, NEW c \in Ctx, IsrReadError(c)
  PROVE  IInv'
<1>1. /\ TypeOK /\ ControlInv /\ FileInv /\ QuietInv /\ LoudInv /\ PlayInv
      /\ StopInv /\ BridgeInv /\ ResetInv /\ PortTypeOK
      /\ HandlerInv(c)
  BY DEF IInv, TypeOK
<1>2. /\ rt[c] = "read"
      /\ eof' = [eof EXCEPT ![c] = TRUE]
      /\ rt' = [rt EXCEPT ![c] = "close"]
      /\ ready' \in BOOLEAN
      /\ g_fsobj.open /\ ready' => ready
      /\ g_fsobj.open => bridge = <<>>
      /\ UNCHANGED <<portVars, pc, playVars, n, i, stat, torn, dir>>
  <2>1. /\ rt[c] = "read"
        /\ eof' = [eof EXCEPT ![c] = TRUE]
        /\ rt' = [rt EXCEPT ![c] = "close"]
        /\ UNCHANGED <<portVars, pc, playVars, n, i, stat, torn, dir>>
    BY DEF IsrReadError
  <2>2. \/ ~g_fsobj.open /\ ready' = ready
        \/ bridge = <<>> /\ ready' = ready
        \/ bridge = <<>> /\ ready /\ ready' \in BOOLEAN
    BY DEF IsrReadError, Flushed
  <2>3. g_fsobj.open \in BOOLEAN /\ ready \in BOOLEAN
    BY <1>1 DEF TypeOK, FileObject
  <2>4. /\ ready' \in BOOLEAN
        /\ g_fsobj.open /\ ready' => ready
        /\ g_fsobj.open => bridge = <<>>
    BY <2>2, <2>3
  <2>5. QED
    BY <2>1, <2>4
<1>3. /\ \A d \in Ctx : d # c => rt[d] = "idle"
      /\ c = "main" => pc = "kick" /\ pc \notin Loud
      /\ c = "irq" => pc # "kick" /\ pc \in Loud
  BY <1>1, <1>2, OneHandler
<1>4. /\ NoData' /\ PortTypeOK' /\ BridgeInv' /\ NoData
      /\ Off' = Off
      /\ UNCHANGED <<bridge, irqena, fiforst, fifo>>
  BY <1>1, <1>2, PortKept DEF HandlerInv, portVars
<1>5. /\ rt' \in [Ctx -> Dispatch \union Hung \union Body \union {"idle"}]
      /\ rt'[c] = "close"
      /\ \A d \in Ctx : d # c => rt'[d] = "idle"
  BY <1>1, <1>2, <1>3 DEF TypeOK, Body
<1>6. TypeOK'
  BY <1>1, <1>2, <1>4, <1>5 DEF TypeOK, playVars
<1>7. ControlInv'
  BY <1>1, <1>2, <1>3, <1>5 DEF ControlInv, Ctx, Body
<1>8. ResetInv' /\ \A d \in Ctx : HandlerInv(d)' /\ BurstInv(d)'
  BY <1>1, <1>4, <1>5 DEF ResetInv, HandlerInv, BurstInv
<1>9. FileInv' /\ StopInv'
  BY <1>1, <1>2, <1>5 DEF FileInv, StopInv, playVars
<1>10. bridge = <<>> => Off
  BY <1>1, <1>2, EmptySeq DEF HandlerInv, SettlesTo, Off, Command
<1>11. QuietInv' /\ LoudInv' /\ PlayInv'
  <2>1. CASE c = "main"
    BY <1>1, <1>2, <1>3, <1>4, <1>5, <2>1
    DEF QuietInv, LoudInv, PlayInv, playVars
  <2>2. CASE c = "irq"
    BY <1>1, <1>2, <1>3, <1>4, <1>5, <1>10, <2>2
    DEF QuietInv, LoudInv, PlayInv, playVars, Dispatch, Hung
  <2>3. QED
    BY <2>1, <2>2 DEF Ctx
<1>12. QED
  BY <1>4, <1>6, <1>7, <1>8, <1>9, <1>11 DEF IInv

(* f_read succeeds.                                                        *)
LEMMA IsrReadKeeps ==
  ASSUME IInv, NEW c \in Ctx, IsrRead(c)
  PROVE  IInv'
<1> DEFINE left == DataLen[g_fsobj.file] - g_fsobj.pos
           b == IF left < 4 * n[c] THEN left ELSE 4 * n[c]
<1>1. /\ TypeOK /\ ControlInv /\ FileInv /\ QuietInv /\ LoudInv /\ PlayInv
      /\ StopInv /\ BridgeInv /\ ResetInv /\ PortTypeOK
      /\ HandlerInv(c) /\ BurstInv(c)
  BY DEF IInv, TypeOK
<1>2. /\ rt[c] = "read" /\ g_fsobj.open /\ ready /\ bridge = <<>>
      /\ g_datbuff' = Filled(b)
      /\ g_fsobj' = [g_fsobj EXCEPT !.pos = g_fsobj.pos + b]
      /\ \/ /\ eof' = [eof EXCEPT ![c] = TRUE]
            /\ rt' = [rt EXCEPT ![c] = "close"]
         \/ /\ rt' = [rt EXCEPT ![c] = "send"]
            /\ eof' = eof
      /\ UNCHANGED <<portVars, pc, after, g_wavsize, g_playsize, fwav, due,
                     n, i, fsVars>>
  BY DEF IsrRead, Flushed
<1>3. /\ \A d \in Ctx : d # c => rt[d] = "idle"
      /\ c = "main" => pc = "kick" /\ pc \notin Loud
      /\ c = "irq" => pc # "kick" /\ pc \in Loud
  BY <1>1, <1>2, OneHandler
<1>4. /\ NoData' /\ PortTypeOK' /\ BridgeInv' /\ NoData
      /\ Off' = Off
      /\ UNCHANGED <<bridge, irqena, fiforst, fifo>>
  BY <1>1, <1>2, PortKept DEF HandlerInv, portVars
<1>5. /\ rt' \in [Ctx -> Dispatch \union Hung \union Body \union {"idle"}]
      /\ rt'[c] \in {"send", "close"}
      /\ \A d \in Ctx : d # c => rt'[d] = "idle"
      /\ eof' \in [Ctx -> BOOLEAN]
      /\ rt'[c] = "send" => eof' = eof
  BY <1>1, <1>2, <1>3 DEF TypeOK, Body
<1>6. /\ Len(bridge) = 0 /\ Off /\ ~fiforst
  BY <1>1, <1>2, EmptySeq DEF HandlerInv, SettlesTo, Off, ResetInv
<1>7. /\ g_fsobj.file \in Files /\ g_fsobj.pos \in Nat
      /\ DataLen[g_fsobj.file] \in Nat
      /\ n[c] \in 0..Burst /\ i[c] = 0
      /\ Burst \in Nat
      /\ b \in Nat
      /\ g_fsobj.pos + b <= DataLen[g_fsobj.file]
  <2>1. /\ g_fsobj.file \in Files /\ g_fsobj.pos \in Nat
        /\ g_fsobj.pos <= DataLen[g_fsobj.file]
    BY <1>1, <1>2 DEF TypeOK, FileObject, FileInv
  <2>2. DataLen[g_fsobj.file] \in Nat /\ Burst \in Nat
    BY <2>1, PlayerAssumption
  <2>3. n[c] \in 0..Burst /\ i[c] = 0
    BY <1>1, <1>2 DEF TypeOK, HandlerInv
  <2>4. QED
    BY <2>1, <2>2, <2>3
<1> HIDE DEF b, left
<1>8. g_datbuff' \in [1..Burst -> Word]
  <2>1. ASSUME NEW k \in 1..Burst, 4 * k <= b
        PROVE  <<g_fsobj.file, g_fsobj.pos \div 4 + k - 1>> \in Word
    <3>1. g_fsobj.pos \div 4 + k - 1 \in 0..DataLen[g_fsobj.file]
      BY <1>7, <2>1
    <3>2. QED
      BY <1>7, <3>1, PlayerAssumption
  <2>2. QED
    BY <1>1, <1>2, <2>1 DEF Filled, TypeOK
<1>9. /\ g_fsobj' \in FileObject
      /\ g_fsobj'.open
      /\ g_fsobj'.file \in Files
      /\ g_fsobj'.pos <= DataLen[g_fsobj'.file]
  <2>1. g_fsobj \in FileObject
    BY <1>1 DEF TypeOK
  <2> DEFINE p == g_fsobj.pos + b
  <2>2. p \in Nat /\ p <= DataLen[g_fsobj.file]
    BY <1>7
  <2>3. g_fsobj' = [g_fsobj EXCEPT !.pos = p]
    BY <1>2
  <2> HIDE DEF p
  <2>4. /\ g_fsobj' \in FileObject
        /\ g_fsobj'.open = g_fsobj.open
        /\ g_fsobj'.file = g_fsobj.file
        /\ g_fsobj'.pos = p
    BY <2>1, <2>2, <2>3 DEF FileObject
  <2>5. QED
    BY <1>2, <1>7, <2>2, <2>4
<1>10. TypeOK'
  BY <1>1, <1>2, <1>4, <1>5, <1>8, <1>9 DEF TypeOK, fsVars
<1>11. ControlInv'
  BY <1>1, <1>2, <1>3, <1>5 DEF ControlInv, Ctx, Body
<1>12. ResetInv' /\ \A d \in Ctx : HandlerInv(d)'
  <2>1. Len(fifo) + 0 + (n[c] - 0) <= Depth
    <3>1. Len(fifo) < Threshold /\ Len(fifo) \in Nat
      BY <1>1, <1>2 DEF HandlerInv, PortTypeOK
    <3>2. /\ Threshold + Burst <= Depth + 1
          /\ Threshold \in Nat /\ Depth \in Nat
      BY PortAssumption, PlayerAssumption
    <3>3. QED
      BY <1>7, <3>1, <3>2
  <2>2. HandlerInv(c)'
    <3>1. /\ Len(fifo') = Len(fifo) /\ Len(bridge') = 0
          /\ n'[c] = n[c] /\ i'[c] = 0 /\ 0 <= n[c]
      BY <1>2, <1>4, <1>6, <1>7
    <3>2. Len(fifo') + Len(bridge') + (n'[c] - i'[c]) <= Depth
      BY <2>1, <3>1
    <3>3. QED
      BY <1>4, <1>5, <1>6, <3>1, <3>2 DEF HandlerInv
  <2>3. \A d \in Ctx : d # c => HandlerInv(d)'
    BY <1>5 DEF HandlerInv
  <2>4. ResetInv'
    BY <1>1, <1>4, <1>5, <1>6 DEF ResetInv
  <2>5. QED
    BY <2>2, <2>3, <2>4
<1>13. \A d \in Ctx : BurstInv(d)'
  BY <1>1, <1>2, <1>3, <1>5 DEF BurstInv
<1>14. FileInv' /\ StopInv'
  BY <1>1, <1>2, <1>5, <1>9 DEF FileInv, StopInv, fsVars
<1>15. QuietInv' /\ LoudInv' /\ PlayInv'
  <2>1. CASE c = "main"
    BY <1>1, <1>2, <1>3, <1>4, <1>5, <1>6, <1>7, <2>1
    DEF QuietInv, LoudInv, PlayInv
  <2>2. CASE c = "irq"
    BY <1>1, <1>2, <1>3, <1>4, <1>5, <1>6, <2>2
    DEF QuietInv, LoudInv, PlayInv, Dispatch, Hung
  <2>3. QED
    BY <2>1, <2>2 DEF Ctx
<1>16. QED
  BY <1>4, <1>10, <1>11, <1>12, <1>13, <1>14, <1>15 DEF IInv

(* A word of the burst is posted.                                          *)
LEMMA IsrSendKeeps ==
  ASSUME IInv, NEW c \in Ctx, IsrSend(c)
  PROVE  IInv'
<1>1. /\ TypeOK /\ ControlInv /\ FileInv /\ QuietInv /\ LoudInv /\ PlayInv
      /\ StopInv /\ BridgeInv /\ ResetInv /\ PortTypeOK
      /\ HandlerInv(c) /\ BurstInv(c)
  BY DEF IInv, TypeOK
<1>2. /\ rt[c] = "send" /\ i[c] < n[c]
      /\ Post(FifoWr(g_datbuff[i[c] + 1]))
      /\ i' = [i EXCEPT ![c] = i[c] + 1]
      /\ UNCHANGED <<irqena, fiforst, fifo, dac, pc, playVars, rt, n, eof,
                     fsVars>>
  BY DEF IsrSend
<1>3. /\ \A d \in Ctx : d # c => rt[d] = "idle"
      /\ c = "main" => pc = "kick" /\ pc \notin Loud
      /\ c = "irq" => pc # "kick" /\ pc \in Loud
  BY <1>1, <1>2, OneHandler
<1>4. /\ i[c] \in Nat /\ n[c] \in 0..Burst /\ Burst \in Nat
      /\ i[c] + 1 \in 1..Burst /\ i[c] + 1 \in 0..Burst
      /\ g_datbuff[i[c] + 1] \in Word
      /\ Len(fifo) \in Nat /\ Len(bridge) \in Nat /\ Depth \in Nat
      /\ i'[c] = i[c] + 1
      /\ i' \in [Ctx -> 0..Burst]
  BY <1>1, <1>2, PortAssumption, PlayerAssumption DEF TypeOK, PortTypeOK
<1>5. /\ Off /\ ~fiforst
      /\ Len(fifo) + Len(bridge) < Depth
  BY <1>1, <1>2, <1>4 DEF HandlerInv, ResetInv
<1>6. /\ PortTypeOK' /\ BridgeInv' /\ Off'
      /\ Len(bridge') = Len(bridge) + 1
  BY <1>1, <1>2, <1>4, <1>5, WordPosted
<1>7. TypeOK'
  BY <1>1, <1>2, <1>4, <1>6 DEF TypeOK, playVars, fsVars
<1>8. ControlInv'
  BY <1>1, <1>2 DEF ControlInv
<1>9. ResetInv' /\ \A d \in Ctx : HandlerInv(d)' /\ BurstInv(d)'
  <2>1. HandlerInv(c)'
    <3>1. /\ Len(fifo) + Len(bridge) + (n[c] - i[c]) <= Depth
          /\ i[c] <= n[c]
      BY <1>1, <1>2 DEF HandlerInv
    <3>2. /\ Len(fifo) + Len(bridge') + (n[c] - i'[c]) <= Depth
          /\ i'[c] <= n[c]
      BY <1>2, <1>4, <1>6, <3>1
    <3>3. QED
      BY <1>2, <1>6, <3>2 DEF HandlerInv
  <2>2. \A d \in Ctx : d # c => HandlerInv(d)'
    BY <1>2, <1>3 DEF HandlerInv
  <2>3. \A d \in Ctx : BurstInv(d)'
    BY <1>1, <1>2, <1>3 DEF BurstInv, playVars, fsVars
  <2>4. ResetInv'
    BY <1>2, <1>3, <1>5 DEF ResetInv
  <2>5. QED
    BY <2>1, <2>2, <2>3, <2>4
<1>10. FileInv' /\ StopInv'
  BY <1>1, <1>2 DEF FileInv, StopInv, playVars, fsVars
<1>11. QuietInv' /\ LoudInv' /\ PlayInv'
  <2>1. CASE c = "main"
    <3>1. rt'["main"] = "send" /\ i'["main"] # 0
      BY <1>2, <1>4, <2>1
    <3>2. QED
      BY <1>1, <1>2, <1>3, <1>6, <2>1, <3>1
      DEF QuietInv, LoudInv, PlayInv, playVars
  <2>2. CASE c = "irq"
    BY <1>1, <1>2, <1>3, <1>6, <2>2
    DEF QuietInv, LoudInv, PlayInv, playVars, Dispatch, Hung
  <2>3. QED
    BY <2>1, <2>2 DEF Ctx
<1>12. QED
  BY <1>6, <1>7, <1>8, <1>9, <1>10, <1>11 DEF IInv

(* The bytes sent do not wrap: the claim of the header bounds them.        *)
LEMMA SentBytes ==
  ASSUME IInv, NEW c \in Ctx, rt[c] = "send"
  PROVE  /\ Advanced(c) = g_playsize + 4 * n[c]
         /\ g_playsize + 4 * n[c] \in 0..UintMod - 1
         /\ g_playsize + 4 * n[c] <= g_wavsize
         /\ ~eof[c] => n[c] = Burst /\ g_playsize + 4 * n[c] < g_wavsize
         /\ n[c] \in Nat /\ g_playsize \in Nat
<1>1. /\ g_playsize + 4 * n[c] <= g_wavsize
      /\ ~eof[c] => n[c] = Burst /\ g_playsize + 4 * n[c] < g_wavsize
  BY DEF IInv, BurstInv
<1>2. n[c] \in 0..Burst /\ g_playsize \in 0..UintMod - 1
      /\ g_wavsize \in 0..UintMod - 1
  BY DEF IInv, TypeOK
<1>3. UintMod \in Nat /\ Burst \in Nat
  BY PlayerAssumption
<1>4. g_playsize + 4 * n[c] \in 0..UintMod - 1
  BY <1>1, <1>2, <1>3
<1>5. QED
  BY <1>1, <1>2, <1>3, <1>4 DEF Advanced, Wrapped

(* The burst is out: unmask and return.                                    *)
LEMMA IsrUnmaskKeeps ==
  ASSUME IInv, NEW c \in Ctx, IsrUnmask(c)
  PROVE  IInv'
<1>1. /\ TypeOK /\ ControlInv /\ FileInv /\ QuietInv /\ LoudInv /\ PlayInv
      /\ StopInv /\ BridgeInv /\ ResetInv /\ PortTypeOK
      /\ HandlerInv(c) /\ BurstInv(c)
  BY DEF IInv, TypeOK
<1>2. /\ rt[c] = "send" /\ i[c] = n[c] /\ ~eof[c]
      /\ Post(Status(TRUE, FALSE))
      /\ g_playsize' = Advanced(c)
      /\ rt' = [rt EXCEPT ![c] = IF c = "irq" THEN "again" ELSE "idle"]
      /\ pc' = IF c = "irq" THEN pc ELSE "poll"
      /\ UNCHANGED <<irqena, fiforst, fifo, dac, after, g_wavsize, g_datbuff,
                     g_fsobj, fwav, due, n, i, eof, fsVars>>
  BY DEF IsrUnmask, IsrReturns
<1>3. /\ \A d \in Ctx : d # c => rt[d] = "idle"
      /\ c = "main" => pc = "kick" /\ pc \notin Loud
      /\ c = "irq" => pc # "kick" /\ pc \in Loud
  BY <1>1, <1>2, OneHandler
<1>4. /\ Off /\ ~fiforst
  BY <1>1, <1>2 DEF HandlerInv, ResetInv
<1>5. /\ PortTypeOK' /\ BridgeInv' /\ OnAtLast' /\ SettlesTo(TRUE)'
  BY <1>1, <1>2, <1>4, StatusPosted
<1>6. /\ g_playsize' \in 0..UintMod - 1
      /\ 0 < g_playsize' /\ g_playsize' < g_wavsize
      /\ g_wavsize \in Nat
  BY <1>1, <1>2, SentBytes, PlayerAssumption DEF TypeOK
<1>7. /\ rt' \in [Ctx -> Dispatch \union Hung \union Body \union {"idle"}]
      /\ \A d \in Ctx : rt'[d] \in {"idle", "again"}
      /\ rt'["main"] = "idle"
      /\ pc' \in Loud /\ pc' # "kick"
      /\ c = "main" => pc' = "poll" /\ rt'["irq"] = "idle"
      /\ c = "irq" => pc' = pc
  BY <1>1, <1>2, <1>3 DEF TypeOK, Ctx, Dispatch, Loud
<1>8. TypeOK'
  BY <1>1, <1>2, <1>5, <1>6, <1>7 DEF TypeOK, Labels, fsVars
<1>9. ControlInv'
  BY <1>7 DEF ControlInv
<1>10. ResetInv' /\ \A d \in Ctx : HandlerInv(d)' /\ BurstInv(d)'
  BY <1>2, <1>4, <1>7 DEF ResetInv, HandlerInv, BurstInv
<1>11. g_fsobj.open /\ ready
  BY <1>1, <1>2 DEF FileInv
<1>12. FileInv'
  <2>1. pc' \notin {"f_open", "f_read", "f_close", "load"}
    BY <1>7 DEF Loud, Stopping
  <2>2. g_playsize' <= g_wavsize /\ g_wavsize # 0
    BY <1>6
  <2>3. QED
    BY <1>1, <1>2, <1>7, <2>1, <2>2 DEF FileInv
<1>13. QuietInv' /\ LoudInv'
  BY <1>6, <1>7 DEF QuietInv, LoudInv
<1>14. PlayInv'
  BY <1>2, <1>5, <1>6, <1>7, <1>11 DEF PlayInv, Hung, fsVars, Ctx
<1>15. StopInv'
  <2>1. c = "irq" /\ pc = "wait" => FALSE
    BY <1>1, <1>6 DEF StopInv
  <2>2. c = "irq" /\ pc = "clear" => FALSE
    BY <1>1, <1>11 DEF StopInv
  <2>3. QED
    BY <1>1, <1>2, <1>7, <2>1, <2>2 DEF StopInv, Ctx
<1>16. QED
  BY <1>5, <1>8, <1>9, <1>10, <1>12, <1>13, <1>14, <1>15 DEF IInv

(* The last burst is out.                                                  *)
LEMMA IsrSentKeeps ==
  ASSUME IInv, NEW c \in Ctx, IsrSent(c)
  PROVE  IInv'
<1>1. /\ TypeOK /\ ControlInv /\ FileInv /\ QuietInv /\ LoudInv /\ PlayInv
      /\ StopInv /\ BridgeInv /\ ResetInv /\ PortTypeOK
      /\ HandlerInv(c) /\ BurstInv(c)
  BY DEF IInv, TypeOK
<1>2. /\ rt[c] = "send" /\ i[c] = n[c]
      /\ g_playsize' = Advanced(c)
      /\ rt' = [rt EXCEPT ![c] = "close"]
      /\ UNCHANGED <<portVars, pc, after, g_wavsize, g_datbuff, g_fsobj, fwav,
                     due, n, i, eof, fsVars>>
  BY DEF IsrSent
<1>3. /\ \A d \in Ctx : d # c => rt[d] = "idle"
      /\ c = "main" => pc = "kick" /\ pc \notin Loud
      /\ c = "irq" => pc # "kick" /\ pc \in Loud
  BY <1>1, <1>2, OneHandler
<1>4. /\ PortTypeOK' /\ BridgeInv' /\ Off /\ Off' /\ NoData' = NoData
      /\ UNCHANGED <<bridge, irqena, fiforst, fifo>>
  BY <1>1, <1>2, PortKept DEF HandlerInv, portVars
<1>5. /\ g_playsize' \in 0..UintMod - 1
      /\ g_playsize' <= g_wavsize
      /\ g_playsize' = g_playsize + 4 * n[c]
      /\ g_playsize \in Nat /\ n[c] \in Nat
  BY <1>1, <1>2, SentBytes
<1>6. /\ rt' \in [Ctx -> Dispatch \union Hung \union Body \union {"idle"}]
      /\ rt'[c] = "close"
      /\ \A d \in Ctx : d # c => rt'[d] = "idle"
  BY <1>1, <1>2, <1>3 DEF TypeOK, Body
<1>7. TypeOK'
  BY <1>1, <1>2, <1>4, <1>5, <1>6 DEF TypeOK, fsVars
<1>8. ControlInv'
  BY <1>1, <1>2, <1>3, <1>6 DEF ControlInv, Ctx, Body
<1>9. ResetInv' /\ \A d \in Ctx : HandlerInv(d)' /\ BurstInv(d)'
  BY <1>1, <1>4, <1>6 DEF ResetInv, HandlerInv, BurstInv
<1>10. FileInv' /\ StopInv'
  BY <1>1, <1>2, <1>5, <1>6 DEF FileInv, StopInv, fsVars
<1>11. QuietInv' /\ LoudInv' /\ PlayInv'
  <2>1. CASE c = "main"
    <3>1. n["main"] \in Nat /\ i["main"] = n["main"]
          /\ g_playsize' = g_playsize + 4 * n["main"]
      BY <1>2, <1>5, <2>1
    <3>2. g_playsize' = 0 => i["main"] = 0
      BY <1>5, <3>1
    <3>3. g_playsize' = 0 => NoData /\ fifo = <<>>
      BY <1>1, <1>2, <1>3, <2>1, <3>2 DEF QuietInv
    <3>4. QED
      BY <1>1, <1>2, <1>3, <1>4, <1>6, <2>1, <3>3
      DEF QuietInv, LoudInv, PlayInv
  <2>2. CASE c = "irq"
    <3>1. g_playsize' > 0
      BY <1>1, <1>2, <1>3, <1>5, <2>2 DEF LoudInv
    <3>2. QED
      BY <1>1, <1>2, <1>3, <1>4, <1>6, <2>2, <3>1
      DEF QuietInv, LoudInv, PlayInv, Dispatch, Hung
  <2>3. QED
    BY <2>1, <2>2 DEF Ctx
<1>12. QED
  BY <1>4, <1>7, <1>8, <1>9, <1>10, <1>11 DEF IInv

(* f_close, and the track is over.                                         *)
LEMMA IsrCloseKeeps ==
  ASSUME IInv, NEW c \in Ctx, IsrClose(c)
  PROVE  IInv'
<1>1. /\ TypeOK /\ ControlInv /\ FileInv /\ QuietInv /\ LoudInv /\ PlayInv
      /\ StopInv /\ BridgeInv /\ ResetInv /\ PortTypeOK
  BY DEF IInv, TypeOK
<1>2. /\ rt[c] = "close"
      /\ g_wavsize' = 0
      /\ rt' = [rt EXCEPT ![c] = IF c = "irq" THEN "again" ELSE "idle"]
      /\ pc' = IF c = "irq" THEN pc ELSE "poll"
      /\ g_fsobj' = [g_fsobj EXCEPT !.open = g_fsobj.open /\ ~ready']
      /\ ready' \in BOOLEAN
      /\ UNCHANGED <<portVars, after, g_playsize, g_datbuff, fwav, due,
                     n, i, eof, stat, torn, dir>>
  BY DEF IsrClose, IsrReturns
<1>3. /\ \A d \in Ctx : d # c => rt[d] = "idle"
      /\ c = "main" => pc = "kick" /\ pc \notin Loud
      /\ c = "irq" => pc # "kick" /\ pc \in Loud
  BY <1>1, <1>2, OneHandler
<1>4. /\ PortTypeOK' /\ BridgeInv' /\ Off' = Off /\ NoData' = NoData
      /\ OnAtLast' = OnAtLast
      /\ UNCHANGED <<bridge, irqena, fiforst, fifo>>
  BY <1>1, <1>2, PortKept DEF portVars
<1>5. /\ rt' \in [Ctx -> Dispatch \union Hung \union Body \union {"idle"}]
      /\ \A d \in Ctx : rt'[d] \in {"idle", "again"}
      /\ rt'["main"] = "idle"
      /\ pc' \in Loud /\ pc' # "kick"
      /\ c = "main" => pc' = "poll" /\ rt'["irq"] = "idle"
      /\ c = "irq" => pc' = pc
  BY <1>1, <1>2, <1>3 DEF TypeOK, Ctx, Dispatch, Loud
<1>6. /\ g_fsobj' \in FileObject
      /\ g_fsobj'.open = (g_fsobj.open /\ ~ready')
      /\ g_fsobj'.file = g_fsobj.file /\ g_fsobj'.pos = g_fsobj.pos
  BY <1>1, <1>2 DEF TypeOK, FileObject
<1>7. 0 \in 0..UintMod - 1
  BY PlayerAssumption
<1>8. TypeOK'
  BY <1>1, <1>2, <1>4, <1>5, <1>6, <1>7 DEF TypeOK, Labels
<1>9. ControlInv' /\ QuietInv'
  BY <1>5 DEF ControlInv, QuietInv
<1>10. ResetInv' /\ \A d \in Ctx : HandlerInv(d)' /\ BurstInv(d)'
  BY <1>1, <1>4, <1>5 DEF ResetInv, HandlerInv, BurstInv
<1>11. FileInv'
  <2>1. pc' \notin {"f_open", "f_read", "f_close", "load"}
    BY <1>5 DEF Loud, Stopping
  <2>2. QED
    BY <1>1, <1>2, <1>5, <1>6, <2>1 DEF FileInv
<1>12. StopInv'
  BY <1>1, <1>2, <1>5, <1>6 DEF StopInv, Ctx
<1>13. LoudInv' /\ PlayInv'
  <2>1. CASE c = "main"
    <3>1. Off
      BY <1>1, <1>3, <2>1 DEF QuietInv
    <3>2. g_playsize = 0 => NoData /\ fifo = <<>>
      BY <1>1, <1>2, <1>3, <2>1 DEF QuietInv
    <3>3. OnAtLast
      BY <3>1 DEF Off, OnAtLast
    <3>4. g_playsize \in Nat
      BY <1>1, PlayerAssumption DEF TypeOK
    <3>5. QED
      BY <1>2, <1>4, <1>5, <2>1, <3>1, <3>2, <3>3, <3>4
      DEF LoudInv, PlayInv, Hung
  <2>2. CASE c = "irq"
    <3>1. g_playsize > 0
      BY <1>1, <1>2, <1>3, <2>2 DEF LoudInv
    <3>2. pc \notin Stopping => Off /\ OnAtLast
      BY <1>1, <1>2, <1>3, <2>2 DEF PlayInv, Off, OnAtLast
    <3>3. QED
      BY <1>2, <1>4, <1>5, <2>2, <3>1, <3>2
      DEF LoudInv, PlayInv, Hung, Ctx
  <2>3. QED
    BY <2>1, <2>2 DEF Ctx
<1>14. QED
  BY <1>4, <1>8, <1>9, <1>10, <1>11, <1>12, <1>13 DEF IInv
-----------------------------------------------------------------------------
(***************************************************************************)
(* The dispatcher, the bridge and the audio clock.                         *)
(***************************************************************************)

(* An interrupt that is pending has something to play.                     *)
LEMMA IrqMeans ==
  ASSUME IInv, Irq
  PROVE  /\ ~Off /\ NoData /\ Len(fifo) < Threshold
         /\ pc \in Loud
         /\ g_playsize > 0
  BY DEF IInv, BridgeInv, QuietInv, LoudInv, Off, Irq

(* A step of the dispatcher changes nothing but where it is.               *)
LEMMA HalStepKeeps ==
  ASSUME IInv,
         NEW from,
         NEW to \in Dispatch \union Hung \union {"isr", "idle"},
         HalStep(from, to),
         \/ from = "idle" /\ Irq /\ to = "entry"
         \/ from = "entry" /\ to = IF Irq THEN "handler" ELSE "unknown"
         \/ from = "handler" /\ to = IF Irq THEN "isr" ELSE "spin"
         \/ from = "again" /\ to = IF Irq THEN "isr" ELSE "idle"
  PROVE  IInv'
<1>1. /\ TypeOK /\ ControlInv /\ FileInv /\ QuietInv /\ LoudInv /\ PlayInv
      /\ StopInv /\ BridgeInv /\ ResetInv /\ PortTypeOK
  BY DEF IInv, TypeOK
<1>2. /\ rt["irq"] = from
      /\ from \in Dispatch \union {"idle"}
      /\ rt' = [rt EXCEPT !["irq"] = to]
      /\ UNCHANGED <<portVars, pc, playVars, n, i, eof, fsVars>>
  BY DEF HalStep, Dispatch
<1>3. /\ pc \in Loud /\ pc # "kick" /\ g_playsize > 0
      /\ rt["main"] = "idle" /\ rt'["main"] = "idle" /\ rt'["irq"] = to
  <2>1. pc \in Loud /\ g_playsize > 0
    BY <1>1, <1>2, IrqMeans DEF ControlInv, LoudInv, Loud, Stopping
  <2>2. pc # "kick"
    BY <2>1 DEF Loud, Stopping
  <2>3. rt["main"] = "idle"
    BY <1>1, <2>2 DEF ControlInv
  <2>4. rt'["main"] = "idle" /\ rt'["irq"] = to
    BY <1>1, <1>2, <2>3 DEF TypeOK, Ctx
  <2>5. QED
    BY <2>1, <2>2, <2>3, <2>4
<1>4. /\ PortTypeOK' /\ BridgeInv' /\ Off' = Off /\ NoData' = NoData
      /\ OnAtLast' = OnAtLast /\ SettlesTo(TRUE)' = SettlesTo(TRUE)
      /\ Irq' = Irq
      /\ UNCHANGED <<bridge, irqena, fiforst, fifo>>
  BY <1>1, <1>2, PortKept DEF portVars
<1>5. TypeOK'
  <2>1. rt' \in [Ctx -> Dispatch \union Hung \union Body \union {"idle"}]
    BY <1>1, <1>2 DEF TypeOK, Body
  <2>2. QED
    BY <1>1, <1>2, <1>4, <2>1 DEF TypeOK, playVars, fsVars
<1>6. ControlInv' /\ QuietInv' /\ LoudInv' /\ StopInv'
  BY <1>1, <1>2, <1>3
  DEF ControlInv, QuietInv, LoudInv, StopInv, playVars, fsVars
<1>7. /\ rt'["irq"] \notin {"read", "send"}
      /\ rt'["irq"] = "isr" => Irq
  BY <1>2, <1>3 DEF Dispatch, Hung
<1>8. ResetInv' /\ \A c \in Ctx : HandlerInv(c)' /\ BurstInv(c)'
  <2>1. rt'["irq"] = "isr" => NoData' /\ Len(fifo') < Threshold
    BY <1>4, <1>7, IrqMeans
  <2>2. QED
    BY <1>1, <1>3, <1>4, <1>7, <2>1 DEF ResetInv, HandlerInv, BurstInv, Ctx
<1>9. FileInv'
  BY <1>1, <1>2, <1>3, <1>7 DEF FileInv, Ctx, playVars, fsVars
<1>10. PlayInv'
  <2>1. CASE pc \in Stopping
    BY <1>2, <2>1 DEF PlayInv
  <2>2. CASE pc \notin Stopping
    <3>1. /\ OnAtLast
          /\ g_wavsize # 0 => SettlesTo(TRUE)
          /\ ~Off => g_playsize < g_wavsize /\ g_fsobj.open /\ ready
          /\ rt["irq"] \in {"entry", "handler"} => Irq
      BY <1>1, <1>2, <1>3, <2>2 DEF PlayInv
    <3>2. /\ rt'["irq"] \notin Hung /\ rt'["irq"] # "close"
          /\ rt'["irq"] \in {"entry", "handler", "isr"} => Irq
      BY <1>2, <1>3, <3>1 DEF Dispatch, Hung
    <3>3. QED
      BY <1>2, <1>3, <1>4, <1>7, <3>1, <3>2, IrqMeans
      DEF PlayInv, playVars, fsVars
  <2>3. QED
    BY <2>1, <2>2
<1>11. QED
  BY <1>4, <1>5, <1>6, <1>8, <1>9, <1>10 DEF IInv

(* Each step of the dispatcher, from the exception to its second look.     *)
LEMMA HalKeeps ==
  ASSUME IInv, HalTake \/ HalTest \/ HalFind \/ HalAgain
  PROVE  IInv'
<1>1. {"entry", "handler", "unknown", "isr", "spin", "idle"}
        \subseteq Dispatch \union Hung \union {"isr", "idle"}
  BY DEF Dispatch, Hung
<1>2. CASE HalTake
  BY <1>1, <1>2, HalStepKeeps DEF HalTake
<1>3. CASE HalTest
  BY <1>1, <1>3, HalStepKeeps DEF HalTest
<1>4. CASE HalFind
  BY <1>1, <1>4, HalStepKeeps DEF HalFind
<1>5. CASE HalAgain
  BY <1>1, <1>5, HalStepKeeps DEF HalAgain
<1>6. QED
  BY <1>2, <1>3, <1>4, <1>5

(* A posted write lands in the peripheral.                                 *)
LEMMA LandKeeps ==
  ASSUME IInv, Land
  PROVE  IInv'
<1>1. /\ TypeOK /\ ControlInv /\ FileInv /\ QuietInv /\ LoudInv /\ PlayInv
      /\ StopInv /\ BridgeInv /\ ResetInv /\ PortTypeOK
      /\ \A c \in Ctx : HandlerInv(c) /\ BurstInv(c)
  BY DEF IInv, TypeOK
<1>2. /\ Deliver /\ UNCHANGED <<pc, playVars, isrVars, fsVars>>
      /\ bridge # <<>>
  BY DEF Land, Deliver
<1>3. /\ PortTypeOK' /\ BridgeInv'
      /\ NoData => /\ NoData'
                   /\ Len(fifo') <= Len(fifo)
                   /\ fifo = <<>> => fifo' = <<>>
      /\ Off => Off'
      /\ OnAtLast => OnAtLast'
      /\ SettlesTo(TRUE) => SettlesTo(TRUE)'
      /\ SettlesTo(FALSE) => SettlesTo(FALSE)'
      /\ Len(fifo') + Len(bridge') <= Len(fifo) + Len(bridge)
      /\ ~fiforst'
  BY <1>1, <1>2, Landed DEF ResetInv
<1>4. TypeOK'
  BY <1>1, <1>2, <1>3 DEF TypeOK, playVars, isrVars, fsVars
<1>5. ControlInv' /\ FileInv' /\ StopInv' /\ \A c \in Ctx : BurstInv(c)'
  BY <1>1, <1>2
  DEF ControlInv, FileInv, StopInv, BurstInv, playVars, isrVars, fsVars
<1>6. ResetInv'
  BY <1>3 DEF ResetInv
<1>7. ASSUME NEW c \in Ctx
      PROVE  HandlerInv(c)'
  <2> HandlerInv(c)
    BY <1>1
  <2>0. /\ n[c] \in 0..Burst /\ i[c] \in 0..Burst
        /\ Burst \in Nat /\ Depth \in Nat /\ Threshold \in Nat
    BY <1>1, PortAssumption, PlayerAssumption DEF TypeOK
  <2>1. /\ Len(fifo) \in Nat /\ Len(fifo') \in Nat
        /\ Len(bridge) \in Nat /\ Len(bridge') \in Nat
    BY <1>1, <1>3 DEF PortTypeOK
  <2>2. rt' = rt /\ n' = n /\ i' = i
    BY <1>2 DEF isrVars
  <2>3. rt[c] \in {"isr", "read"} => NoData' /\ Len(fifo') < Threshold
    BY <1>3, <2>0, <2>1 DEF HandlerInv
  <2>4. rt[c] = "send" =>
          Len(fifo') + Len(bridge') + (n[c] - i[c]) <= Depth
    BY <1>3, <2>0, <2>1 DEF HandlerInv
  <2>5. QED
    BY <1>3, <2>2, <2>3, <2>4 DEF HandlerInv
<1>8. QuietInv' /\ LoudInv'
  BY <1>1, <1>2, <1>3 DEF QuietInv, LoudInv, playVars, isrVars
<1>9. PlayInv'
  <2>1. OnAtLast => ~Irq
    BY <1>2 DEF OnAtLast, Irq
  <2>2. rt["irq"] \in {"entry", "handler"} => rt["irq"] \in Dispatch
    BY DEF Dispatch
  <2>3. QED
    BY <1>1, <1>2, <1>3, <2>1, <2>2 DEF PlayInv, playVars, isrVars, fsVars
<1>10. QED
  BY <1>3, <1>4, <1>5, <1>6, <1>7, <1>8, <1>9 DEF IInv

(* A sample period passes.                                                 *)
LEMMA SampleKeeps ==
  ASSUME IInv, Sample
  PROVE  IInv'
<1>1. /\ TypeOK /\ ControlInv /\ FileInv /\ QuietInv /\ LoudInv /\ PlayInv
      /\ StopInv /\ BridgeInv /\ ResetInv /\ PortTypeOK
      /\ \A c \in Ctx : HandlerInv(c) /\ BurstInv(c)
  BY DEF IInv, TypeOK
<1>2. /\ Tick
      /\ due' \in {due, due + 1}
      /\ UNCHANGED <<pc, after, g_wavsize, g_playsize, g_datbuff, g_fsobj, fwav,
                     isrVars, fsVars>>
  BY DEF Sample
<1>3. /\ PortTypeOK' /\ BridgeInv'
      /\ Len(fifo') <= Len(fifo)
      /\ fifo = <<>> => fifo' = <<>>
      /\ UNCHANGED <<bridge, irqena, fiforst>>
      /\ NoData' = NoData
      /\ Off' = Off
      /\ OnAtLast' = OnAtLast
      /\ SettlesTo(TRUE)' = SettlesTo(TRUE)
      /\ SettlesTo(FALSE)' = SettlesTo(FALSE)
      /\ Irq => Irq'
  BY <1>1, <1>2, Sampled
<1>4. TypeOK'
  BY <1>1, <1>2, <1>3 DEF TypeOK, isrVars, fsVars
<1>5. ControlInv' /\ FileInv' /\ StopInv' /\ \A c \in Ctx : BurstInv(c)'
  BY <1>1, <1>2
  DEF ControlInv, FileInv, StopInv, BurstInv, isrVars, fsVars
<1>6. ResetInv'
  BY <1>1, <1>2, <1>3 DEF ResetInv, isrVars
<1>7. ASSUME NEW c \in Ctx
      PROVE  HandlerInv(c)'
  <2> HandlerInv(c)
    BY <1>1
  <2>0. /\ n[c] \in 0..Burst /\ i[c] \in 0..Burst
        /\ Burst \in Nat /\ Depth \in Nat /\ Threshold \in Nat
    BY <1>1, PortAssumption, PlayerAssumption DEF TypeOK
  <2>1. /\ Len(fifo) \in Nat /\ Len(fifo') \in Nat
        /\ Len(bridge) \in Nat
    BY <1>1, <1>3 DEF PortTypeOK
  <2>2. rt' = rt /\ n' = n /\ i' = i /\ bridge' = bridge
    BY <1>2, <1>3 DEF isrVars
  <2>3. rt[c] \in {"isr", "read"} => NoData' /\ Len(fifo') < Threshold
    BY <1>3, <2>0, <2>1 DEF HandlerInv
  <2>4. rt[c] = "send" =>
          Len(fifo') + Len(bridge) + (n[c] - i[c]) <= Depth
    BY <1>3, <2>0, <2>1 DEF HandlerInv
  <2>5. QED
    BY <1>3, <2>2, <2>3, <2>4 DEF HandlerInv
<1>8. QuietInv' /\ LoudInv'
  BY <1>1, <1>2, <1>3 DEF QuietInv, LoudInv, isrVars
<1>9. PlayInv'
  BY <1>1, <1>2, <1>3 DEF PlayInv, isrVars, fsVars
<1>10. QED
  BY <1>3, <1>4, <1>5, <1>6, <1>7, <1>8, <1>9 DEF IInv

(* A step that changes nothing.                                            *)
LEMMA StutterKeeps ==
  ASSUME IInv, UNCHANGED vars
  PROVE  IInv'
<1>1. /\ UNCHANGED portVars
      /\ UNCHANGED <<pc, playVars, isrVars, fsVars>>
  BY DEF vars
<1>2. TypeOK'
  BY <1>1, PortKept DEF IInv, TypeOK, playVars, isrVars, fsVars
<1>3. ControlInv' /\ FileInv' /\ StopInv' /\ \A c \in Ctx : BurstInv(c)'
  BY <1>1
  DEF IInv, ControlInv, FileInv, StopInv, BurstInv, playVars, isrVars, fsVars
<1>4. UNCHANGED <<bridge, irqena, fiforst, fifo>>
  BY <1>1 DEF portVars
<1>5. BridgeInv' /\ ResetInv'
  BY <1>1, <1>4, PortKept DEF IInv, ResetInv, isrVars
<1>6. ASSUME NEW c \in Ctx
      PROVE  HandlerInv(c)'
  <2>1. HandlerInv(c)
    BY DEF IInv
  <2>2. QED
    BY <1>1, <1>4, <2>1, PortKept DEF HandlerInv, isrVars
<1>7. QuietInv' /\ LoudInv' /\ PlayInv'
  BY <1>1, <1>4, PortKept
  DEF IInv, QuietInv, LoudInv, PlayInv, playVars, isrVars, fsVars
<1>8. QED
  BY <1>2, <1>3, <1>5, <1>6, <1>7 DEF IInv

(* Every step of the system, one case for each action.                     *)
LEMMA NextKeeps ==
  ASSUME IInv, [Next]_vars
  PROVE  IInv'
<1>1. CASE Isr("main") \/ Isr("irq")
  <2>1. PICK c \in Ctx : Isr(c)
    BY <1>1 DEF Ctx
  <2>2. QED
    BY <2>1, IsrMaskKeeps, IsrReadErrorKeeps, IsrReadKeeps, IsrSendKeeps,
       IsrUnmaskKeeps, IsrSentKeeps, IsrCloseKeeps DEF Isr
<1>2. CASE Main /\ ~Isr("main")
  BY <1>2, WalkKeeps, LoadKeeps, LoopKeeps, StopMaskKeeps DEF Main, PlayStop
<1>3. CASE Interrupt /\ ~Isr("irq")
  BY <1>3, HalKeeps DEF Interrupt
<1>4. QED
  BY <1>1, <1>2, <1>3, LandKeeps, SampleKeeps, StutterKeeps DEF Next

(* The inductive invariant holds of every behaviour of the player.         *)
THEOREM Invariance == Spec => []IInv
<1>1. Init => IInv
  BY InitEstablishes
<1>2. IInv /\ [Next]_vars => IInv'
  BY NextKeeps
<1>3. QED
  BY <1>1, <1>2, PTL DEF Spec
-----------------------------------------------------------------------------
(***************************************************************************)
(* What the runs check on small instances, for every instance.             *)
(***************************************************************************)

(* Every variable of the player stays in its type.                         *)
THEOREM TypeCorrect == Spec => []TypeOK
<1>1. IInv => TypeOK
  BY DEF IInv
<1>2. QED
  BY <1>1, Invariance, PTL

(* playwav.c sends its bursts without asking how full the FIFO is; no word *)
(* of them is ever dropped, because the handler is only entered below the  *)
(* threshold and a burst fits above it.                                    *)
THEOREM NoSampleIsLost == Spec => []NoSampleLost
<1>1. IInv => NoSampleLost
  <2> SUFFICES ASSUME IInv, bridge # <<>>, Head(bridge).reg = "fifowr"
               PROVE  ~fiforst /\ Len(fifo) < Depth
    BY DEF NoSampleLost
  <2>1. /\ bridge \in Seq(Command) /\ Len(fifo) \in Nat /\ Depth \in Nat
        /\ BridgeInv /\ ResetInv
    BY PortAssumption DEF IInv, TypeOK, PortTypeOK
  <2>2. 1 \in 1..Len(bridge) /\ bridge[1].reg = "fifowr"
    BY <2>1
  <2>3. Len(fifo) + 1 <= Depth
    BY <2>1, <2>2 DEF BridgeInv
  <2>4. ~fiforst
    BY <2>1, <2>2 DEF ResetInv, NoData
  <2>5. QED
    BY <2>1, <2>3, <2>4
<1>2. QED
  BY <1>1, Invariance, PTL

(* play_wav finds the peripheral, the bridge and the handler at rest.      *)
THEOREM StartsClean == Spec => []CleanStart
<1>1. IInv => CleanStart
  <2> SUFFICES ASSUME IInv, pc = "load"
               PROVE  /\ fifo = <<>>
                      /\ ~irqena
                      /\ \A k \in 1..Len(bridge) :
                           bridge[k].reg = "status" /\ ~bridge[k].irq
                      /\ rt["irq"] = "idle"
                      /\ g_wavsize = 0
    BY DEF CleanStart
  <2>1. /\ Off /\ g_wavsize = 0 /\ rt["irq"] = "idle"
        /\ NoData /\ fifo = <<>>
    BY DEF IInv, QuietInv, ControlInv, Loud, Stopping
  <2>2. QED
    BY <2>1 DEF Off, NoData
<1>2. QED
  BY <1>1, Invariance, PTL

(* The handler's calls into FatFs can meet the main context's only in the  *)
(* f_close of play_stop.                                                   *)
THEOREM ReentersOnlyInStop == Spec => []ReentryOnlyInStop
<1>1. IInv => ReentryOnlyInStop
  BY DEF IInv, ControlInv, ReentryOnlyInStop, Loud
<1>2. QED
  BY <1>1, Invariance, PTL

(* An interrupt that can be taken has samples left to send, from a file    *)
(* that can be read.                                                       *)
THEOREM ArmedMeansWork == Spec => []ArmedHasWork
<1>1. IInv => ArmedHasWork
  BY DEF IInv, QuietInv, PlayInv, ArmedHasWork, Off
<1>2. QED
  BY <1>1, Invariance, PTL

(* No burst reaches behind the data the header claims, whatever play_stop  *)
(* does to g_wavsize meanwhile.                                            *)
THEOREM BurstsWithinClaim == Spec => []WithinClaim
<1>1. IInv => WithinClaim
  BY DEF IInv, BurstInv, WithinClaim
<1>2. QED
  BY <1>1, Invariance, PTL

(* Only play_stop's masking write can take the interrupt away from the     *)
(* dispatcher that was entered for it.                                     *)
THEOREM HangsOnlyInStop == Spec => []HungOnlyInStop
<1>1. IInv => HungOnlyInStop
  BY DEF IInv, ControlInv, PlayInv, HungOnlyInStop, Hung
<1>2. QED
  BY <1>1, Invariance, PTL

(***************************************************************************)
(* The player implements Playback, whatever the sizes, for every directory *)
(* in which no header claims more than its file holds, with card failures  *)
(* and keys.  The invariant is RInv of WavPlayerInv; it is proved on top   *)
(* of IInv, which says when the FIFO has room and who can be running.      *)
(***************************************************************************)

(* While the main context steps outside play_wav's burst nobody sends.     *)
LEMMA MainAlone ==
  ASSUME IInv, MainRuns, pc # "kick"
  PROVE  \A c \in Ctx : rt[c] = "idle"
  BY DEF IInv, ControlInv, Ctx, MainRuns

(* The types the arithmetic below needs.                                   *)
LEMMA Types ==
  ASSUME IInv
  PROVE  /\ due \in Nat /\ g_playsize \in Nat /\ g_wavsize \in Nat
         /\ fifo \in Seq(Word) /\ Len(fifo) \in Nat
         /\ bridge \in Seq(Command) /\ Len(bridge) \in Nat
         /\ \A c \in Ctx : n[c] \in Nat /\ i[c] \in Nat /\ n[c] <= Burst
         /\ g_fsobj \in FileObject
         /\ WavSize \in [Files -> Nat] /\ DataLen \in [Files -> Nat]
         /\ Burst \in Nat /\ NoFile \notin Files
  BY PlayerAssumption DEF IInv, TypeOK, PortTypeOK

(* What has been sent, with the handler sending and without.               *)
LEMMA SentBy ==
  ASSUME IInv, NEW c \in Ctx, rt[c] = "send"
  PROVE  Sent = g_playsize \div 4 + i[c]
<1>1. rt[c] # "idle" /\ ControlInv
  BY DEF IInv
<1>2. \A d \in Ctx : d # c => rt[d] = "idle"
  BY <1>1, OneHandler
<1>3. /\ g_playsize \in Nat /\ i[c] \in Nat
      /\ c = "main" \/ c = "irq"
  BY Types DEF Ctx
<1>4. QED
  BY <1>2, <1>3 DEF Sent, SentIn, Ctx

LEMMA SentByNone ==
  ASSUME IInv, \A c \in Ctx : rt[c] # "send"
  PROVE  Sent = g_playsize \div 4
  BY Types DEF Sent, SentIn, Ctx

(* No more is sent than the track has; so no more is in the FIFO.          *)
LEMMA WithinTrack ==
  ASSUME IInv, WholeFiles, RInv, fifo # <<>>
  PROVE  /\ g_fsobj.file \in Files
         /\ due < TrackLength[g_fsobj.file]
<1> DEFINE f == g_fsobj.file
<1>1. f \in Files \union {NoFile}
  BY Types DEF FileObject
<1>2. PICK m \in 0..Len(bridge) : due + Len(fifo) + m = Sent
  BY DEF RInv, StreamInv, StreamOf
<1>3. Len(fifo) > 0
  BY Types
<1>4. due < Sent /\ Sent \in Nat
  BY <1>2, <1>3, Types
<1>5. CASE \A c \in Ctx : rt[c] # "send"
  <2>1. Sent = g_playsize \div 4
    BY <1>5, SentByNone
  <2>2. g_playsize # 0
    BY <1>4, <2>1, Types
  <2>3. f \in Files /\ g_playsize <= WavSize[f]
    BY <1>1, <2>2 DEF RInv, ProgressInv
  <2>4. TrackLength[f] = WavSize[f] \div 4
    BY <2>3, Types DEF WholeFiles, TrackLength
  <2>5. WavSize[f] \in Nat
    BY <2>3, Types
  <2>6. QED
    BY <1>4, <2>1, <2>3, <2>4, <2>5, Types
<1>6. ASSUME NEW c \in Ctx, rt[c] = "send"
      PROVE  f \in Files /\ due < TrackLength[f]
  <2>1. Sent = g_playsize \div 4 + i[c]
    BY <1>6, SentBy
  <2>2. f \in Files
    BY <1>6 DEF IInv, FileInv
  <2>3. /\ g_playsize + 4 * n[c] <= g_wavsize
        /\ i[c] <= n[c]
    BY <1>6 DEF IInv, HandlerInv, BurstInv
  <2>4. g_wavsize # 0
    BY <1>4, <2>1, <2>3, Types
  <2>5. g_wavsize = WavSize[f]
    BY <2>4 DEF RInv, ProgressInv
  <2>6. TrackLength[f] = WavSize[f] \div 4
    BY <2>2, Types DEF WholeFiles, TrackLength
  <2>7. /\ WavSize[f] \in Nat /\ i[c] \in Nat /\ n[c] \in Nat
        /\ g_playsize \in Nat /\ due \in Nat
    BY <2>2, <1>6, Types
  <2>8. Sent <= WavSize[f] \div 4
    BY <2>1, <2>3, <2>5, <2>7
  <2>9. QED
    BY <1>4, <2>2, <2>6, <2>7, <2>8
<1>7. QED
  BY <1>5, <1>6

-----------------------------------------------------------------------------
(***************************************************************************)
(* RInv is inductive, one lemma for each kind of step.                     *)
(***************************************************************************)

LEMMA RInit ==
  ASSUME Init
  PROVE  RInv
<1>1. /\ bridge = <<>> /\ fifo = <<>> /\ due = 0 /\ g_playsize = 0
      /\ g_wavsize = 0
      /\ \A c \in Ctx : rt[c] = "idle"
      /\ g_fsobj.file = NoFile /\ ~g_fsobj.open
  BY DEF Init, PortInit
<1>2. Sent = 0
  BY <1>1 DEF Sent, SentIn, Ctx
<1>3. StreamOf(0)
  BY <1>1, <1>2 DEF StreamOf
<1>4. StreamInv
  BY <1>1, <1>3 DEF StreamInv
<1>5. ProgressInv
  BY <1>1, PlayerAssumption DEF ProgressInv
<1>6. ReadInv /\ SendsOnlyWhatWasRead
  BY <1>1 DEF ReadInv, SendsOnlyWhatWasRead
<1>7. QED
  BY <1>4, <1>5, <1>6 DEF RInv

(* What the progress of a track needs: that g_fsobj keeps its file and     *)
(* position, and g_wavsize is kept or cleared.                             *)
Aside ==
  /\ UNCHANGED <<fifo, due, g_playsize, g_datbuff>>
  /\ g_fsobj'.file = g_fsobj.file /\ g_fsobj'.pos = g_fsobj.pos
  /\ g_fsobj'.open => g_fsobj.open
  /\ g_wavsize' \in {g_wavsize, 0}

(* A step that neither posts nor samples, starts no burst and ends none.   *)
LEMMA AsideKeeps ==
  ASSUME RInv, Aside, bridge' = bridge, n' = n, i' = i,
         \A c \in Ctx : rt'[c] = "send" <=> rt[c] = "send"
  PROVE  RInv'
<1>1. Sent' = Sent
  BY DEF Sent, SentIn, Ctx, Aside
<1>2. PICK m \in 0..Len(bridge) : StreamOf(m)
  BY DEF RInv, StreamInv
<1>3. StreamOf(m)'
  BY <1>1, <1>2 DEF StreamOf, Aside
<1>4. StreamInv'
  BY <1>3 DEF StreamInv
<1>5. ProgressInv'
  BY DEF RInv, ProgressInv, Aside
<1>6. ReadInv' /\ SendsOnlyWhatWasRead'
  BY DEF RInv, ReadInv, SendsOnlyWhatWasRead, Aside
<1>7. QED
  BY <1>4, <1>5, <1>6 DEF RInv

(* A status write goes behind the words that are under way.                *)
LEMMA StatusStream ==
  ASSUME IInv, StreamInv, NEW b \in BOOLEAN, Post(Status(b, FALSE)),
         Sent' = Sent, UNCHANGED <<fifo, due>>,
         g_fsobj'.file = g_fsobj.file,
         \A c \in Ctx : rt'[c] # "send"
  PROVE  StreamInv'
<1> DEFINE w == Status(b, FALSE)
<1>1. w \in Command /\ w.reg = "status"
  BY PortAssumption DEF Status, Command
<1>2. bridge \in Seq(Command) /\ Len(bridge) <= BridgeDepth
  BY DEF IInv, TypeOK, PortTypeOK
<1>3. Post(w)
  OBVIOUS
<1> HIDE DEF w
<1>4. /\ Len(bridge) \in Nat
      /\ Len(bridge') = Len(bridge) + 1
      /\ \A k \in 1..Len(bridge) : bridge'[k] = bridge[k]
      /\ bridge'[Len(bridge) + 1] = w
  BY <1>1, <1>2, <1>3, PostStep
<1>5. PICK m \in 0..Len(bridge) : StreamOf(m)
  BY DEF StreamInv
<1>6. ASSUME NEW k \in 1..Len(bridge')
      PROVE  /\ bridge'[k].reg = "fifowr" <=> k <= m
             /\ k <= m => bridge'[k].word
                           = <<g_fsobj'.file, due' + Len(fifo') + k - 1>>
  <2>1. CASE k \in 1..Len(bridge)
    BY <1>4, <1>5, <2>1 DEF StreamOf
  <2>2. CASE k = Len(bridge) + 1
    <3>1. ~(k <= m)
      BY <1>4, <1>5, <2>2
    <3>2. bridge'[k].reg = "status"
      BY <1>1, <1>4, <2>2
    <3>3. QED
      BY <3>1, <3>2
  <2>3. QED
    BY <1>4, <1>6, <2>1, <2>2
<1>7. StreamOf(m)'
  BY <1>5, <1>6 DEF StreamOf
<1>8. QED
  BY <1>4, <1>5, <1>7 DEF StreamInv

(* A status write is posted outside a burst.                               *)
LEMMA StatusKeeps ==
  ASSUME IInv, RInv, Aside, NEW b \in BOOLEAN, Post(Status(b, FALSE)),
         \A c \in Ctx : rt[c] # "send" /\ rt'[c] # "send"
  PROVE  RInv'
<1>1. Sent' = Sent
  BY DEF Sent, SentIn, Ctx, Aside
<1>2. StreamInv'
  BY <1>1, StatusStream DEF RInv, Aside
<1>3. ProgressInv'
  BY DEF RInv, ProgressInv, Aside
<1>4. ReadInv' /\ SendsOnlyWhatWasRead'
  BY DEF ReadInv, SendsOnlyWhatWasRead
<1>5. QED
  BY <1>2, <1>3, <1>4 DEF RInv

(* play_wav takes a file over: nothing of the last track is anywhere.      *)
LEMMA LoadKeepsR ==
  ASSUME IInv, RInv, Load
  PROVE  RInv'
<1>1. /\ pc = "load" /\ MainRuns
      /\ \A c \in Ctx : rt[c] = "idle"
  BY MainAlone DEF Load
<1>2. g_wavsize = 0 /\ NoData /\ fifo = <<>>
  BY <1>1 DEF IInv, QuietInv, Loud, Stopping, Ctx
<1>3. /\ UNCHANGED <<bridge, fifo>>
      /\ g_fsobj' = [file |-> fwav, pos |-> 0, open |-> TRUE]
      /\ g_wavsize' = WavSize[fwav]
      /\ g_playsize' = 0
      /\ due' = 0
      /\ rt' = [rt EXCEPT !["main"] = "isr"]
  BY <1>2 DEF Load, portVars
<1>4. fwav \in Files /\ WavSize[fwav] \in Nat
  <2>1. fwav \in Files
    BY <1>1 DEF IInv, FileInv
  <2>2. QED
    BY <2>1, Types
<1>5. \A c \in Ctx : rt'[c] # "send"
  BY <1>1, <1>3 DEF IInv, TypeOK, Ctx
<1>6. Sent' = 0
  BY <1>3, <1>5 DEF Sent, SentIn, Ctx
<1>7. StreamOf(0)'
  <2>1. Len(fifo') = 0
    BY <1>2, <1>3
  <2>2. \A k \in 1..Len(bridge') : bridge'[k].reg # "fifowr"
    BY <1>2, <1>3 DEF NoData
  <2>3. QED
    BY <1>3, <1>5, <1>6, <2>1, <2>2 DEF StreamOf
<1>8. StreamInv'
  BY <1>3, <1>7, Types DEF StreamInv
<1>9. ProgressInv'
  BY <1>3, <1>4, PlayerAssumption DEF ProgressInv
<1>10. ReadInv' /\ SendsOnlyWhatWasRead'
  BY <1>5 DEF ReadInv, SendsOnlyWhatWasRead
<1>11. QED
  BY <1>8, <1>9, <1>10 DEF RInv

(* The rest of the main context posts at most a status write.              *)
LEMMA MainKeepsR ==
  ASSUME IInv, RInv, Main, ~Isr("main")
  PROVE  RInv'
<1>1. CASE Load
  BY <1>1, LoadKeepsR
<1>2. CASE Main /\ ~Load /\ ~StopMask
  <2>1. /\ Aside
        /\ UNCHANGED <<bridge, n, i, rt>>
    BY <1>2, Types
    DEF Main, NoName, GetName, OpenDir, Open, ReadHeader, CloseHeader, Kept,
        Remounted, Poll, Key, Release, PlayStop, StopMask, StopTest,
        StopEnter, StopClose, StopClear, StopWait, Aside, portVars, playVars,
        isrVars, FileObject
  <2>2. QED
    BY <2>1, AsideKeeps
<1>3. CASE StopMask
  <2>1. /\ pc = "stop" /\ MainRuns /\ Post(Status(FALSE, FALSE))
        /\ Aside
        /\ rt' = rt
    BY <1>3 DEF StopMask, Aside, playVars, isrVars
  <2>2. \A c \in Ctx : rt[c] = "idle"
    BY <2>1, MainAlone
  <2>3. QED
    BY <2>1, <2>2, StatusKeeps
<1>4. QED
  BY <1>1, <1>2, <1>3
-----------------------------------------------------------------------------
(***************************************************************************)
(* The handler, and what it has around it.                                 *)
(***************************************************************************)

(* The handler runs in one context; the other is idle.                     *)
LEMMA OthersIdle ==
  ASSUME IInv, NEW c \in Ctx, rt[c] \in Body
  PROVE  \A d \in Ctx : d # c => rt[d] = "idle"
  BY OneHandler DEF IInv, Body

(* The first step of the handler: the burst is chosen, nothing is sent.    *)
LEMMA IsrMaskKeepsR ==
  ASSUME IInv, RInv, NEW c \in Ctx, IsrMask(c)
  PROVE  RInv'
<1>1. /\ rt[c] = "isr" /\ Post(Status(FALSE, FALSE))
      /\ Aside
      /\ rt' = [rt EXCEPT ![c] = "read"]
  BY DEF IsrMask, Aside, playVars
<1>2. \A d \in Ctx : rt[d] # "send" /\ rt'[d] # "send"
  BY <1>1, OthersIdle DEF Body, IInv, TypeOK
<1>3. QED
  BY <1>1, <1>2, StatusKeeps

(* f_read fails: the buffer stays as it is, and nothing will be sent.      *)
LEMMA IsrReadErrorKeepsR ==
  ASSUME IInv, RInv, NEW c \in Ctx, IsrReadError(c)
  PROVE  RInv'
<1>1. /\ rt[c] = "read"
      /\ Aside
      /\ rt' = [rt EXCEPT ![c] = "close"]
      /\ UNCHANGED <<bridge, n, i>>
  BY DEF IsrReadError, Aside, playVars, portVars
<1>2. \A d \in Ctx : rt'[d] = "send" <=> rt[d] = "send"
  BY <1>1 DEF IInv, TypeOK
<1>3. QED
  BY <1>1, <1>2, AsideKeeps

(* f_read finds all of the burst: the file has what its header claims.     *)
LEMMA ReadsAll ==
  ASSUME IInv, WholeFiles, RInv, NEW c \in Ctx, IsrRead(c)
  PROVE  /\ g_fsobj.pos = g_playsize
         /\ g_datbuff' = Filled(4 * n[c])
         /\ g_fsobj' = [g_fsobj EXCEPT !.pos = @ + 4 * n[c]]
         /\ rt' = [rt EXCEPT ![c] = "send"]
         /\ rt[c] = "read" /\ g_fsobj.file \in Files
         /\ \A d \in Ctx : rt[d] # "send"
<1> DEFINE f == g_fsobj.file
           left == DataLen[f] - g_fsobj.pos
           b == IF left < 4 * n[c] THEN left ELSE 4 * n[c]
<1>1. /\ rt[c] = "read" /\ g_fsobj.open /\ ready
      /\ g_datbuff' = Filled(b)
      /\ g_fsobj' = [g_fsobj EXCEPT !.pos = @ + b]
      /\ \/ ShortRead(b, n[c])
         \/ rt' = [rt EXCEPT ![c] = "send"] /\ ~ShortRead(b, n[c])
  BY DEF IsrRead
<1>2. \A d \in Ctx : rt[d] # "send"
  BY <1>1, OthersIdle DEF Body
<1>3. g_fsobj.pos = g_playsize
  BY <1>1, <1>2 DEF RInv, ProgressInv
<1>4. f \in Files
  BY <1>1 DEF IInv, FileInv
<1>5. g_playsize + 4 * n[c] <= g_wavsize
  BY <1>1 DEF IInv, BurstInv
<1>6. /\ g_playsize \in Nat /\ n[c] \in Nat /\ g_wavsize \in Nat
      /\ WavSize[f] \in Nat /\ DataLen[f] \in Nat
  BY <1>4, Types
<1>7. g_playsize + 4 * n[c] <= DataLen[f]
  <2>1. CASE g_wavsize # 0
    <3>1. g_wavsize = WavSize[f] /\ WavSize[f] <= DataLen[f]
      BY <2>1, <1>4 DEF RInv, ProgressInv, WholeFiles
    <3>2. QED
      BY <1>5, <1>6, <3>1
  <2>2. CASE g_wavsize = 0
    BY <1>5, <1>6, <2>2
  <2>3. QED
    BY <2>1, <2>2
<1>8. b = 4 * n[c]
  BY <1>3, <1>6, <1>7
<1>9. ~ShortRead(b, n[c])
  BY <1>6, <1>8 DEF ShortRead
<1>10. QED
  BY <1>1, <1>2, <1>3, <1>4, <1>8, <1>9

LEMMA IsrReadKeepsR ==
  ASSUME IInv, WholeFiles, RInv, NEW c \in Ctx, IsrRead(c)
  PROVE  RInv'
<1>1. /\ g_fsobj.pos = g_playsize
      /\ g_datbuff' = Filled(4 * n[c])
      /\ g_fsobj' = [g_fsobj EXCEPT !.pos = @ + 4 * n[c]]
      /\ rt' = [rt EXCEPT ![c] = "send"]
      /\ rt[c] = "read" /\ g_fsobj.file \in Files
      /\ \A d \in Ctx : rt[d] # "send"
  BY ReadsAll
<1>2. /\ UNCHANGED <<bridge, fifo, due, g_playsize, g_wavsize, n, i>>
      /\ bridge = <<>>
  BY DEF IsrRead, portVars, Flushed
<1>3. /\ g_fsobj'.file = g_fsobj.file
      /\ g_fsobj'.pos = g_playsize + 4 * n[c]
      /\ g_fsobj'.open = g_fsobj.open
  BY <1>1, Types DEF FileObject
<1>4. /\ rt'[c] = "send"
      /\ \A d \in Ctx : d # c => rt'[d] # "send"
  BY <1>1 DEF IInv, TypeOK
<1>5. i[c] = 0
  BY <1>1 DEF IInv, HandlerInv
<1>6. Sent' = Sent
  BY <1>1, <1>2, <1>4, <1>5, Types DEF Sent, SentIn, Ctx
<1>7. StreamOf(0)
  BY <1>2 DEF RInv, StreamInv
<1>8. StreamOf(0)'
  BY <1>2, <1>3, <1>6, <1>7 DEF StreamOf
<1>9. StreamInv'
  BY <1>2, <1>8 DEF StreamInv
<1>10. ProgressInv'
  BY <1>2, <1>3, <1>4 DEF RInv, ProgressInv
<1>11. ReadInv'
  BY <1>2, <1>3, <1>4 DEF ReadInv
<1>12. SendsOnlyWhatWasRead'
  <2> SUFFICES ASSUME NEW k \in 1..n[c]
               PROVE  g_datbuff'[k]
                        = <<g_fsobj'.file, g_playsize' \div 4 + k - 1>>
    BY <1>2, <1>4 DEF SendsOnlyWhatWasRead
  <2>1. k \in 1..Burst /\ 4 * k <= 4 * n[c]
    BY Types
  <2>2. g_datbuff'[k] = <<g_fsobj.file, g_fsobj.pos \div 4 + k - 1>>
    BY <1>1, <2>1 DEF Filled
  <2>3. QED
    BY <1>1, <1>2, <1>3, <2>2
<1>13. QED
  BY <1>9, <1>10, <1>11, <1>12 DEF RInv

(* One word of the burst is posted: the next one of the file.              *)
LEMMA IsrSendKeepsR ==
  ASSUME IInv, RInv, NEW c \in Ctx, IsrSend(c)
  PROVE  RInv'
<1> DEFINE w == g_datbuff[i[c] + 1]
           f == g_fsobj.file
<1>1. /\ rt[c] = "send" /\ i[c] < n[c]
      /\ Post(FifoWr(w))
      /\ i' = [i EXCEPT ![c] = @ + 1]
      /\ UNCHANGED <<fifo, due, g_playsize, g_wavsize, g_fsobj, g_datbuff,
                     rt, n>>
  BY DEF IsrSend, playVars
<1>2. /\ i[c] \in Nat /\ n[c] \in Nat /\ n[c] <= Burst /\ Burst \in Nat
      /\ g_playsize \in Nat /\ due \in Nat
      /\ Len(fifo) \in Nat /\ Len(bridge) \in Nat
  BY Types
<1>3. w = <<f, g_playsize \div 4 + i[c]>>
  <2>1. i[c] + 1 \in 1..n[c]
    BY <1>1, <1>2
  <2>2. g_datbuff[i[c] + 1]
          = <<f, g_playsize \div 4 + (i[c] + 1) - 1>>
    BY <1>1, <2>1 DEF RInv, SendsOnlyWhatWasRead
  <2>3. g_playsize \div 4 + (i[c] + 1) - 1 = g_playsize \div 4 + i[c]
    BY <1>2
  <2>4. QED
    BY <2>2, <2>3
<1>4. PICK m \in 0..Len(bridge) : StreamOf(m) /\ m = Len(bridge)
  BY <1>1 DEF RInv, StreamInv, StreamOf
<1>5. Sent = g_playsize \div 4 + i[c]
  BY <1>1, SentBy
<1>6. w = <<f, due + Len(fifo) + m>>
  BY <1>3, <1>4, <1>5 DEF StreamOf
<1>7. /\ Len(bridge') = Len(bridge) + 1
      /\ \A k \in 1..Len(bridge) : bridge'[k] = bridge[k]
      /\ bridge'[Len(bridge) + 1].reg = "fifowr"
      /\ bridge'[Len(bridge) + 1].word = w
  <2> DEFINE x == FifoWr(w)
  <2>1. w \in Word
    BY <1>1, <1>2 DEF IInv, TypeOK
  <2>2. x \in Command /\ x.reg = "fifowr" /\ x.word = w
    BY <2>1 DEF FifoWr, Command
  <2>3. bridge \in Seq(Command) /\ Len(bridge) <= BridgeDepth
    BY DEF IInv, TypeOK, PortTypeOK
  <2>4. Post(x)
    BY <1>1
  <2> HIDE DEF x
  <2>5. QED
    BY <2>2, <2>3, <2>4, PostStep
<1>8. /\ i'[c] = i[c] + 1
      /\ \A d \in Ctx : d # c => rt[d] = "idle"
  BY <1>1, OthersIdle DEF Body, IInv, TypeOK
<1>9. Sent' = Sent + 1
  BY <1>1, <1>2, <1>8 DEF Sent, SentIn, Ctx
<1> HIDE DEF w
<1>10. StreamOf(m + 1)'
  <2>1. due' + Len(fifo') + (m + 1) = Sent'
    BY <1>1, <1>2, <1>4, <1>9 DEF StreamOf
  <2>2. \A k \in 1..Len(fifo') : fifo'[k] = <<g_fsobj'.file, due' + k - 1>>
    BY <1>1, <1>4 DEF StreamOf
  <2>3. ASSUME NEW k \in 1..Len(bridge')
        PROVE  /\ bridge'[k].reg = "fifowr" /\ k <= m + 1
               /\ bridge'[k].word = <<f, due + Len(fifo) + k - 1>>
    <3>1. CASE k \in 1..Len(bridge)
      BY <1>4, <1>7, <3>1 DEF StreamOf
    <3>2. CASE k = Len(bridge) + 1
      <4>1. due + Len(fifo) + k - 1 = due + Len(fifo) + m
        BY <1>2, <1>4, <3>2
      <4>2. QED
        BY <1>4, <1>6, <1>7, <3>2, <4>1
    <3>3. QED
      BY <1>2, <1>7, <2>3, <3>1, <3>2
  <2>4. m + 1 = Len(bridge')
    BY <1>4, <1>7
  <2>5. QED
    BY <1>1, <2>1, <2>2, <2>3, <2>4 DEF StreamOf
<1>11. StreamInv'
  BY <1>2, <1>4, <1>7, <1>10 DEF StreamInv
<1>12. ProgressInv' /\ ReadInv' /\ SendsOnlyWhatWasRead'
  BY <1>1 DEF RInv, ProgressInv, ReadInv, SendsOnlyWhatWasRead
<1>13. QED
  BY <1>11, <1>12 DEF RInv

(* The end of a burst: what it has sent is now counted in g_playsize.      *)
LEMMA BurstCounted ==
  ASSUME IInv, RInv, NEW c \in Ctx, rt[c] = "send", i[c] = n[c],
         g_playsize' = Advanced(c), rt'[c] # "send",
         \A d \in Ctx : d # c => rt'[d] = rt[d],
         UNCHANGED <<fifo, due, g_wavsize, g_fsobj, g_datbuff>>
  PROVE  /\ Sent' = Sent
         /\ ProgressInv'
         /\ \A d \in Ctx : rt'[d] # "send"
<1>1. /\ g_playsize' = g_playsize + 4 * n[c]
      /\ g_playsize + 4 * n[c] <= g_wavsize
      /\ n[c] \in Nat /\ g_playsize \in Nat
  BY SentBytes
<1>2. \A d \in Ctx : rt'[d] # "send"
  BY OthersIdle DEF Body
<1>3. Sent' = g_playsize' \div 4
  BY <1>1, <1>2 DEF Sent, SentIn, Ctx
<1>4. Sent = g_playsize \div 4 + n[c]
  BY SentBy
<1>5. g_playsize % 4 = 0
  BY DEF RInv, ProgressInv
<1>6. /\ g_playsize' \div 4 = g_playsize \div 4 + n[c]
      /\ g_playsize' % 4 = 0
  BY <1>1, <1>5
<1>7. g_fsobj.file \in Files /\ g_fsobj.pos = g_playsize'
  BY <1>1 DEF IInv, FileInv, RInv, ReadInv
<1>8. g_playsize' <= WavSize[g_fsobj.file]
  <2>1. WavSize[g_fsobj.file] \in Nat /\ g_wavsize \in Nat
    BY <1>7, Types
  <2>2. CASE g_wavsize = 0
    BY <1>1, <2>1, <2>2
  <2>3. CASE g_wavsize # 0
    BY <1>1, <2>3 DEF RInv, ProgressInv
  <2>4. QED
    BY <2>2, <2>3
<1>9. ProgressInv'
  BY <1>6, <1>7, <1>8, Types DEF RInv, ProgressInv
<1>10. QED
  BY <1>2, <1>3, <1>4, <1>6, <1>9

(* Unmasking posts a status write behind the last word of the burst.       *)
LEMMA IsrUnmaskKeepsR ==
  ASSUME IInv, RInv, NEW c \in Ctx, IsrUnmask(c)
  PROVE  RInv'
<1>1. /\ rt[c] = "send" /\ i[c] = n[c]
      /\ Post(Status(TRUE, FALSE))
      /\ g_playsize' = Advanced(c)
      /\ UNCHANGED <<fifo, due, g_wavsize, g_fsobj, g_datbuff>>
      /\ rt' = [rt EXCEPT ![c] = IF c = "irq" THEN "again" ELSE "idle"]
  BY DEF IsrUnmask, IsrReturns
<1>2. /\ rt'[c] # "send"
      /\ \A d \in Ctx : d # c => rt'[d] = rt[d]
  BY <1>1 DEF IInv, TypeOK
<1>3. /\ Sent' = Sent
      /\ ProgressInv'
      /\ \A d \in Ctx : rt'[d] # "send"
  BY <1>1, <1>2, BurstCounted
<1>4. StreamInv'
  BY <1>1, <1>3, StatusStream DEF RInv
<1>5. ReadInv' /\ SendsOnlyWhatWasRead'
  BY <1>3 DEF ReadInv, SendsOnlyWhatWasRead
<1>6. QED
  BY <1>3, <1>4, <1>5 DEF RInv

(* The last burst is out.                                                  *)
LEMMA IsrSentKeepsR ==
  ASSUME IInv, RInv, NEW c \in Ctx, IsrSent(c)
  PROVE  RInv'
<1>1. /\ rt[c] = "send" /\ i[c] = n[c]
      /\ g_playsize' = Advanced(c)
      /\ UNCHANGED <<bridge, fifo, due, g_wavsize, g_fsobj, g_datbuff>>
      /\ rt' = [rt EXCEPT ![c] = "close"]
  BY DEF IsrSent, portVars
<1>2. /\ rt'[c] # "send"
      /\ \A d \in Ctx : d # c => rt'[d] = rt[d]
  BY <1>1 DEF IInv, TypeOK
<1>3. /\ Sent' = Sent
      /\ ProgressInv'
      /\ \A d \in Ctx : rt'[d] # "send"
  BY <1>1, <1>2, BurstCounted
<1>4. PICK m \in 0..Len(bridge) : StreamOf(m)
  BY DEF RInv, StreamInv
<1>5. StreamOf(m)'
  BY <1>1, <1>3, <1>4 DEF StreamOf
<1>6. StreamInv'
  BY <1>1, <1>4, <1>5 DEF StreamInv
<1>7. ReadInv' /\ SendsOnlyWhatWasRead'
  BY <1>3 DEF ReadInv, SendsOnlyWhatWasRead
<1>8. QED
  BY <1>3, <1>6, <1>7 DEF RInv

(* f_close: the words that are out stay where they are.                    *)
LEMMA IsrCloseKeepsR ==
  ASSUME IInv, RInv, NEW c \in Ctx, IsrClose(c)
  PROVE  RInv'
<1>1. /\ rt[c] = "close"
      /\ Aside
      /\ rt' = [rt EXCEPT ![c] = IF c = "irq" THEN "again" ELSE "idle"]
      /\ UNCHANGED <<bridge, n, i>>
  BY Types DEF IsrClose, IsrReturns, Aside, portVars, FileObject
<1>2. \A d \in Ctx : rt'[d] = "send" <=> rt[d] = "send"
  BY <1>1 DEF IInv, TypeOK
<1>3. QED
  BY <1>1, <1>2, AsideKeeps

(* The HAL's dispatcher decides only whether the handler runs.             *)
LEMMA HalKeepsR ==
  ASSUME IInv, RInv, HalTake \/ HalTest \/ HalFind \/ HalAgain
  PROVE  RInv'
<1>1. /\ Aside
      /\ UNCHANGED <<bridge, n, i>>
      /\ rt["irq"] \in Dispatch \union {"idle"}
      /\ \E to \in Dispatch \union Hung \union {"isr", "idle"} :
           rt' = [rt EXCEPT !["irq"] = to]
  BY DEF HalTake, HalTest, HalFind, HalAgain, HalStep, Aside, portVars,
         playVars, Dispatch, Hung
<1>2. \A d \in Ctx : rt'[d] = "send" <=> rt[d] = "send"
  BY <1>1 DEF IInv, TypeOK, Dispatch, Hung
<1>3. QED
  BY <1>1, <1>2, AsideKeeps
-----------------------------------------------------------------------------
(***************************************************************************)
(* The bridge and the audio clock.                                         *)
(***************************************************************************)

(* A write lands: a word moves from the bridge to the end of the FIFO,     *)
(* which has room for it and is out of reset.                              *)
LEMMA LandKeepsR ==
  ASSUME IInv, RInv, Land
  PROVE  RInv'
<1>1. /\ Deliver
      /\ UNCHANGED <<pc, playVars, isrVars, fsVars>>
      /\ UNCHANGED <<due, g_playsize, g_wavsize, g_datbuff, g_fsobj, rt, n, i>>
  BY DEF Land, playVars, isrVars
<1>2. /\ bridge # <<>> /\ bridge' = Tail(bridge)
      /\ Len(bridge') = Len(bridge) - 1
      /\ \A k \in 1..Len(bridge') : bridge'[k] = bridge[k + 1]
      /\ Head(bridge) = bridge[1]
      /\ bridge[1] \in Command
      /\ bridge[1].reg = "status" /\ ~bridge[1].rst => fifo' = fifo
  BY <1>1, DeliverStep DEF IInv, TypeOK, Deliver
<1>3. /\ fifo \in Seq(Word) /\ Len(fifo) \in Nat
      /\ Len(bridge) \in Nat \ {0}
      /\ due \in Nat
      /\ 1 \in 1..Len(bridge)
  BY <1>2, Types
<1>4. ~bridge[1].rst
  BY <1>3 DEF IInv, BridgeInv
<1>5. Sent' = Sent
  BY <1>1 DEF Sent, SentIn
<1>6. PICK m \in 0..Len(bridge) : StreamOf(m)
  BY DEF RInv, StreamInv
<1>7. ASSUME bridge[1].reg = "status"
      PROVE  StreamInv'
  <2>0. bridge[1].reg = "fifowr" <=> 1 <= m
    BY <1>3, <1>6 DEF StreamOf
  <2>1. m = 0
    BY <1>3, <1>6, <1>7, <2>0
  <2>2. \A c \in Ctx : rt[c] # "send"
    BY <1>3, <1>6, <2>1 DEF StreamOf
  <2>3. fifo' = fifo
    BY <1>2, <1>4, <1>7
  <2>4. \A k \in 1..Len(bridge') : bridge'[k].reg # "fifowr"
    BY <1>2, <1>3, <1>6, <2>1 DEF StreamOf
  <2>5. StreamOf(0)'
    BY <1>1, <1>5, <1>6, <2>1, <2>2, <2>3, <2>4 DEF StreamOf
  <2>6. 0 \in 0..Len(bridge')
    BY <1>2, <1>3
  <2>7. QED
    BY <2>5, <2>6 DEF StreamInv
<1>8. ASSUME bridge[1].reg = "fifowr"
      PROVE  StreamInv'
  <2>1. /\ m >= 1
        /\ bridge[1].word = <<g_fsobj.file, due + Len(fifo)>>
    BY <1>3, <1>6, <1>8 DEF StreamOf
  <2>2. fifo' = Append(fifo, bridge[1].word)
    <3>1. Len(fifo) + 1 <= Depth /\ Depth \in Nat
      BY <1>3, <1>8, PortAssumption DEF IInv, BridgeInv
    <3>2. ~fiforst
      BY <1>3, <1>8 DEF IInv, ResetInv, NoData
    <3>3. Len(fifo) # Depth
      BY <1>3, <3>1
    <3>4. QED
      BY <1>1, <1>2, <1>8, <3>2, <3>3 DEF Deliver
  <2>3. /\ Len(fifo') = Len(fifo) + 1
        /\ \A k \in 1..Len(fifo) : fifo'[k] = fifo[k]
        /\ fifo'[Len(fifo) + 1] = bridge[1].word
    BY <1>2, <1>3, <2>2 DEF Command
  <2>4. ASSUME NEW k \in 1..Len(fifo')
        PROVE  fifo'[k] = <<g_fsobj.file, due + k - 1>>
    <3>1. CASE k \in 1..Len(fifo)
      BY <1>6, <2>3, <3>1 DEF StreamOf
    <3>2. CASE k = Len(fifo) + 1
      <4>1. due + k - 1 = due + Len(fifo)
        BY <1>3, <3>2
      <4>2. QED
        BY <2>1, <2>3, <3>2, <4>1
    <3>3. QED
      BY <1>3, <2>3, <2>4, <3>1, <3>2
  <2>5. ASSUME NEW k \in 1..Len(bridge')
        PROVE  /\ bridge'[k].reg = "fifowr" <=> k <= m - 1
               /\ k <= m - 1 => bridge'[k].word
                        = <<g_fsobj.file, due + Len(fifo') + k - 1>>
    <3>1. k + 1 \in 1..Len(bridge) /\ bridge'[k] = bridge[k + 1]
      BY <1>2, <1>3
    <3>2. /\ bridge[k + 1].reg = "fifowr" <=> k + 1 <= m
          /\ k + 1 <= m => bridge[k + 1].word
                       = <<g_fsobj.file, due + Len(fifo) + (k + 1) - 1>>
      BY <1>6, <3>1 DEF StreamOf
    <3>3. due + Len(fifo) + (k + 1) - 1 = due + Len(fifo') + k - 1
      BY <1>3, <2>3
    <3>4. QED
      BY <1>6, <3>1, <3>2, <3>3
  <2>6. due + Len(fifo') + (m - 1) = Sent
    BY <1>3, <1>6, <2>3 DEF StreamOf
  <2>7. \A c \in Ctx : rt[c] = "send" => m - 1 = Len(bridge')
    BY <1>2, <1>6 DEF StreamOf
  <2>8. StreamOf(m - 1)'
    BY <1>1, <1>5, <2>4, <2>5, <2>6, <2>7 DEF StreamOf
  <2>9. m - 1 \in 0..Len(bridge')
    BY <1>2, <1>3, <1>6, <2>1
  <2>10. QED
    BY <2>8, <2>9 DEF StreamInv
<1>9. StreamInv'
  BY <1>2, <1>7, <1>8 DEF Command
<1>10. ProgressInv' /\ ReadInv' /\ SendsOnlyWhatWasRead'
  BY <1>1 DEF RInv, ProgressInv, ReadInv, SendsOnlyWhatWasRead
<1>11. QED
  BY <1>9, <1>10 DEF RInv

(* A sample period: the word at the head of the FIFO is the next one due.  *)
LEMMA SampleStep ==
  ASSUME IInv, RInv, Sample
  PROVE  /\ fifo # <<>> => dac' = <<g_fsobj.file, due>> /\ due' = due + 1
         /\ fifo = <<>> => dac' = Silence /\ due' = due
<1>1. fifo # <<>> => 1 \in 1..Len(fifo) /\ Head(fifo) = fifo[1]
  BY Types
<1>2. 1 \in 1..Len(fifo) => fifo[1] = <<g_fsobj.file, due + 1 - 1>>
  BY DEF RInv, StreamInv, StreamOf
<1>3. due + 1 - 1 = due
  BY Types
<1>4. QED
  BY <1>1, <1>2, <1>3 DEF Sample, Tick, PLAY

LEMMA SampleKeepsR ==
  ASSUME IInv, RInv, Sample
  PROVE  RInv'
<1>1. /\ Tick
      /\ due' = IF fifo # <<>> THEN due + 1 ELSE due
      /\ UNCHANGED <<bridge, g_playsize, g_wavsize, g_datbuff, g_fsobj, rt,
                     n, i>>
  BY DEF Sample, Tick, PLAY, isrVars
<1>2. Sent' = Sent
  BY <1>1 DEF Sent, SentIn
<1>3. PICK m \in 0..Len(bridge) : StreamOf(m)
  BY DEF RInv, StreamInv
<1>4. ASSUME fifo = <<>>
      PROVE  StreamOf(m)'
  <2>1. fifo' = fifo /\ due' = due
    BY <1>1, <1>4 DEF Tick
  <2>2. QED
    BY <1>1, <1>2, <1>3, <2>1 DEF StreamOf
<1>5. ASSUME fifo # <<>>
      PROVE  StreamOf(m)'
  <2>1. /\ fifo' = Tail(fifo) /\ due' = due + 1
        /\ fifo \in Seq(Word) /\ due \in Nat
    BY <1>1, <1>5, Types DEF Tick
  <2>2. /\ Len(fifo) \in Nat /\ Len(fifo') = Len(fifo) - 1
        /\ \A k \in 1..Len(fifo') : fifo'[k] = fifo[k + 1]
    BY <1>5, <2>1
  <2>3. due' + Len(fifo') = due + Len(fifo)
    <3>1. due \in Int /\ Len(fifo) \in Int
      BY <2>1, <2>2
    <3>2. due' = due + 1 /\ Len(fifo') = Len(fifo) - 1
      BY <2>1, <2>2
    <3>3. (due + 1) + (Len(fifo) - 1) = due + Len(fifo)
      BY <3>1
    <3>4. QED
      BY <3>2, <3>3
  <2>4. ASSUME NEW k \in 1..Len(fifo')
        PROVE  fifo'[k] = <<g_fsobj.file, due' + k - 1>>
    <3>1. k + 1 \in 1..Len(fifo)
      BY <2>2
    <3>2. fifo[k + 1] = <<g_fsobj.file, due + (k + 1) - 1>>
      BY <1>3, <3>1 DEF StreamOf
    <3>3. due + (k + 1) - 1 = due' + k - 1
      BY <2>1, <2>2
    <3>4. QED
      BY <2>2, <3>2, <3>3
  <2>5. QED
    BY <1>1, <1>2, <1>3, <2>3, <2>4 DEF StreamOf
<1>6. StreamInv'
  BY <1>1, <1>3, <1>4, <1>5 DEF StreamInv
<1>7. ProgressInv' /\ ReadInv' /\ SendsOnlyWhatWasRead'
  BY <1>1 DEF RInv, ProgressInv, ReadInv, SendsOnlyWhatWasRead
<1>8. QED
  BY <1>6, <1>7 DEF RInv

(* Every step of the system keeps RInv.                                    *)
LEMMA NextKeepsR ==
  ASSUME IInv, WholeFiles, RInv, [Next]_vars
  PROVE  RInv'
<1>1. CASE Isr("main") \/ Isr("irq")
  <2>1. PICK c \in Ctx : Isr(c)
    BY <1>1 DEF Ctx
  <2>2. QED
    BY <2>1, IsrMaskKeepsR, IsrReadErrorKeepsR, IsrReadKeepsR, IsrSendKeepsR,
       IsrUnmaskKeepsR, IsrSentKeepsR, IsrCloseKeepsR DEF Isr
<1>2. CASE Main /\ ~Isr("main")
  BY <1>2, MainKeepsR
<1>3. CASE Interrupt /\ ~Isr("irq")
  BY <1>3, HalKeepsR DEF Interrupt
<1>4. CASE UNCHANGED vars
  <2>1. Aside /\ UNCHANGED <<bridge, n, i, rt>>
    BY <1>4 DEF vars, portVars, playVars, isrVars, Aside
  <2>2. QED
    BY <2>1, AsideKeeps
<1>5. QED
  BY <1>1, <1>2, <1>3, <1>4, LandKeepsR, SampleKeepsR DEF Next
-----------------------------------------------------------------------------
(***************************************************************************)
(* What follows for every behaviour.                                       *)
(***************************************************************************)

(* The words of a track are where they belong: those in the bridge behind  *)
(* those in the FIFO, behind those the DAC has had, up to what g_playsize  *)
(* and the burst under way say has been sent.                              *)
THEOREM Stream == WholeFiles /\ Spec => []RInv
<1> SUFFICES ASSUME WholeFiles
             PROVE  Spec => []RInv
  OBVIOUS
<1>1. Init => RInv
  BY RInit
<1>2. IInv /\ RInv /\ [Next]_vars => RInv'
  BY NextKeepsR
<1>3. QED
  BY <1>1, <1>2, Invariance, PTL DEF Spec

(* Every word of a burst is one its f_read has brought, in a directory     *)
(* whose headers claim no more than the files hold; without that the run   *)
(* truncated_file shows it false.                                          *)
THEOREM BurstsWereRead == WholeFiles /\ Spec => []SendsOnlyWhatWasRead
<1>1. RInv => SendsOnlyWhatWasRead
  BY DEF RInv
<1>2. QED
  BY <1>1, Stream, PTL

(* A step of the player is a step of Playback or changes nothing in it:    *)
(* play_wav's takeover begins a track, a sample period sounds the word     *)
(* that is due or is quiet.                                                *)
LEMMA StepSimulates ==
  ASSUME IInv, WholeFiles, RInv, [Next]_vars
  PROVE  [Listener!Next]_(Listener!vars)
<1>1. CASE Sample
  <2>1. g_fsobj' = g_fsobj
    BY <1>1 DEF Sample
  <2>2. CASE fifo # <<>>
    <3>1. /\ g_fsobj.file \in Files
          /\ due < TrackLength[g_fsobj.file]
      BY <2>2, WithinTrack
    <3>2. dac' = <<g_fsobj.file, due>> /\ due' = due + 1
      BY <1>1, <2>2, SampleStep
    <3>3. Listener!Sound
      BY <2>1, <3>1, <3>2, PlayerAssumption DEF Listener!Sound
    <3>4. QED
      BY <3>3 DEF Listener!Next
  <2>3. CASE fifo = <<>>
    <3>1. Listener!Quiet
      BY <1>1, <2>1, <2>3, SampleStep DEF Listener!Quiet
    <3>2. QED
      BY <3>1 DEF Listener!Next
  <2>4. QED
    BY <2>2, <2>3
<1>2. CASE Load /\ g_wavsize = 0
  <2>1. /\ g_fsobj' = [file |-> fwav, pos |-> 0, open |-> TRUE]
        /\ due' = 0 /\ dac' = dac
        /\ pc = "load"
    BY <1>2 DEF Load, portVars
  <2>2. fwav \in Files
    BY <2>1 DEF IInv, FileInv
  <2>3. Listener!Begin
    BY <2>1, <2>2 DEF Listener!Begin
  <2>4. QED
    BY <2>3 DEF Listener!Next
<1>3. CASE Main /\ ~(Load /\ g_wavsize = 0) /\ ~Isr("main")
  <2>1. /\ g_fsobj'.file = g_fsobj.file
        /\ UNCHANGED <<due, dac>>
    BY <1>3, Types
    DEF Main, NoName, GetName, OpenDir, Open, ReadHeader, CloseHeader, Kept,
        Remounted, Poll, Key, Release, PlayStop, StopMask, StopTest,
        StopEnter, StopClose, StopClear, StopWait, Load, portVars, playVars,
        FileObject
  <2>2. QED
    BY <2>1 DEF Listener!vars
<1>4. ASSUME NEW c \in Ctx, Isr(c)
      PROVE  UNCHANGED Listener!vars
  <2>1. /\ g_fsobj'.file = g_fsobj.file
        /\ UNCHANGED <<due, dac>>
    BY <1>4, Types
    DEF Isr, IsrMask, IsrReadError, IsrRead, IsrSend, IsrUnmask, IsrSent,
        IsrClose, portVars, playVars, FileObject
  <2>2. QED
    BY <2>1 DEF Listener!vars
<1>5. CASE Interrupt /\ ~Isr("irq")
  BY <1>5 DEF Interrupt, HalTake, HalTest, HalFind, HalAgain, HalStep,
     portVars, playVars, Listener!vars
<1>6. CASE Land
  BY <1>6 DEF Land, Deliver, playVars, Listener!vars
<1>7. CASE UNCHANGED vars
  BY <1>7 DEF vars, portVars, playVars, Listener!vars
<1>8. QED
  BY <1>1, <1>2, <1>3, <1>4, <1>5, <1>6, <1>7 DEF Next, Main, Interrupt, Ctx

(* The refinement: FIFO, bridge, refill interrupt, directory walk and      *)
(* play_stop together give the DAC the words of each track in the order of *)
(* its file, none twice, none left out and none of another track.          *)
THEOREM Refinement == WholeFiles /\ Spec => PlaysTheFile
<1> SUFFICES ASSUME WholeFiles
             PROVE  Spec => PlaysTheFile
  OBVIOUS
<1>1. Init => Listener!Init
  BY DEF Init, PortInit, Listener!Init
<1>2. IInv /\ RInv /\ [Next]_vars => [Listener!Next]_(Listener!vars)
  BY StepSimulates
<1>3. QED
  BY <1>1, <1>2, Invariance, Stream, PTL
  DEF Spec, PlaysTheFile, Listener!Spec
=============================================================================
