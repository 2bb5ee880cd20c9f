------------------------------ MODULE PcmPort ------------------------------
(***************************************************************************)
(* The PCM peripheral (ip/pcm_component/pcm_component.v) as the processor  *)
(* reaches it: through the clock crossing bridge of cineraria_core.qsys.   *)
(*                                                                         *)
(* A write is POSTED: the processor goes on as soon as the bridge's        *)
(* command FIFO has taken it, and the peripheral sees it later, in order.  *)
(* A read is answered by the peripheral behind every write before it, so   *)
(* it completes only when the bridge is empty.  The interrupt line does    *)
(* not pass through the bridge: it shows the registers as they are, not as *)
(* the processor has asked them to be.                                     *)
(*                                                                         *)
(* The play FIFO crosses into the audio clock; its write-side counts lag   *)
(* the reads by a few cycles, which is a Tick that comes later.            *)
(***************************************************************************)
EXTENDS Integers, Sequences

CONSTANTS
  Depth,        \* words in the play FIFO                      (1024)
  Threshold,    \* the FIFO interrupts while it holds fewer     (768)
  BridgeDepth,  \* commands the bridge holds                      (4)
  Word,         \* what a 32 bit stereo sample can be
  Silence       \* what the DAC is given when the FIFO is empty

ASSUME PortAssumption ==
  /\ Depth \in Nat \ {0}
  /\ Threshold \in 1..Depth
  /\ BridgeDepth \in Nat \ {0}
  /\ Silence \in Word

VARIABLES
  bridge,    \* posted writes the peripheral has not seen yet
  irqena,    \* STATUS.IRQENA
  fiforst,   \* STATUS.FIFORST: the FIFO is held in reset
  fifo,      \* the play FIFO
  dac        \* the sample given to the DAC at the last fs_timing

portVars == <<bridge, irqena, fiforst, fifo, dac>>

(* Mutant of Status: the interrupt can be enabled but not masked.          *)
Status_keeps_irq(irq, rst) ==
  [reg |-> "status", irq |-> ~rst, rst |-> rst, word |-> Silence]

(* A write to the STATUS register and a write to the FIFOWR register.      *)
Status(irq, rst) ==
  [reg |-> "status", irq |-> irq, rst |-> rst, word |-> Silence]
FifoWr(w) == [reg |-> "fifowr", irq |-> FALSE, rst |-> FALSE, word |-> w]

Command ==
  [reg : {"status", "fifowr"}, irq : BOOLEAN, rst : BOOLEAN, word : Word]

PortTypeOK ==
  /\ bridge \in Seq(Command)
  /\ Len(bridge) <= BridgeDepth
  /\ irqena \in BOOLEAN
  /\ fiforst \in BOOLEAN
  /\ fifo \in Seq(Word)
  /\ Len(fifo) <= Depth
  /\ dac \in Word

(* After reset, and after play_init's irqdisable | fiforst.                *)
PortInit ==
  /\ bridge = <<>>
  /\ irqena = FALSE
  /\ fiforst = TRUE
  /\ fifo = <<>>
  /\ dac = Silence

(* Mutant of Irq: the level is taken from the full flag.                   *)
Irq_any_level == irqena /\ Len(fifo) < Depth

(* ins_irq: a level, raised while the FIFO is below the threshold.         *)
Irq == irqena /\ Len(fifo) < Threshold

(* STATUS.PLAY, as a read that reaches the peripheral finds it.            *)
PLAY == fifo # <<>>

(* IOWR: the bridge takes the command, or holds the processor up.          *)
Post(c) ==
  /\ Len(bridge) < BridgeDepth
  /\ bridge' = Append(bridge, c)

(* Mutant of Flushed: a read overtakes the writes before it.               *)
Flushed_overtakes == TRUE

(* IORD: answered once every write before it has landed.                   *)
Flushed == bridge = <<>>

(* The oldest posted write reaches the peripheral.  A word written while   *)
(* the FIFO is full or in reset goes nowhere.                              *)
Deliver ==
  /\ bridge # <<>>
  /\ bridge' = Tail(bridge)
  /\ LET c == Head(bridge)
     IN  \/ /\ c.reg = "status"
            /\ irqena' = c.irq
            /\ fiforst' = c.rst
            /\ fifo' = IF c.rst THEN <<>> ELSE fifo
         \/ /\ c.reg = "fifowr"
            /\ fifo' = IF fiforst \/ Len(fifo) = Depth
                         THEN fifo ELSE Append(fifo, c.word)
            /\ UNCHANGED <<irqena, fiforst>>
  /\ UNCHANGED dac

(* One sample period of the audio clock: the word at the head of the       *)
(* show-ahead FIFO goes to the DAC, or silence when there is none.         *)
Tick ==
  /\ \/ /\ fifo # <<>>
        /\ dac' = Head(fifo)
        /\ fifo' = Tail(fifo)
     \/ /\ fifo = <<>>
        /\ dac' = Silence
        /\ UNCHANGED fifo
  /\ UNCHANGED <<bridge, irqena, fiforst>>

-----------------------------------------------------------------------------

(* No sample is lost between playwav.c and the DAC: a word that reaches    *)
(* the peripheral finds the FIFO out of reset and with a free place.       *)
(* playwav.c never reads the fill level before it writes a burst.          *)
NoSampleLost ==
  bridge # <<>> /\ Head(bridge).reg = "fifowr"
    => ~fiforst /\ Len(fifo) < Depth
=============================================================================
