----------------------------- MODULE WavPlayer -----------------------------
(***************************************************************************)
(* The playback core of software/cineraria_wavplay: the main loop of       *)
(* wav_player.c, the playback library playwav.c with its FIFO interrupt,   *)
(* the directory walk of getfilename.c, the HAL's interrupt dispatcher     *)
(* (alt_irq_entry.S, alt_irq_handler.c) and as much of FatFs as decides    *)
(* whether a call on a file succeeds.  The PCM peripheral and the bridge   *)
(* in front of it are PcmPort.                                             *)
(*                                                                         *)
(* Two contexts execute: "main" and "irq".  An interrupt that is asserted  *)
(* is taken before the main context's next step; interrupts do not nest.   *)
(* The handler's body runs in either context, because play_wav calls it    *)
(* directly to send the first burst.                                       *)
(*                                                                         *)
(* A call into FatFs lasts: it begins in one step and ends in another, and *)
(* an interrupt may come between.  Sizes and positions are bytes, as in    *)
(* the code; a sample is <<file, index of the word in its data>>.          *)
(***************************************************************************)
EXTENDS PcmPort, FiniteSets

CONSTANTS
  Burst,      \* words per refill: the size of g_datbuff (256)
  UintMod,    \* 2^32, the range of an unsigned int
  Files,      \* the .wav files of the directory
  NoFile,
  Listing,    \* the order in which f_readdir returns them
  Supported,  \* those whose header play_wav accepts
  WavSize,    \* [Files -> bytes]: the data length the header claims
  DataLen,    \* [Files -> bytes]: what the file holds behind the header
  Faults,     \* may the card or its contents fail?
  Keys        \* may KEY0 be pressed?

ASSUME PlayerAssumption ==
  /\ Burst \in Nat \ {0}
  /\ Threshold + Burst <= Depth + 1
  /\ NoFile \notin Files
  /\ Listing \in Seq(Files)
  /\ Supported \subseteq Files
  /\ UintMod \in Nat /\ UintMod > 4 * Burst
  /\ WavSize \in [Files -> 0..UintMod - 1]
  /\ DataLen \in [Files -> Nat]
  /\ Faults \in BOOLEAN
  /\ Keys \in BOOLEAN
  /\ \A f \in Files : \A k \in 0..DataLen[f] : <<f, k>> \in Word

VARIABLES
  pc,          \* where the main context is
  after,       \* where play_stop returns to
  rt,          \* [Ctx -> where that context is in the handler]
  n, i, eof,   \* [Ctx -> ...]: locals of isr_handle_pcmfifofill
  g_wavsize,   \* bytes of the track being played, 0 when none is
  g_playsize,  \* bytes sent to the FIFO
  g_datbuff,   \* the refill buffer
  g_fsobj,     \* the FIL of the track: its file, position and validity
  fwav,        \* the file of play_wav's own FIL
  ready,       \* FatFs has the volume mounted, and not STA_NOINIT in Stat
  stat,        \* disk_status's copy of that, while play_stop is in f_close
  torn,        \* the handler used the card inside the main context's call
  dir,         \* the next entry of fatfs_dir, 0 when it is not open
  due          \* words of the track the DAC has been given (history)

playVars == <<after, g_wavsize, g_playsize, g_datbuff, g_fsobj, fwav, due>>
fsVars   == <<ready, stat, torn, dir>>
isrVars  == <<rt, n, i, eof>>
vars     == <<portVars, pc, playVars, isrVars, fsVars>>

Ctx == {"main", "irq"}

(* Labels of the main context.  Those of FsCall are inside a FatFs call.   *)
FsCall == {"f_readdir", "f_opendir", "f_open", "f_read", "f_close", "closing"}
Stopping == {"stop", "test", "enter", "closing", "clear", "wait"}
Labels == FsCall \union Stopping
            \union {"load", "kick", "poll", "key", "release", "exit"}

(* Labels of the handler: its dispatch by the HAL, and its body.           *)
Dispatch == {"entry", "handler", "again"}
Hung == {"unknown", "spin"}
Body == {"isr", "read", "send", "close"}

FileObject == [file : Files \union {NoFile}, pos : Nat, open : BOOLEAN]

TypeOK ==
  /\ PortTypeOK
  /\ pc \in Labels
  /\ after \in {"load", "release"}
  /\ rt \in [Ctx -> Dispatch \union Hung \union Body \union {"idle"}]
  /\ n \in [Ctx -> 0..Burst]
  /\ i \in [Ctx -> 0..Burst]
  /\ eof \in [Ctx -> BOOLEAN]
  /\ g_wavsize \in 0..UintMod - 1
  /\ g_playsize \in 0..UintMod - 1
  /\ g_datbuff \in [1..Burst -> Word]
  /\ g_fsobj \in FileObject
  /\ fwav \in Files \union {NoFile}
  /\ ready \in BOOLEAN
  /\ stat \in BOOLEAN
  /\ torn \in BOOLEAN
  /\ dir \in 0..Len(Listing) + 1
  /\ due \in Nat

(* main has run nd_GsVgaInit, play_init, mmcfs_setup and loadbmp; the last *)
(* has mounted the volume if there is a card.  fatfs_dir is all zeros.     *)
Init ==
  /\ PortInit
  /\ pc = "f_readdir"
  /\ after = "release"
  /\ rt = [c \in Ctx |-> "idle"]
  /\ n = [c \in Ctx |-> 0]
  /\ i = [c \in Ctx |-> 0]
  /\ eof = [c \in Ctx |-> FALSE]
  /\ g_wavsize = 0
  /\ g_playsize = 0
  /\ g_datbuff = [k \in 1..Burst |-> Silence]
  /\ g_fsobj = [file |-> NoFile, pos |-> 0, open |-> FALSE]
  /\ fwav = NoFile
  /\ ready \in (IF Faults THEN BOOLEAN ELSE {TRUE})
  /\ stat = FALSE
  /\ torn = FALSE
  /\ dir = 0
  /\ due = 0

-----------------------------------------------------------------------------
(***************************************************************************)
(* Who runs, and what a transfer with the card may return.                 *)
(***************************************************************************)

(* The main context steps only when no interrupt is in service or pending. *)
MainRuns == rt["irq"] = "idle" /\ ~Irq

Runs(c) == c = "irq" \/ MainRuns

InFs(c) ==
  \/ rt[c] \in {"read", "close"}
  \/ c = "main" /\ pc \in FsCall

(* The handler is about to use, or is using, the card in the middle of a   *)
(* call of the main context.                                               *)
Intrudes(c) == c = "irq" /\ InFs("main")

(* What an exchange with the card may turn out as: a card can fail, and so *)
(* can an exchange that interrupts another or is interrupted.              *)
Works(disturbed) == IF Faults \/ disturbed THEN BOOLEAN ELSE {TRUE}

-----------------------------------------------------------------------------
(***************************************************************************)
(* isr_handle_pcmfifofill, in context c.                                   *)
(***************************************************************************)

(* Mutant of WordsLeft: a part of a word counts as a word.                 *)
WordsLeft_rounded_up == (g_wavsize - g_playsize + 3) \div 4

(* (g_wavsize - g_playsize) >> 2, of unsigned operands.                    *)
WordsLeft ==
  IF g_playsize <= g_wavsize
    THEN (g_wavsize - g_playsize) \div 4
    ELSE (UintMod + g_wavsize - g_playsize) \div 4

(* The sum of two unsigned operands.                                       *)
Wrapped(x) == IF x < UintMod THEN x ELSE x - UintMod

(* Mutant of Last: the burst that empties the file is not seen to be last. *)
Last_off_by_one(left) == left < Burst

(* Is the burst the last one, and how long is it?                          *)
Last(left) == left <= Burst

BurstOf(left) == IF Last(left) THEN left ELSE Burst

(* Mask the interrupt - which also lets the FIFO out of reset - and choose *)
(* the size of the burst.                                                  *)
IsrMask(c) ==
  /\ rt[c] = "isr"
  /\ Runs(c)
  /\ Post(Status(FALSE, FALSE))
  /\ n' = [n EXCEPT ![c] = BurstOf(WordsLeft)]
  /\ eof' = [eof EXCEPT ![c] = Last(WordsLeft)]
  /\ i' = [i EXCEPT ![c] = 0]
  /\ rt' = [rt EXCEPT ![c] = "read"]
  /\ torn' = (torn \/ Intrudes(c))
  /\ UNCHANGED <<irqena, fiforst, fifo, dac, pc, playVars, ready, stat, dir>>

(* Mutant of IsrReadError: nobody looks at what f_read returns.            *)
IsrReadError_ignored(c) ==
  /\ rt[c] = "read"
  /\ Runs(c)
  /\ \/ ~g_fsobj.open /\ UNCHANGED ready
     \/ g_fsobj.open /\ Flushed /\ ~ready /\ UNCHANGED ready
     \/ /\ g_fsobj.open /\ Flushed /\ ready
        /\ FALSE \in Works(Intrudes(c))
        /\ ready' \in BOOLEAN
  /\ rt' = [rt EXCEPT ![c] = "send"]
  /\ UNCHANGED <<portVars, pc, playVars, n, i, eof, stat, torn, dir>>

(* f_read fails: validate() refuses a FIL that is closed or of an earlier  *)
(* mount, and a volume that is not ready; or the card fails, in its status *)
(* or in the transfer.  Nothing is sent.                                   *)
IsrReadError(c) ==
  /\ rt[c] = "read"
  /\ Runs(c)
  /\ \/ ~g_fsobj.open /\ UNCHANGED ready
     \/ g_fsobj.open /\ Flushed /\ ~ready /\ UNCHANGED ready
     \/ /\ g_fsobj.open /\ Flushed /\ ready
        /\ FALSE \in Works(Intrudes(c))
        /\ ready' \in BOOLEAN
  /\ eof' = [eof EXCEPT ![c] = TRUE]
  /\ rt' = [rt EXCEPT ![c] = "close"]
  /\ UNCHANGED <<portVars, pc, playVars, n, i, stat, torn, dir>>

(* The words of the buffer after a read of b bytes; a word of which only a *)
(* part has arrived is no word of the file and counts as not read.         *)
Filled(b) ==
  [k \in 1..Burst |-> IF 4 * k <= b
                        THEN <<g_fsobj.file, g_fsobj.pos \div 4 + k - 1>>
                        ELSE g_datbuff[k]]

(* f_read succeeds, with b bytes of the 4 * n asked for.  The test that    *)
(* follows, "readsize < n", holds a number of bytes against one of words.  *)
ShortRead(b, words) == b < words

IsrRead(c) ==
  /\ rt[c] = "read"
  /\ Runs(c)
  /\ g_fsobj.open
  /\ ready
  /\ Flushed
  /\ LET left == DataLen[g_fsobj.file] - g_fsobj.pos
         b    == IF left < 4 * n[c] THEN left ELSE 4 * n[c]
     IN  /\ g_datbuff' = Filled(b)
         /\ g_fsobj' = [g_fsobj EXCEPT !.pos = @ + b]
         /\ \/ /\ ShortRead(b, n[c])
               /\ eof' = [eof EXCEPT ![c] = TRUE]
               /\ rt' = [rt EXCEPT ![c] = "close"]
            \/ /\ ~ShortRead(b, n[c])
               /\ rt' = [rt EXCEPT ![c] = "send"]
               /\ UNCHANGED eof
  /\ UNCHANGED <<portVars, pc, after, g_wavsize, g_playsize, fwav, due,
                 n, i, fsVars>>

IsrSend(c) ==
  /\ rt[c] = "send"
  /\ Runs(c)
  /\ i[c] < n[c]
  /\ Post(FifoWr(g_datbuff[i[c] + 1]))
  /\ i' = [i EXCEPT ![c] = @ + 1]
  /\ UNCHANGED <<irqena, fiforst, fifo, dac, pc, playVars, rt, n, eof, fsVars>>

(* The handler returns to the HAL's loop, or to play_wav, which returns to *)
(* the main loop.                                                          *)
IsrReturns(c) ==
  /\ rt' = [rt EXCEPT ![c] = IF c = "irq" THEN "again" ELSE "idle"]
  /\ pc' = IF c = "irq" THEN pc ELSE "poll"

(* Mutant of Advanced: words are added to bytes.                           *)
Advanced_words(c) == Wrapped(g_playsize + n[c])

(* g_playsize += n << 2                                                    *)
Advanced(c) == Wrapped(g_playsize + 4 * n[c])

(* The burst is out and there is more to come: unmask, and return.         *)
IsrUnmask(c) ==
  /\ rt[c] = "send"
  /\ Runs(c)
  /\ i[c] = n[c]
  /\ ~eof[c]
  /\ Post(Status(TRUE, FALSE))
  /\ g_playsize' = Advanced(c)
  /\ IsrReturns(c)
  /\ UNCHANGED <<irqena, fiforst, fifo, dac, after, g_wavsize, g_datbuff,
                 g_fsobj, fwav, due, n, i, eof, fsVars>>

(* The burst is out and it was the last.                                   *)
IsrSent(c) ==
  /\ rt[c] = "send"
  /\ Runs(c)
  /\ i[c] = n[c]
  /\ eof[c]
  /\ g_playsize' = Advanced(c)
  /\ rt' = [rt EXCEPT ![c] = "close"]
  /\ UNCHANGED <<portVars, pc, after, g_wavsize, g_datbuff, g_fsobj, fwav,
                 due, n, i, eof, fsVars>>

(* f_close, and the track is over.  The FIL is discarded only if the card  *)
(* answers; if it does not, the volume is not ready any more.              *)
IsrClose(c) ==
  /\ rt[c] = "close"
  /\ Runs(c)
  /\ g_fsobj.open => Flushed
  /\ \E ok \in Works(Intrudes(c)) :
       /\ ready' = (ready /\ (g_fsobj.open => ok))
       /\ g_fsobj' = [g_fsobj EXCEPT !.open = @ /\ ~ready']
  /\ g_wavsize' = 0
  /\ IsrReturns(c)
  /\ UNCHANGED <<portVars, after, g_playsize, g_datbuff, fwav, due,
                 n, i, eof, stat, torn, dir>>

Isr(c) ==
  \/ IsrMask(c)
  \/ IsrReadError(c)
  \/ IsrRead(c)
  \/ IsrSend(c)
  \/ IsrUnmask(c)
  \/ IsrSent(c)
  \/ IsrClose(c)

-----------------------------------------------------------------------------
(***************************************************************************)
(* The HAL's dispatcher.  The exception entry saves the registers and then *)
(* reads ipending; alt_irq_handler reads it again, and once more after     *)
(* each handler.  The PCM interrupt is the only one modelled.              *)
(***************************************************************************)

HalStep(from, to) ==
  /\ rt["irq"] = from
  /\ rt' = [rt EXCEPT !["irq"] = to]
  /\ UNCHANGED <<portVars, pc, playVars, n, i, eof, fsVars>>

(* The processor takes the interrupt.                                      *)
HalTake == Irq /\ HalStep("idle", "entry")

(* .exceptions.irqtest: no pending interrupt means this is taken for an    *)
(* instruction exception, for which no handler is registered.              *)
HalTest == HalStep("entry", IF Irq THEN "handler" ELSE "unknown")

(* alt_irq_handler looks for the set bit in a loop that ends only when it  *)
(* finds one.                                                              *)
HalFind == HalStep("handler", IF Irq THEN "isr" ELSE "spin")

(* do { ... } while (active)                                               *)
HalAgain == HalStep("again", IF Irq THEN "isr" ELSE "idle")

Interrupt == HalTake \/ HalTest \/ HalFind \/ HalAgain \/ Isr("irq")

-----------------------------------------------------------------------------
(***************************************************************************)
(* The main context: FatFs calls that walk the directory and open files.   *)
(* Every one that ends clears torn: what the handler has disturbed is over.*)
(***************************************************************************)

(* get_wavfilename returns NULL: fatfs_dir is not open, the card fails, or *)
(* there is no further name.                                               *)
NoName ==
  /\ pc = "f_readdir"
  /\ MainRuns
  /\ \/ dir = 0 /\ UNCHANGED ready
     \/ /\ dir # 0 /\ Flushed
        /\ \/ ~ready /\ UNCHANGED ready
           \/ ready /\ dir > Len(Listing) /\ UNCHANGED ready
           \/ ready /\ FALSE \in Works(torn) /\ ready' \in BOOLEAN
  /\ pc' = "f_opendir"
  /\ torn' = FALSE
  /\ UNCHANGED <<portVars, playVars, isrVars, stat, dir>>

(* Mutant of GetName: the walk does not move on.                           *)
GetName_stays ==
  /\ pc = "f_readdir"
  /\ MainRuns
  /\ ready
  /\ dir \in 1..Len(Listing)
  /\ Flushed
  /\ fwav' = Listing[dir]
  /\ pc' = "f_open"
  /\ torn' = FALSE
  /\ UNCHANGED <<portVars, after, g_wavsize, g_playsize, g_datbuff, g_fsobj,
                 due, isrVars, ready, stat, dir>>

(* The next name that ends in .wav.                                        *)
GetName ==
  /\ pc = "f_readdir"
  /\ MainRuns
  /\ ready
  /\ dir \in 1..Len(Listing)
  /\ Flushed
  /\ fwav' = Listing[dir]
  /\ dir' = dir + 1
  /\ pc' = "f_open"
  /\ torn' = FALSE
  /\ UNCHANGED <<portVars, after, g_wavsize, g_playsize, g_datbuff, g_fsobj,
                 due, isrVars, ready, stat>>

(* chk_mounted: a volume that is ready, and whose card answers, is kept.   *)
Kept == ready /\ UNCHANGED <<ready, g_fsobj>>

(* Mutant of Remounted: the objects of the earlier mount stay valid.       *)
Remounted_objects_live ==
  /\ ready => FALSE \in Works(torn)
  /\ ready' \in Works(FALSE)
  /\ UNCHANGED g_fsobj

(* Otherwise it is mounted again, and every object of the earlier mount    *)
(* stops being valid.                                                      *)
Remounted ==
  /\ ready => FALSE \in Works(torn)
  /\ ready' \in Works(FALSE)
  /\ g_fsobj' = [g_fsobj EXCEPT !.open = FALSE]

(* open_wavdir; if it fails the player ends.                               *)
OpenDir ==
  /\ pc = "f_opendir"
  /\ MainRuns
  /\ Flushed
  /\ Kept \/ Remounted
  /\ \E found \in Works(torn) :
       \/ /\ ready' /\ found
          /\ dir' = 1
          /\ pc' = "f_readdir"
       \/ /\ ~(ready' /\ found)
          /\ dir' = 0
          /\ pc' = "exit"
  /\ torn' = FALSE
  /\ UNCHANGED <<portVars, after, g_wavsize, g_playsize, g_datbuff, fwav,
                 due, isrVars, stat>>

(* play_wav: f_open.  If it fails play_wav returns, and main goes on to    *)
(* ask play_status.                                                        *)
Open ==
  /\ pc = "f_open"
  /\ MainRuns
  /\ Flushed
  /\ \/ Kept /\ UNCHANGED dir
     \/ Remounted /\ dir' = 0
  /\ \E found \in Works(torn) :
       pc' = IF ready' /\ found THEN "f_read" ELSE "poll"
  /\ torn' = FALSE
  /\ UNCHANGED <<portVars, after, g_wavsize, g_playsize, g_datbuff, fwav,
                 due, isrVars, stat>>

(* play_wav: read the header and check it.                                 *)
ReadHeader ==
  /\ pc = "f_read"
  /\ MainRuns
  /\ Flushed
  /\ \E ok \in Works(torn) :
       \/ /\ ok /\ ready
          /\ pc' = IF fwav \in Supported THEN "load" ELSE "f_close"
          /\ UNCHANGED ready
       \/ /\ ~(ok /\ ready)
          /\ pc' = "f_close"
          /\ ready' \in {FALSE, ready}
  /\ torn' = FALSE
  /\ UNCHANGED <<portVars, playVars, isrVars, stat, dir>>

(* play_wav: the file is not supported, close it and return.               *)
CloseHeader ==
  /\ pc = "f_close"
  /\ MainRuns
  /\ Flushed
  /\ \E ok \in Works(torn) : ready' = (ready /\ ok)
  /\ pc' = "poll"
  /\ torn' = FALSE
  /\ UNCHANGED <<portVars, playVars, isrVars, stat, dir>>

-----------------------------------------------------------------------------
(***************************************************************************)
(* The main context: play_wav's start, the main loop, play_stop.           *)
(***************************************************************************)

(* Take the file over and call the handler for the first burst; a track    *)
(* that still plays is stopped before that.                                *)
Load ==
  /\ pc = "load"
  /\ MainRuns
  /\ IF g_wavsize # 0
       THEN /\ pc' = "stop"
            /\ after' = "load"
            /\ UNCHANGED <<g_wavsize, g_playsize, g_fsobj, due, rt>>
       ELSE /\ g_fsobj' = [file |-> fwav, pos |-> 0, open |-> TRUE]
            /\ g_wavsize' = WavSize[fwav]
            /\ g_playsize' = 0
            /\ due' = 0
            /\ pc' = "kick"
            /\ rt' = [rt EXCEPT !["main"] = "isr"]
            /\ UNCHANGED after
  /\ UNCHANGED <<portVars, g_datbuff, fwav, n, i, eof, fsVars>>

(* Mutants of Playing: the track is over as soon as its file is closed;    *)
(* the peripheral is not asked.                                            *)
Playing_file == PLAY /\ g_wavsize # 0
Playing_sent == g_playsize # 0

(* play_status() is not zero.                                              *)
Playing == PLAY /\ g_playsize # 0

(* while (play_status())                                                   *)
Poll ==
  /\ pc = "poll"
  /\ MainRuns
  /\ Flushed
  /\ pc' = IF Playing THEN "key" ELSE "f_readdir"
  /\ UNCHANGED <<portVars, playVars, isrVars, fsVars>>

(* Wait for the vertical sync, draw, read KEY0.                            *)
Key ==
  /\ pc = "key"
  /\ MainRuns
  /\ Flushed
  /\ \/ /\ Keys
        /\ pc' = "stop"
        /\ after' = "release"
     \/ /\ pc' = "poll"
        /\ UNCHANGED after
  /\ UNCHANGED <<portVars, g_wavsize, g_playsize, g_datbuff, g_fsobj, fwav,
                 due, isrVars, fsVars>>

Release ==
  /\ pc = "release"
  /\ MainRuns
  /\ Flushed
  /\ pc' = "poll"
  /\ UNCHANGED <<portVars, playVars, isrVars, fsVars>>

(* play_stop: mask the interrupt.  The write is only posted.               *)
StopMask ==
  /\ pc = "stop"
  /\ MainRuns
  /\ Post(Status(FALSE, FALSE))
  /\ pc' = "test"
  /\ UNCHANGED <<irqena, fiforst, fifo, dac, playVars, isrVars, fsVars>>

StopTest ==
  /\ pc = "test"
  /\ MainRuns
  /\ pc' = IF g_wavsize # 0 THEN "enter" ELSE "wait"
  /\ UNCHANGED <<portVars, playVars, isrVars, fsVars>>

(* f_close enters: validate looks at the FIL, disk_status copies Stat.     *)
StopEnter ==
  /\ pc = "enter"
  /\ MainRuns
  /\ \/ /\ g_fsobj.open
        /\ pc' = "closing"
        /\ stat' = ready
     \/ /\ ~g_fsobj.open
        /\ pc' = "clear"
        /\ UNCHANGED stat
  /\ UNCHANGED <<portVars, playVars, isrVars, ready, torn, dir>>

(* f_close leaves: disk_status writes its copy back to Stat.               *)
StopClose ==
  /\ pc = "closing"
  /\ MainRuns
  /\ Flushed
  /\ \E ok \in Works(torn) :
       /\ ready' = (stat /\ ok)
       /\ g_fsobj' = [g_fsobj EXCEPT !.open = @ /\ ~ready']
  /\ pc' = "clear"
  /\ torn' = FALSE
  /\ UNCHANGED <<portVars, after, g_wavsize, g_playsize, g_datbuff, fwav,
                 due, isrVars, stat, dir>>

StopClear ==
  /\ pc = "clear"
  /\ MainRuns
  /\ g_wavsize' = 0
  /\ pc' = "wait"
  /\ UNCHANGED <<portVars, after, g_playsize, g_datbuff, g_fsobj, fwav,
                 due, isrVars, fsVars>>

(* while (play_status()) {}                                                *)
StopWait ==
  /\ pc = "wait"
  /\ MainRuns
  /\ Flushed
  /\ ~Playing
  /\ pc' = after
  /\ UNCHANGED <<portVars, playVars, isrVars, fsVars>>

PlayStop ==
  StopMask \/ StopTest \/ StopEnter \/ StopClose \/ StopClear \/ StopWait

Main ==
  \/ NoName \/ GetName \/ OpenDir \/ Open \/ ReadHeader \/ CloseHeader
  \/ Load \/ Poll \/ Key \/ Release \/ PlayStop
  \/ Isr("main")

-----------------------------------------------------------------------------

Land == Deliver /\ UNCHANGED <<pc, playVars, isrVars, fsVars>>

Sample ==
  /\ Tick
  /\ due' = IF PLAY THEN due + 1 ELSE due
  /\ UNCHANGED <<pc, after, g_wavsize, g_playsize, g_datbuff, g_fsobj, fwav,
                 isrVars, fsVars>>

Next == Main \/ Interrupt \/ Land \/ Sample

Spec == Init /\ [][Next]_vars

(* Nothing but stopped hardware keeps a context, the bridge or the audio   *)
(* clock from making the step it can make.                                 *)
Fairness ==
  /\ WF_vars(Main)
  /\ WF_vars(Interrupt)
  /\ WF_vars(Land)
  /\ WF_vars(Sample)

FairSpec == Spec /\ Fairness
-----------------------------------------------------------------------------
(***************************************************************************)
(* Properties.                                                             *)
(***************************************************************************)

(* The words of a track: what its header claims and its file holds.        *)
TrackLength ==
  [f \in Files |-> (IF WavSize[f] < DataLen[f] THEN WavSize[f]
                                               ELSE DataLen[f]) \div 4]

(* The DAC is given the words of each track in order: the FIFO, the bridge,*)
(* the refill interrupt and play_stop together implement Playback.         *)
Listener ==
  INSTANCE Playback WITH Length <- TrackLength, track <- g_fsobj.file,
                         heard <- due, out <- dac

PlaysTheFile == Listener!Spec

(* When play_wav takes over a new track, nothing of the last one is left:  *)
(* no word in the FIFO or under way to it, the interrupt off and not about *)
(* to come on, no handler running, no track open in g_fsobj.               *)
CleanStart ==
  pc = "load" =>
    /\ fifo = <<>>
    /\ ~irqena
    /\ \A k \in 1..Len(bridge) :
         bridge[k].reg = "status" /\ ~bridge[k].irq
    /\ rt["irq"] = "idle"
    /\ g_wavsize = 0

(* FatFs has no lock (_FS_REENTRANT is 0) and the handler calls it.  The   *)
(* only call of the main context it can come into the middle of is the     *)
(* f_close of play_stop: the directory walk, f_open, the header and the    *)
(* first burst are safe from it.                                           *)
ReentryOnlyInStop ==
  rt["irq"] # "idle" =>
    pc \in {"poll", "key", "release"} \union Stopping

(* An interrupt that is on has something to play: its file is valid, and   *)
(* less than all of it has been sent - unless play_stop has begun to take  *)
(* the file away.                                                          *)
ArmedHasWork ==
  irqena /\ pc \notin Stopping /\ rt["irq"] \in Dispatch \union {"idle"}
    => /\ g_playsize < g_wavsize
       /\ g_fsobj.open /\ ready

(* Every word of a burst is one that the f_read before it has brought: the *)
(* word of the file that g_playsize has come to, and not what an earlier   *)
(* burst has left in g_datbuff.                                            *)
SendsOnlyWhatWasRead ==
  \A c \in Ctx :
    rt[c] = "send" =>
      \A k \in 1..n[c] :
        g_datbuff[k] = <<g_fsobj.file, g_playsize \div 4 + k - 1>>

(* No burst reaches beyond the data the header claims, even when play_stop *)
(* has taken g_wavsize away and the unsigned difference wraps.             *)
WithinClaim ==
  \A c \in Ctx :
    rt[c] = "send" => g_playsize + 4 * n[c] <= g_wavsize

(* The dispatcher finds the interrupt it was entered for.                  *)
DispatchFinds == rt["irq"] \notin Hung

(* The dispatcher loses the interrupt only to play_stop's masking write.   *)
HungOnlyInStop ==
  rt["irq"] \in Hung => pc \in Stopping

(* A call of FatFs fails, or the volume has to be mounted anew.             *)
Failure ==
  \/ \E c \in Ctx : IsrReadError(c)
  \/ ready /\ ~ready'
  \/ dir # 0 /\ dir' = 0
  \/ pc = "f_readdir" /\ pc' = "f_opendir" /\ dir \in 1..Len(Listing)
  \/ pc = "f_open" /\ pc' = "poll"
  \/ pc = "f_read" /\ pc' = "f_close" /\ fwav \in Supported

(* The branch of Key in which KEY0 is down, as against the one the loop     *)
(* takes on every other round.                                             *)
Pressed == pc = "key" /\ pc' = "stop"

(* Once no key is pressed and nothing fails any more, every track is given *)
(* to the DAC to its last word before the next one begins: what went wrong *)
(* before leaves nothing behind.                                           *)
PlayedThrough ==
  <>[][~Failure /\ ~Pressed]_vars =>
    <>[][Load /\ g_fsobj.file # NoFile => due = TrackLength[g_fsobj.file]]_vars

(* The player leaves the track it plays, even when the card fails.          *)
TrackEnds == pc = "poll" ~> pc \in {"f_readdir", "stop"}

(* play_stop returns, or the dispatcher has hung under it.                 *)
StopReturns ==
  pc = "stop" ~> pc \in {"release", "load"} \/ rt["irq"] \in Hung

(* Every file with a supported header is played again and again, keys or   *)
(* no keys, when nothing fails any more and the player has neither ended   *)
(* for want of a directory nor hung.                                       *)
EveryTrack ==
  <>[][~Failure]_vars =>
    \/ <>(pc = "exit" \/ rt["irq"] \in Hung)
    \/ \A f \in Supported : []<>(g_fsobj.file = f /\ pc = "kick")
=============================================================================
