---------------------------- MODULE WavPlayerInv ----------------------------
(***************************************************************************)
(* The inductive invariant of WavPlayer, in named parts: IInv, which TLC   *)
(* checks on the instances of MCWavPlayer and WavPlayerProofs proves for   *)
(* all, and RInv, what is added to it to show that the player implements   *)
(* Playback.                                                               *)
(***************************************************************************)
EXTENDS WavPlayer

(* Where an interrupt may be in service.                                   *)
Loud == {"poll", "key", "release"} \union Stopping

(* No word is under way to the FIFO.                                       *)
NoData == \A k \in 1..Len(bridge) : bridge[k].reg = "status"

(* The interrupt is off, and no posted write will turn it on.              *)
Off == ~irqena /\ \A k \in 1..Len(bridge) : ~bridge[k].irq

(* What the interrupt enable will be when all posted writes have landed.   *)
SettlesTo(b) ==
  /\ bridge = <<>> => irqena = b
  /\ bridge # <<>> => /\ bridge[Len(bridge)].reg = "status"
                      /\ bridge[Len(bridge)].irq = b

(* The interrupt is off, or comes on with the last posted write, or is on  *)
(* and no write is posted: nothing will turn it off.                       *)
OnAtLast ==
  /\ irqena => bridge = <<>>
  /\ \A k \in 1..Len(bridge) : bridge[k].irq => k = Len(bridge)

(* The handler runs for play_wav in "kick", and for an interrupt only      *)
(* where the main context can have been interrupted.                       *)
ControlInv ==
  /\ rt["main"] \in Body \union {"idle"}
  /\ pc = "kick" <=> rt["main"] # "idle"
  /\ rt["irq"] # "idle" => pc \in Loud

(* The posted writes: none resets the FIFO, no word follows a write that   *)
(* turns the interrupt on, and the FIFO has room for every word.           *)
BridgeInv ==
  /\ \A k \in 1..Len(bridge) : ~bridge[k].rst
  /\ \A j, k \in 1..Len(bridge) :
       j < k /\ bridge[j].irq => bridge[k].reg = "status"
  /\ irqena => NoData
  /\ \A k \in 1..Len(bridge) :
       bridge[k].reg = "fifowr" => Len(fifo) + k <= Depth

(* The FIFO has left reset before a word is sent.                          *)
ResetInv ==
  /\ fiforst => ~irqena /\ NoData
  /\ \A c \in Ctx :
       /\ rt[c] = "read" => (bridge = <<>> => ~fiforst)
       /\ rt[c] = "send" => ~fiforst

(* The handler in context c: it begins below the threshold, and sends with *)
(* the interrupt off and with room for what is left of the burst.          *)
HandlerInv(c) ==
  /\ rt[c] \in {"isr", "read"} => NoData /\ Len(fifo) < Threshold
  /\ rt[c] = "read" => i[c] = 0 /\ SettlesTo(FALSE)
  /\ rt[c] = "send" =>
       /\ Off
       /\ i[c] <= n[c]
       /\ Len(fifo) + Len(bridge) + (n[c] - i[c]) <= Depth

(* The size of a burst: within the claim, or the read is bound to fail.    *)
BurstInv(c) ==
  rt[c] \in {"read", "send"} =>
    \/ rt[c] = "read" /\ ~(g_fsobj.open /\ ready)
    \/ /\ g_playsize + 4 * n[c] <= g_wavsize
       /\ ~eof[c] => n[c] = Burst /\ g_playsize + 4 * n[c] < g_wavsize

(* g_wavsize, and the file behind it.                                      *)
FileInv ==
  /\ pc \in {"f_open", "f_read", "f_close", "load"} => fwav \in Files
  /\ g_fsobj.open => /\ g_fsobj.file \in Files
                     /\ g_fsobj.pos <= DataLen[g_fsobj.file]
  /\ g_playsize <= g_wavsize \/ g_wavsize = 0
  /\ g_wavsize = 0 /\ pc # "kick" => ~(g_fsobj.open /\ ready)
  /\ \A c \in Ctx : rt[c] = "send" => g_fsobj.open /\ ready

(* Between tracks everything is off and empty; so it is in play_wav until  *)
(* the first word is sent.                                                 *)
QuietInv ==
  pc \notin Loud =>
    /\ Off
    /\ pc # "kick" => g_wavsize = 0
    /\ pc = "kick" /\ rt["main"] # "close" => g_playsize = 0
    /\ \/ rt["main"] \in {"idle", "isr", "read"}
       \/ rt["main"] = "send" /\ i["main"] = 0
       \/ rt["main"] = "close" /\ g_playsize = 0
       => NoData /\ fifo = <<>>

(* Whatever is left of a track shows in g_playsize.                        *)
LoudInv ==
  pc \in Loud =>
    \/ g_playsize > 0
    \/ Off /\ NoData /\ fifo = <<>> /\ rt["irq"] = "idle"

(* While a track plays and nobody stops it: the interrupt is on or on its  *)
(* way, and stays until it is served; or the track is over.                *)
PlayInv ==
  pc \in Loud \ Stopping =>
    /\ rt["irq"] \in Dispatch \union {"idle"} =>
         /\ OnAtLast
         /\ g_wavsize # 0 => SettlesTo(TRUE)
         /\ ~Off => g_playsize < g_wavsize /\ g_fsobj.open /\ ready
    /\ rt["irq"] \in {"entry", "handler"} => Irq
    /\ rt["irq"] \notin Hung
    /\ rt["irq"] \in {"isr", "read"} => g_fsobj.open /\ ready
    /\ rt["irq"] = "close" => Off

(* play_stop is called from the main loop only: play_wav never finds a     *)
(* track that still plays.                                                 *)
StopInv ==
  /\ after = "release"
  /\ pc = "clear" => ~(g_fsobj.open /\ ready)
  /\ pc = "wait" => g_wavsize = 0

IInv ==
  /\ TypeOK
  /\ ControlInv
  /\ BridgeInv
  /\ ResetInv
  /\ \A c \in Ctx : HandlerInv(c) /\ BurstInv(c)
  /\ FileInv
  /\ QuietInv
  /\ LoudInv
  /\ PlayInv
  /\ StopInv

-----------------------------------------------------------------------------
(***************************************************************************)
(* What the refinement of Playback rests on besides: which words are where.*)
(***************************************************************************)

(* No header claims more data than its file holds.  playwav.c takes the    *)
(* claim on trust.                                                         *)
WholeFiles == \A f \in Files : WavSize[f] <= DataLen[f]

(* Words of the track that have been posted.                               *)
SentIn(c) == IF rt[c] = "send" THEN i[c] ELSE 0
Sent == g_playsize \div 4 + SentIn("main") + SentIn("irq")

(* The words posted and not yet given to the DAC, one behind the other: m  *)
(* of them in the bridge, before any status write, the others in the FIFO. *)
StreamOf(m) ==
  /\ due + Len(fifo) + m = Sent
  /\ \A k \in 1..Len(fifo) : fifo[k] = <<g_fsobj.file, due + k - 1>>
  /\ \A k \in 1..Len(bridge) :
       /\ bridge[k].reg = "fifowr" <=> k <= m
       /\ k <= m =>
            bridge[k].word = <<g_fsobj.file, due + Len(fifo) + k - 1>>
  /\ \A c \in Ctx : rt[c] = "send" => m = Len(bridge)

StreamInv == \E m \in 0..Len(bridge) : StreamOf(m)

(* How far the track has come: g_playsize counts whole words of its file,  *)
(* and the file is read up to there and no further.                        *)
ProgressInv ==
  /\ g_playsize % 4 = 0
  /\ g_fsobj.file = NoFile => g_playsize = 0
  /\ g_fsobj.file \in Files => g_playsize <= WavSize[g_fsobj.file]
  /\ g_wavsize # 0 => /\ g_fsobj.file \in Files
                      /\ g_wavsize = WavSize[g_fsobj.file]
  /\ g_fsobj.open /\ (\A c \in Ctx : rt[c] # "send")
       => g_fsobj.pos = g_playsize

(* A burst that is being sent has been read just before.                   *)
ReadInv ==
  \A c \in Ctx : rt[c] = "send" => g_fsobj.pos = g_playsize + 4 * n[c]

RInv ==
  /\ StreamInv
  /\ ProgressInv
  /\ ReadInv
  /\ SendsOnlyWhatWasRead
=============================================================================
