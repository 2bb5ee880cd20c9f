------------------------------- MODULE DiskIo -------------------------------
(* mmcbb.c: the disk functions FatFs calls, over the SPI commands of an SD *)
(* or MMC card that may be pulled out and exchanged at any moment.  One    *)
(* step is one command, or one data packet, with the waiting around it;    *)
(* how the bytes get across is MmcSpi's matter.                            *)
EXTENDS Integers, Sequences, FiniteSets

CONSTANTS
  Cards,        \* the cards at hand
  Kind,         \* card -> "SD2B" (block addressing), "SD2", "SD1" or "MMC"
  Locked,       \* the cards whose write protection is on
  NoCard,
  First,        \* what may be in the socket at the start
  NSectors,     \* sectors of a card
  BL,           \* bytes of a sector (512)
  InitTries,    \* how often ACMD41 is tried (1000)
  MaxIdle,      \* bound: how often a card answers that it is still idle
  Sectors, Counts,  \* bound: the sectors and numbers of sectors asked for
  MaxCalls,     \* bound: calls of a behaviour
  MaxSwaps,     \* bound: how often a card is pulled out or put in
  MaxFaults     \* bound: commands and packets that fail for no such reason

ASSUME DiskAssumption ==
  /\ Kind \in [Cards -> {"SD2B", "SD2", "SD1", "MMC"}] /\ Locked \subseteq Cards
  /\ NoCard \notin Cards /\ First \subseteq Cards \union {NoCard}
  /\ {NSectors, BL, InitTries} \subseteq Nat \ {0} /\ MaxIdle \in Nat
  /\ Sectors \subseteq Nat /\ Counts \subseteq Nat

VARIABLES
  slot,         \* the card in the socket
  card,         \* and its state
  media,        \* card -> sector -> what is stored there
  Stat, CardType,   \* of mmcbb.c
  pc, call,     \* the call under way and where it is
  ty, tmr, left,    \* the type seen, tries and sectors left
  buff,         \* the sectors read so far
  res,          \* what the call returns
  calls, swaps, faults

wires == <<slot, card, swaps>>
driver == <<Stat, CardType, ty, tmr, left, buff, res>>
bounds == <<calls, swaps, faults>>
vars == <<slot, card, media, driver, pc, call, bounds>>

NoAnswer == 255
HCS == 2^30
Sector == 0..NSectors - 1
Datum(k, i) == <<"written", k, i>>      \* the i-th sector of the k-th call

------------------------------------------------------------------------------
(* The card, as its makers describe it.  mode: not yet in SPI mode, idle, or ready; app: CMD55 was    *)
(* just accepted; data: the transfer under way, at the sector it is at;    *)
(* busy: still storing; wait: times it will say that it is idle.  In the    *)
(* middle of a transfer it answers to nothing but what ends it.            *)
Fresh == [mode |-> "native", app |-> FALSE, data |-> "none", at |-> 0,
          busy |-> FALSE, wait |-> 0]

Address(c, arg) ==                      \* the sector an argument means, or -1
  LET s == IF Kind[c] = "SD2B" THEN arg ELSE arg \div BL
  IN IF s \in Sector /\ (Kind[c] = "SD2B" \/ arg % BL = 0) THEN s ELSE -1
Transfer(k, data, s) ==
  IF s = -1 THEN {[r |-> 64, card |-> k]}
  ELSE {[r |-> 0, card |-> [k EXCEPT !.data = data, !.at = s]]}
Says(k, n) == {[r |-> n, card |-> k]}

(* What a card in SPI mode answers.  A card with block addressing leaves   *)
(* the idle state only when the host says that it knows about those.       *)
Leaves(c, k, cmd, arg) ==
  /\ \/ cmd = "CMD41" /\ Kind[c] # "MMC" /\ (Kind[c] = "SD2B" => arg = HCS)
     \/ cmd = "CMD1" /\ Kind[c] = "MMC"
  /\ k.wait = 0
Idle(c, k, cmd, arg) ==
  CASE cmd = "CMD8" -> Says(k, IF Kind[c] \in {"SD2B", "SD2"} THEN 1 ELSE 5)
    [] cmd = "CMD55" -> IF Kind[c] = "MMC" THEN Says(k, 5) ELSE Says([k EXCEPT !.app = TRUE], 1)
    [] cmd \in {"CMD41", "CMD1"} ->
         IF Leaves(c, k, cmd, arg) THEN Says([k EXCEPT !.mode = "ready"], 0)
         ELSE Says([k EXCEPT !.wait = IF @ = 0 THEN 0 ELSE @ - 1], 1)
    [] cmd = "CMD58" -> Says(k, 1)
    [] OTHER -> Says(k, 5)
Ready(c, k, cmd, arg) ==
  CASE cmd = "CMD17" -> Transfer(k, "single", Address(c, arg))
    [] cmd = "CMD18" -> Transfer(k, "stream", Address(c, arg))
    [] cmd = "CMD24" -> Transfer(k, "packet", Address(c, arg))
    [] cmd = "CMD25" -> Transfer(k, "packets", Address(c, arg))
    [] cmd = "CMD55" -> IF Kind[c] = "MMC" THEN Says(k, 4) ELSE Says([k EXCEPT !.app = TRUE], 0)
    [] cmd \in {"CMD58", "CMD16", "CMD23", "CMD41"} -> Says(k, 0)
    [] OTHER -> Says(k, 4)
Answers(c, k, cmd, arg) ==
  IF cmd = "CMD0"
  THEN {[r |-> 1, card |-> [Fresh EXCEPT !.mode = "idle", !.wait = n]] : n \in 0..MaxIdle}
  ELSE IF k.data # "none"
  THEN IF cmd = "CMD12" /\ k.data = "stream" THEN Says([k EXCEPT !.data = "none"], 0)
       ELSE Says(k, NoAnswer)
  ELSE CASE k.mode = "native" -> Says(k, NoAnswer)
         [] k.mode = "idle" -> Idle(c, [k EXCEPT !.app = FALSE], cmd, arg)
         [] k.mode = "ready" -> Ready(c, [k EXCEPT !.app = FALSE], cmd, arg)

(* The card is pulled out, or one is put in.                               *)
Swap ==
  /\ swaps < MaxSwaps /\ swaps' = swaps + 1
  /\ \E c \in Cards \union {NoCard} :
       /\ (slot = NoCard) # (c = NoCard)
       /\ slot' = c
  /\ card' = Fresh
  /\ UNCHANGED <<media, driver, pc, call, calls, faults>>

Fault == faults < MaxFaults /\ faults' = faults + 1
NoFault == UNCHANGED faults
------------------------------------------------------------------------------
(* wait_ready: a card that is still storing gets done in time or does not; *)
(* an empty socket reads as ready.                                         *)
WaitReady_blind == {[ok |-> TRUE, card |-> card]}   \* mutant: it is not waited for
WaitReady ==
  {[ok |-> TRUE, card |-> [card EXCEPT !.busy = FALSE]]}
    \union (IF card.busy THEN {[ok |-> FALSE, card |-> card]} ELSE {})

(* send_cmd: the responses there may be, and the card after each; lost is  *)
(* for a command or a packet that fails for no reason of the card's.       *)
Out(r, k, lost) == [r |-> r, card |-> k, lost |-> lost]
SendCmd(cmd, arg) ==
  UNION {IF ~w.ok THEN {Out(NoAnswer, w.card, FALSE)}
         ELSE {Out(NoAnswer, w.card, TRUE)}
                \union IF slot = NoCard THEN {Out(NoAnswer, w.card, FALSE)}
                       ELSE {Out(a.r, a.card, FALSE) : a \in Answers(slot, w.card, cmd, arg)}
         : w \in WaitReady}
Take(out) == card' = out.card /\ IF out.lost THEN Fault ELSE NoFault
Command(cmd, arg, Then(_)) ==           \* Then(r) is what the caller does next
  /\ \E out \in SendCmd(cmd, arg) : Take(out) /\ Then(out.r)
  /\ UNCHANGED <<slot, media, swaps, calls, call>>

(* rcvr_datablock: the token, the sector, or a time-out or error token.    *)
Outgoing == slot # NoCard /\ card.data \in {"single", "stream"} /\ card.at \in Sector
Received ==
  /\ Outgoing /\ NoFault
  /\ buff' = Append(buff, media[slot][card.at])
  /\ card' = [card EXCEPT !.data = IF @ = "single" THEN "none" ELSE @, !.at = @ + 1]
NotReceived ==
  /\ IF Outgoing THEN Fault ELSE NoFault
  /\ UNCHANGED <<buff, card>>

(* xmit_datablock, with a data token and with the stop token.              *)
Incoming(w) == slot # NoCard /\ w.card.data \in {"packet", "packets"}
Accepts(w) == w.ok /\ Incoming(w) /\ w.card.at \in Sector
XmitBlock ==
  UNION {(IF Accepts(w)
          THEN {Out(TRUE, [w.card EXCEPT !.at = @ + 1, !.busy = TRUE,
                             !.data = IF @ = "packet" THEN "none" ELSE @], FALSE)} ELSE {})
           \union {Out(FALSE, [w.card EXCEPT !.data = IF w.ok /\ @ = "packet" THEN "none" ELSE @],
                       Accepts(w))}
         : w \in WaitReady}
Store(ok, datum) == media' = IF ok THEN [media EXCEPT ![slot][card.at] = datum] ELSE media
XmitStop ==
  {Out(w.ok, IF w.ok /\ Incoming(w) THEN [w.card EXCEPT !.data = "none", !.busy = TRUE]
             ELSE w.card, FALSE) : w \in WaitReady}
------------------------------------------------------------------------------
(* disk_status, on its own or as the first thing of every other function.  *)
Goto(l) == pc' = l
Return(r) == res' = r /\ pc' = "return"
Same == UNCHANGED <<ty, tmr, left, buff>>
Quiet == Same /\ UNCHANGED CardType

Checked(s) ==                           \* the caller looks at the status s
  CASE call.op = "status" -> Return("status")
    [] call.op = "init" ->
         IF "NODISK" \in s THEN Return("status") ELSE Goto("CMD0") /\ UNCHANGED res
    [] OTHER ->
         IF "NOINIT" \in s THEN Return("NOTRDY")
         ELSE IF call.op = "write" /\ "PROTECT" \in s THEN Return("WRPRT")
         ELSE IF call.op \in {"read", "write"} /\ call.count = 0 THEN Return("PARERR")
         ELSE Goto(call.op) /\ UNCHANGED res
Switches == IF slot \in Locked THEN {"PROTECT"} ELSE {}
Inserted == (Stat \ {"NODISK", "PROTECT"}) \union Switches
DiskStatus ==
  /\ pc = "status"
  /\ \/ /\ slot = NoCard
        /\ Stat' = {"NODISK", "NOINIT"} /\ Checked(Stat')
     \/ /\ slot # NoCard
        /\ Stat' = Inserted
        /\ IF "NOINIT" \in Stat' THEN Checked(Stat') ELSE Goto("probe") /\ UNCHANGED res
  /\ NoFault /\ Quiet /\ UNCHANGED <<wires, media, call, calls>>
Kept(r) == Stat' = IF r = 0 THEN Stat ELSE Stat \union {"NOINIT"}
Probe ==                                \* is the card kept initialized?
  /\ pc = "probe"
  /\ Command("CMD58", 0, LAMBDA r : Kept(r) /\ Checked(Stat'))
  /\ Quiet

(* disk_initialize.  ty is the type the card seems to have.                *)
Ends(type) ==
  /\ CardType' = type
  /\ Stat' = IF type # {} THEN Stat \ {"NOINIT"} ELSE Stat \union {"NOINIT"}
  /\ Return("status")
Continues(l) == Goto(l) /\ UNCHANGED <<CardType, Stat, res>>
TypeIs(type, l) == ty' = type /\ tmr' = InitTries /\ Continues(l)

GoIdle ==
  /\ pc = "CMD0" /\ Same
  /\ Command("CMD0", 0, LAMBDA r : IF r = 1 THEN Continues("CMD8") ELSE Ends({}))
IfCond ==                               \* SDv2?
  /\ pc = "CMD8" /\ UNCHANGED <<left, buff>>
  /\ Command("CMD8", 0, LAMBDA r :
       IF r = 1 THEN TypeIs({"SD2"}, "SD2_CMD55")
       ELSE Continues("old_CMD55") /\ UNCHANGED <<tmr, ty>>)
OldType ==                              \* SDv1 or MMCv3?
  /\ UNCHANGED <<left, buff>>
  /\ \/ /\ pc = "old_CMD55"
        /\ Command("CMD55", 0, LAMBDA r :
             IF r > 1 THEN TypeIs({"MMC"}, "SD1_CMD55")
             ELSE Continues("old_CMD41") /\ UNCHANGED <<tmr, ty>>)
     \/ /\ pc = "old_CMD41"
        /\ Command("CMD41", 0, LAMBDA r :
             TypeIs(IF r <= 1 THEN {"SD1"} ELSE {"MMC"}, "SD1_CMD55"))

(* The two loops that wait for the card to leave the idle state, by ACMD41 *)
(* (CMD55 first) whatever the type; only the first says HCS.               *)
Tried(r, loop, done) ==
  IF r = 0 THEN Continues(done) /\ UNCHANGED tmr
  ELSE /\ tmr' = tmr - 1
       /\ IF tmr' = 0 THEN Ends({}) ELSE Continues(loop)
OpCond(app, cmd, arg, done) ==
  /\ UNCHANGED <<left, buff, ty>>
  /\ \/ /\ pc = app
        /\ Command("CMD55", 0, LAMBDA r :
             IF r > 1 THEN Tried(r, app, done) ELSE Continues(cmd) /\ UNCHANGED tmr)
     \/ /\ pc = cmd
        /\ Command("CMD41", arg, LAMBDA r : Tried(r, app, done))
LeaveIdle ==
  \/ OpCond("SD2_CMD55", "SD2_CMD41", HCS, "CMD58")
  \/ OpCond("SD1_CMD55", "SD1_CMD41", 0, "CMD16")
Capacity ==                             \* CCS in the OCR
  /\ pc = "CMD58" /\ Same
  /\ Command("CMD58", 0, LAMBDA r :
       Ends(IF r # 0 THEN {} ELSE IF Kind[slot] = "SD2B" THEN ty \union {"BLOCK"} ELSE ty))
BlockLen ==
  /\ pc = "CMD16" /\ Same
  /\ Command("CMD16", BL, LAMBDA r : Ends(IF r = 0 THEN ty ELSE {}))

(* disk_read.                                                              *)
AddressOf_raw(s) == s                   \* mutant: every card is addressed by sectors
AddressOf(s) == IF "BLOCK" \in CardType THEN s ELSE s * BL
Single == call.count = 1
Result == Return(IF left = 0 THEN "OK" ELSE "ERROR")
Steady == UNCHANGED <<Stat, CardType, tmr, ty>>

ReadCmd ==
  /\ pc = "read" /\ Steady
  /\ Command(IF Single THEN "CMD17" ELSE "CMD18", AddressOf(call.sector), LAMBDA r :
       IF r = 0 THEN Goto("data_in") /\ UNCHANGED res ELSE Return("ERROR"))
  /\ left' = call.count /\ buff' = <<>>
More(l) == l > 0
ReadBlock ==
  /\ pc = "data_in"
  /\ \/ Received /\ left' = left - 1
     \/ NotReceived /\ left' = left
  /\ IF Single THEN Return(IF left' = 0 THEN "OK" ELSE "ERROR")
     ELSE /\ Goto(IF left' < left /\ More(left') THEN "data_in" ELSE "CMD12")
          /\ UNCHANGED res
  /\ Steady /\ UNCHANGED <<slot, media, swaps, calls, call>>
StopReading ==
  /\ pc = "CMD12" /\ Steady /\ UNCHANGED <<left, buff>>
  /\ Command("CMD12", 0, LAMBDA r : Result)

(* disk_write; ACMD23 announces the number to an SD card, unchecked.       *)
Announce ==
  /\ \/ /\ pc = "write" /\ "MMC" \notin CardType /\ ~Single
        /\ Command("CMD55", 0, LAMBDA r :
             Goto(IF r > 1 THEN "write_cmd" ELSE "CMD23") /\ UNCHANGED res)
     \/ /\ pc = "CMD23"
        /\ Command("CMD23", call.count, LAMBDA r : Goto("write_cmd") /\ UNCHANGED res)
  /\ Steady /\ UNCHANGED <<left, buff>>
WriteCmd ==
  /\ \/ pc = "write_cmd"
     \/ pc = "write" /\ ("MMC" \in CardType \/ Single)
  /\ Steady /\ UNCHANGED buff /\ left' = call.count
  /\ Command(IF Single THEN "CMD24" ELSE "CMD25", AddressOf(call.sector), LAMBDA r :
       IF r = 0 THEN Goto("data_out") /\ UNCHANGED res ELSE Return("ERROR"))
Sent_anyway(ok) == left' = left - 1     \* mutant: what is refused counts as sent
Sent(ok) == left' = IF ok THEN left - 1 ELSE left
NextDatum == Datum(calls, call.count - left)
WriteBlock ==
  /\ pc = "data_out" /\ Steady /\ UNCHANGED buff
  /\ \E out \in XmitBlock :
       /\ Take(out) /\ Store(out.r, NextDatum) /\ Sent(out.r)
       /\ IF Single THEN Return(IF out.r THEN "OK" ELSE "ERROR")
          ELSE /\ Goto(IF out.r /\ More(left') THEN "data_out" ELSE "stop")
               /\ UNCHANGED res
  /\ UNCHANGED <<slot, swaps, calls, call>>
StopWriting ==
  /\ pc = "stop" /\ Steady /\ UNCHANGED <<left, buff>>
  /\ \E out \in XmitStop :
       Take(out) /\ Return(IF out.r /\ left = 0 THEN "OK" ELSE "ERROR")
  /\ UNCHANGED <<slot, media, swaps, calls, call>>

(* disk_ioctl with CTRL_SYNC, the only one this program uses.              *)
SyncCard ==
  /\ pc = "sync" /\ Steady /\ UNCHANGED <<left, buff>>
  /\ \E w \in WaitReady : card' = w.card /\ Return(IF w.ok THEN "OK" ELSE "ERROR")
  /\ NoFault /\ UNCHANGED <<slot, media, swaps, calls, call>>
------------------------------------------------------------------------------
Asked ==
  [op : {"status", "init", "sync"}, sector : {0}, count : {0}]
    \union {q \in [op : {"read", "write"}, sector : Sectors, count : Counts] :
             q.sector + q.count <= NSectors}
Call ==
  /\ pc = "idle" /\ calls < MaxCalls
  /\ call' \in Asked /\ calls' = calls + 1
  /\ Goto("status")
  /\ UNCHANGED <<wires, media, driver, faults>>
Back ==
  /\ pc = "return" /\ Goto("idle")
  /\ tmr' = 0 /\ left' = 0 /\ buff' = <<>> /\ ty' = {}    \* locals of the call
  /\ UNCHANGED <<wires, media, Stat, CardType, res, call, calls, faults>>

Init ==
  /\ slot \in First /\ card = Fresh
  /\ media = [c \in Cards |-> [s \in Sector |-> <<c, s>>]]
  /\ Stat = {"NOINIT"} /\ CardType = {} /\ ty = {}
  /\ pc = "idle" /\ call = [op |-> "status", sector |-> 0, count |-> 0]
  /\ tmr = 0 /\ left = 0 /\ buff = <<>> /\ res = "OK"
  /\ calls = 0 /\ swaps = 0 /\ faults = 0

Initialize == GoIdle \/ IfCond \/ OldType \/ LeaveIdle \/ Capacity \/ BlockLen
DiskRead == ReadCmd \/ ReadBlock \/ StopReading
DiskWrite == Announce \/ WriteCmd \/ WriteBlock \/ StopWriting
Next == Call \/ Back \/ DiskStatus \/ Probe \/ Initialize
        \/ DiskRead \/ DiskWrite \/ SyncCard \/ Swap
Spec == Init /\ [][Next]_vars

------------------------------------------------------------------------------
(* A read that is reported well has brought the sectors asked for, all of  *)
(* one card, however cards were exchanged between and within the calls.    *)
ReadRight ==
  pc = "return" /\ call.op = "read" /\ res = "OK" =>
    \E c \in Cards : buff = [i \in 1..call.count |-> media[c][call.sector + i - 1]]

(* A sector only ever changes to what the write under way has for it, on a *)
(* card that is not write-protected; and a write that is reported well has *)
(* put all its sectors on one card.                                        *)
Written(c) == \A i \in 0..call.count - 1 :
                media'[c][call.sector + i] = Datum(calls, i)
WriteRight == [][
  /\ \A c \in Cards, s \in Sector : media'[c][s] # media[c][s] =>
       /\ call.op = "write" /\ s - call.sector \in 0..call.count - 1
       /\ media'[c][s] = Datum(calls, s - call.sector) /\ c \notin Locked
  /\ pc # "return" /\ pc' = "return" /\ call.op = "write" /\ res' = "OK" =>
       \E c \in Cards : Written(c)]_vars

(* After CTRL_SYNC ("Make sure that no pending write process",             *)
(* mmcbb.c:575) the card has stored all it was given.                      *)
SyncSettles == pc = "return" /\ call.op = "sync" /\ res = "OK" => ~card.busy

(* An MMC that answers every command, and is idle for fewer tries than are *)
(* made, is initialized: the driver has a card type for it ("MMCv3").      *)
MmcStarts ==
  pc = "return" /\ call.op = "init" /\ slot # NoCard /\ Kind[slot] = "MMC"
    => "NOINIT" \notin Stat
=============================================================================
