---------------------------- MODULE DiskIoProofs -----------------------------
(* Whatever cards are put in and pulled out while mmcbb.c works, a read or *)
(* a write it reports well has reached the sectors asked for: for every    *)
(* number of cards, sectors, tries and calls.                              *)
EXTENDS DiskIoInv, TLAPS

(* The argument of a command for a sector: a card that agrees with the     *)
(* driver about the addresses takes it for that sector.                    *)
LEMMA AddressRight ==
  ASSUME NEW c \in Cards, NEW s \in Nat, "BLOCK" \in CardType <=> Kind[c] = "SD2B",
         Address(c, AddressOf(s)) # -1
  PROVE  Address(c, AddressOf(s)) = s /\ s \in Sector
<1>1. (s * BL) \div BL = s
  BY DiskAssumption
<1> QED
  BY <1>1 DEF Address, AddressOf

(* An address is a number of a sector, or -1 for none.                     *)
LEMMA AddressType ==
  ASSUME NEW c \in Cards, NEW arg \in Int
  PROVE  Address(c, arg) \in Int
<1> DEFINE n == IF Kind[c] = "SD2B" THEN arg ELSE arg \div BL
<1>1. n \in Int
  BY DiskAssumption
<1>2. Address(c, arg) = n \/ Address(c, arg) = -1
  BY DEF Address
<1> QED
  BY <1>1, <1>2

LEMMA AddressOfType ==
  ASSUME NEW s \in Nat
  PROVE  AddressOf(s) \in Int
<1>1. BL \in Nat
  BY DiskAssumption
<1>2. s * BL \in Int
  BY <1>1
<1> QED
  BY <1>2 DEF AddressOf

LEMMA SectorNat == Sector \subseteq Nat /\ -1 \notin Sector
BY DiskAssumption DEF Sector
------------------------------------------------------------------------------
(* What a card answers, by its mode.                                       *)
Sane(k) == k.data # "none" => k.mode = "ready"
ForSector == {"CMD17", "CMD18", "CMD24", "CMD25"}
DataOf(cmd) == CASE cmd = "CMD17" -> "single" [] cmd = "CMD18" -> "stream"
                 [] cmd = "CMD24" -> "packet" [] cmd = "CMD25" -> "packets"

(* What the driver may conclude of a card c that was k when it answered a  *)
(* to a command.  Only CMD0, CMD41 and CMD1 change the mode; a card with   *)
(* block addressing gets ready by HCS only; 0 is said by a ready card.     *)
Concluded(c, k, cmd, arg, a) ==
  /\ a.r \in Int /\ a.card \in CardState /\ Sane(a.card)
  /\ cmd \notin {"CMD0", "CMD41", "CMD1"} => a.card.mode = k.mode
  /\ cmd = "CMD41" /\ Kind[c] = "SD2B" /\ arg # HCS /\ a.card.mode = "ready" => k.mode = "ready"
  /\ cmd = "CMD0" /\ a.r = 1 => a.card.mode = "idle"
  /\ cmd \in {"CMD58", "CMD16"} /\ a.r = 0 => k.mode = "ready"
  /\ cmd \in ForSector /\ a.r = 0 =>
       /\ k.mode = "ready" /\ a.card.data = DataOf(cmd)
       /\ a.card.at = Address(c, arg) /\ Address(c, arg) # -1

LEMMA FreshType == Fresh \in CardState /\ Fresh.mode = "native" /\ Fresh.data = "none"
<1>1. \A b \in BOOLEAN, m \in {"native"}, d \in {"none"}, n \in {0} :
        [mode |-> m, app |-> b, data |-> d, at |-> n, busy |-> b, wait |-> n] \in CardState
  BY DEF CardState
<1> QED
  BY <1>1 DEF Fresh

LEMMA Accepted ==
  ASSUME NEW k \in CardState
  PROVE  LET v == [k EXCEPT !.app = TRUE]
         IN  v \in CardState /\ v.mode = k.mode /\ v.data = k.data
BY DEF CardState

LEMMA IdleAnswer ==
  ASSUME NEW c \in Cards, NEW k \in CardState, NEW cmd, NEW arg \in Int,
         k.mode = "idle", k.data = "none", cmd # "CMD0", NEW a \in Idle(c, k, cmd, arg)
  PROVE  Concluded(c, k, cmd, arg, a)
<1>1. CASE cmd = "CMD8"
  BY <1>1 DEF Idle, Says, Concluded, Sane, CardState, ForSector
<1>2. CASE cmd = "CMD55"
  <2>1. a \in {[r |-> 5, card |-> k], [r |-> 1, card |-> [k EXCEPT !.app = TRUE]]}
    BY <1>2 DEF Idle, Says
  <2>2. a.r \in {1, 5} /\ a.card \in {k, [k EXCEPT !.app = TRUE]}
    BY <2>1
  <2>3. a.card \in CardState /\ a.card.mode = k.mode /\ a.card.data = "none"
    BY <2>2, Accepted
  <2> QED
    BY <1>2, <2>2, <2>3 DEF Concluded, Sane, ForSector
<1>3. CASE cmd \in {"CMD41", "CMD1"}
  <2>1. CASE Leaves(c, k, cmd, arg)
    BY <1>3, <2>1 DEF Idle, Says, Leaves, Concluded, Sane, CardState, ForSector
  <2>2. CASE ~Leaves(c, k, cmd, arg)
    BY <1>3, <2>2 DEF Idle, Says, Concluded, Sane, CardState, ForSector
  <2> QED
    BY <2>1, <2>2
<1>4. CASE cmd = "CMD58"
  BY <1>4 DEF Idle, Says, Concluded, Sane, CardState, ForSector
<1>5. CASE cmd \notin {"CMD8", "CMD55", "CMD41", "CMD1", "CMD58"}
  BY <1>5 DEF Idle, Says, Concluded, Sane, CardState, ForSector
<1> QED
  BY <1>1, <1>2, <1>3, <1>4, <1>5

LEMMA ReadyAnswer ==
  ASSUME NEW c \in Cards, NEW k \in CardState, NEW cmd, NEW arg \in Int,
         k.mode = "ready", k.data = "none", cmd # "CMD0", NEW a \in Ready(c, k, cmd, arg)
  PROVE  Concluded(c, k, cmd, arg, a)
<1>1. CASE cmd \in ForSector
  <2>1. Ready(c, k, cmd, arg) = Transfer(k, DataOf(cmd), Address(c, arg))
    BY <1>1 DEF Ready, ForSector, DataOf
  <2>2. Address(c, arg) \in Int
    BY AddressType
  <2>3. DataOf(cmd) \in {"single", "stream", "packet", "packets"}
    BY <1>1 DEF ForSector, DataOf
  <2>4. CASE Address(c, arg) = -1
    BY <1>1, <2>1, <2>4 DEF Transfer, Concluded, Sane, ForSector
  <2>5. CASE Address(c, arg) # -1
    <3> DEFINE v == [k EXCEPT !.data = DataOf(cmd), !.at = Address(c, arg)]
    <3>1. v \in CardState /\ v.mode = "ready" /\ v.data = DataOf(cmd) /\ v.at = Address(c, arg)
      BY <2>2, <2>3 DEF CardState
    <3>2. a.r = 0 /\ a.card = v
      BY <2>1, <2>5 DEF Transfer
    <3> QED
      BY <1>1, <2>5, <3>1, <3>2 DEF Concluded, Sane, ForSector
  <2> QED
    BY <2>4, <2>5
<1>2. CASE cmd = "CMD55"
  <2>1. a \in {[r |-> 4, card |-> k], [r |-> 0, card |-> [k EXCEPT !.app = TRUE]]}
    BY <1>2 DEF Ready, Says, ForSector
  <2>2. a.r \in {0, 4} /\ a.card \in {k, [k EXCEPT !.app = TRUE]}
    BY <2>1
  <2>3. a.card \in CardState /\ a.card.mode = k.mode /\ a.card.data = "none"
    BY <2>2, Accepted
  <2> QED
    BY <1>2, <2>2, <2>3 DEF Concluded, Sane, ForSector
<1>3. CASE cmd \in {"CMD58", "CMD16", "CMD23", "CMD41"}
  BY <1>3 DEF Ready, Says, Concluded, Sane, CardState, ForSector
<1>4. CASE cmd \notin ForSector \union {"CMD55", "CMD58", "CMD16", "CMD23", "CMD41"}
  BY <1>4 DEF Ready, Says, Concluded, Sane, CardState, ForSector
<1> QED
  BY <1>1, <1>2, <1>3, <1>4

LEMMA Answer ==
  ASSUME NEW c \in Cards, NEW k \in CardState, NEW cmd, NEW arg \in Int,
         Sane(k), NEW a \in Answers(c, k, cmd, arg)
  PROVE  Concluded(c, k, cmd, arg, a)
<1> DEFINE u == [k EXCEPT !.app = FALSE]
<1>1. u \in CardState /\ u.mode = k.mode /\ u.data = k.data
  BY DEF CardState
<1>2. CASE cmd = "CMD0"
  <2>1. PICK n \in 0..MaxIdle : a = [r |-> 1, card |-> [Fresh EXCEPT !.mode = "idle", !.wait = n]]
    BY <1>2 DEF Answers
  <2>2. n \in Int
    BY DiskAssumption
  <2> DEFINE i == [Fresh EXCEPT !.mode = "idle"]
             v == [i EXCEPT !.wait = n]
  <2>3. i \in CardState /\ i.mode = "idle" /\ i.data = "none"
    <3>1. Fresh \in CardState /\ Fresh.data = "none"
      BY FreshType
    <3> QED
      BY <3>1 DEF CardState
  <2>4. v \in CardState /\ v.mode = "idle" /\ v.data = "none"
    BY <2>2, <2>3 DEF CardState
  <2>5. a.r = 1 /\ a.card = v
    BY <2>1
  <2>6. a.r = 1 /\ a.card \in CardState /\ a.card.mode = "idle" /\ a.card.data = "none"
    BY <2>4, <2>5
  <2> QED
    BY <1>2, <2>6 DEF Concluded, Sane, ForSector
<1>3. CASE cmd # "CMD0" /\ k.data # "none"
  BY <1>3 DEF Answers, Says, NoAnswer, Concluded, Sane, CardState, ForSector
<1>4. CASE cmd # "CMD0" /\ k.data = "none" /\ k.mode = "native"
  BY <1>4 DEF Answers, Says, NoAnswer, Concluded, Sane, CardState, ForSector
<1>5. CASE cmd # "CMD0" /\ k.data = "none" /\ k.mode = "idle"
  <2>1. a \in Idle(c, u, cmd, arg)
    BY <1>5 DEF Answers
  <2>2. Concluded(c, u, cmd, arg, a)
    BY <1>1, <1>5, <2>1, IdleAnswer
  <2> QED
    BY <1>1, <2>2 DEF Concluded
<1>6. CASE cmd # "CMD0" /\ k.data = "none" /\ k.mode = "ready"
  <2>1. a \in Ready(c, u, cmd, arg)
    BY <1>6 DEF Answers
  <2>2. Concluded(c, u, cmd, arg, a)
    BY <1>1, <1>6, <2>1, ReadyAnswer
  <2> QED
    BY <1>1, <2>2 DEF Concluded
<1> QED
  BY <1>2, <1>3, <1>4, <1>5, <1>6 DEF CardState

(* The same of send_cmd: 0 and 1 are the answers of a card in the socket;  *)
(* a command that gets through nowhere changes nothing that matters.       *)
LEMMA Response ==
  ASSUME TypeOK, Sane(card), NEW cmd, NEW arg \in Int, NEW out \in SendCmd(cmd, arg)
  PROVE  /\ out.r \in {0, 1} => slot \in Cards
         /\ Concluded(slot, card, cmd, arg, out)
<1> DEFINE v == [card EXCEPT !.busy = FALSE]
<1>0. /\ card \in CardState /\ v \in CardState
      /\ v.mode = card.mode /\ v.data = card.data /\ v.at = card.at
  BY DEF TypeOK, CardState
<1>1. PICK u \in CardState :
        u = v /\ u.mode = card.mode /\ u.data = card.data /\ u.at = card.at
  BY <1>0
<1>2. PICK w \in WaitReady :
        out \in IF ~w.ok THEN {Out(NoAnswer, w.card, FALSE)}
               ELSE {Out(NoAnswer, w.card, TRUE)}
                      \union IF slot = NoCard THEN {Out(NoAnswer, w.card, FALSE)}
                             ELSE {Out(a.r, a.card, FALSE) : a \in Answers(slot, w.card, cmd, arg)}
  BY DEF SendCmd
<1>3. \/ out.r = NoAnswer /\ out.card \in {card, u}
      \/ slot \in Cards /\ \E a \in Answers(slot, u, cmd, arg) : out.r = a.r /\ out.card = a.card
  <2>1. w = [ok |-> TRUE, card |-> u] \/ w = [ok |-> FALSE, card |-> card]
    BY <1>1 DEF WaitReady
  <2>2. CASE w = [ok |-> TRUE, card |-> u]
    <3>1. w.card = u
      BY <2>2
    <3>2. w.ok = TRUE
      BY <2>2
    <3>3. \/ out = Out(NoAnswer, u, TRUE) \/ out = Out(NoAnswer, u, FALSE)
          \/ slot # NoCard /\ \E a \in Answers(slot, u, cmd, arg) : out = Out(a.r, a.card, FALSE)
      BY <1>2, <3>1, <3>2
    <3>4. slot # NoCard => slot \in Cards
      BY DEF TypeOK
    <3>5. CASE out = Out(NoAnswer, u, TRUE) \/ out = Out(NoAnswer, u, FALSE)
      <4>1. out.r = NoAnswer /\ out.card = u
        BY <3>5 DEF Out
      <4> QED
        BY <4>1
    <3>6. ASSUME NEW a \in Answers(slot, u, cmd, arg), out = Out(a.r, a.card, FALSE)
          PROVE  out.r = a.r /\ out.card = a.card
      BY <3>6 DEF Out
    <3> QED
      BY <3>3, <3>4, <3>5, <3>6
  <2>3. CASE w = [ok |-> FALSE, card |-> card]
    <3>1. w.card = card
      BY <2>3
    <3>2. w.ok = FALSE
      BY <2>3
    <3>3. out = Out(NoAnswer, card, FALSE)
      BY <1>2, <3>1, <3>2
    <3>4. out.r = NoAnswer /\ out.card = card
      BY <3>3 DEF Out
    <3> QED
      BY <3>4
  <2> QED
    BY <2>1, <2>2, <2>3
<1>4. CASE out.r = NoAnswer /\ out.card \in {card, u}
  <2>1. out.r \in Int /\ out.r \notin {0, 1}
    BY <1>4 DEF NoAnswer
  <2>2. out.card \in CardState /\ out.card.mode = card.mode /\ out.card.data = card.data
    BY <1>0, <1>1, <1>4
  <2> QED
    BY <2>1, <2>2 DEF Concluded, Sane
<1>5. ASSUME slot \in Cards, NEW a \in Answers(slot, u, cmd, arg), out.r = a.r, out.card = a.card
      PROVE  /\ out.r \in {0, 1} => slot \in Cards
             /\ Concluded(slot, card, cmd, arg, out)
  <2>1. Concluded(slot, u, cmd, arg, a)
    BY <1>1, <1>5, Answer DEF Sane
  <2> QED
    BY <1>1, <1>5, <2>1 DEF Concluded
<1> QED
  BY <1>3, <1>4, <1>5
------------------------------------------------------------------------------
(* disk_initialize: a step of it goes on, and leaves the status and the    *)
(* card type alone, or ends with both set, right for the card it asked.    *)
Alike(c, k, stat, type) ==
  "NOINIT" \notin stat /\ c # NoCard /\ k.mode = "ready" => ("BLOCK" \in type <=> Kind[c] = "SD2B")
InitStep ==
  /\ card' \in CardState /\ Sane(card') /\ tmr' \in Int /\ ty' \subseteq {"SD1", "SD2", "MMC"}
  /\ UNCHANGED <<slot, media, call, calls, left, buff>>
  /\ \/ /\ pc' \in InitLabels /\ UNCHANGED <<Stat, CardType, res>>
        /\ pc' \in OldLabels /\ slot # NoCard /\ Kind[slot] = "SD2B" => card'.mode # "ready"
     \/ /\ pc' = "return" /\ res' = "status"
        /\ Stat' \subseteq Stat \union {"NOINIT"}
        /\ CardType' \subseteq {"SD1", "SD2", "MMC", "BLOCK"}
        /\ Alike(slot, card', Stat', CardType')

(* It gives up, or it has found a type that is right for the card.         *)
LEMMA EndsRight ==
  ASSUME DInv, NEW type, Ends(type), type \subseteq {"SD1", "SD2", "MMC", "BLOCK"},
         type # {} /\ slot # NoCard => ("BLOCK" \in type <=> Kind[slot] = "SD2B")
  PROVE  /\ pc' = "return" /\ res' = "status" /\ Stat' \subseteq Stat \union {"NOINIT"}
         /\ CardType' = type /\ Alike(slot, card', Stat', CardType')
BY DEF Ends, Return, Alike

(* What send_cmd returns, as a step of disk_initialize takes it.           *)
LEMMA Taken ==
  ASSUME DInv, NEW cmd, NEW arg \in Int, NEW out \in SendCmd(cmd, arg), Take(out)
  PROVE  /\ card' = out.card /\ card' \in CardState /\ Sane(card') /\ out.r \in Int
         /\ out.r \in {0, 1} => slot \in Cards
         /\ Concluded(slot, card, cmd, arg, out)
<1>1. Concluded(slot, card, cmd, arg, out) /\ (out.r \in {0, 1} => slot \in Cards)
  BY Response DEF DInv, KindInv, Sane
<1>2. card' = out.card
  BY DEF Take
<1> QED
  BY <1>1, <1>2 DEF Concluded

(* Commands that leave the card's mode alone, and what their arguments are. *)
Plain == {"CMD8", "CMD55", "CMD58", "CMD16", "CMD12", "CMD23"} \union ForSector
LEMMA Literals ==
  /\ 0 \in Int /\ "CMD8" \in Plain /\ "CMD55" \in Plain /\ "CMD58" \in Plain
  /\ "CMD12" \in Plain /\ "CMD23" \in Plain /\ ForSector \subseteq Plain
BY DEF Plain

LEMMA TakenMode ==
  ASSUME DInv, NEW cmd \in Plain, NEW arg \in Int,
         NEW out \in SendCmd(cmd, arg), Take(out)
  PROVE  card' \in CardState /\ Sane(card') /\ card'.mode = card.mode /\ out.r \in Int
<1>1. /\ card' = out.card /\ card' \in CardState /\ Sane(card') /\ out.r \in Int
      /\ Concluded(slot, card, cmd, arg, out)
  BY Taken
<1> QED
  BY <1>1 DEF Concluded, Plain, ForSector

LEMMA TakenOld ==
  ASSUME DInv, NEW arg \in Int, NEW out \in SendCmd("CMD41", arg), Take(out)
  PROVE  /\ card' \in CardState /\ Sane(card')
         /\ Kind[slot] = "SD2B" /\ arg # HCS /\ card'.mode = "ready" => card.mode = "ready"
<1>1. /\ card' = out.card /\ card' \in CardState /\ Sane(card')
      /\ Concluded(slot, card, "CMD41", arg, out)
  BY Taken
<1> QED
  BY <1>1 DEF Concluded

LEMMA HcsType == HCS \in Int /\ HCS # 0
BY DEF HCS

LEMMA GoIdleStep == DInv /\ GoIdle => InitStep
<1> SUFFICES ASSUME DInv, GoIdle PROVE InitStep
  OBVIOUS
<1>1. PICK out \in SendCmd("CMD0", 0) :
        Take(out) /\ IF out.r = 1 THEN Continues("CMD8") ELSE Ends({})
  BY DEF GoIdle, Command
<1>2. /\ card' \in CardState /\ Sane(card')
      /\ out.r = 1 => card'.mode = "idle"
  BY <1>1, Taken DEF Concluded
<1>3. /\ tmr' \in Int /\ ty' \subseteq {"SD1", "SD2", "MMC"}
      /\ UNCHANGED <<slot, media, call, calls, left, buff>>
  BY DEF GoIdle, Command, Same, DInv, TypeOK
<1>4. CASE out.r = 1
  BY <1>1, <1>2, <1>3, <1>4 DEF InitStep, Continues, Goto, InitLabels
<1>5. CASE out.r # 1
  BY <1>1, <1>2, <1>3, <1>5, EndsRight DEF InitStep
<1> QED
  BY <1>4, <1>5

LEMMA IfCondStep == DInv /\ IfCond => InitStep
<1> SUFFICES ASSUME DInv, IfCond PROVE InitStep
  OBVIOUS
<1>1. PICK out \in SendCmd("CMD8", 0) :
        Take(out) /\ IF out.r = 1 THEN TypeIs({"SD2"}, "SD2_CMD55")
                     ELSE Continues("old_CMD55") /\ UNCHANGED <<tmr, ty>>
  BY DEF IfCond, Command
<1>2. card' \in CardState /\ Sane(card') /\ card'.mode = card.mode
  BY <1>1, TakenMode, Literals, Zenon
<1>3. UNCHANGED <<slot, media, call, calls, left, buff>> /\ pc = "CMD8"
  BY DEF IfCond, Command
<1>4. slot # NoCard /\ Kind[slot] = "SD2B" => card.mode # "ready"
  BY <1>3 DEF DInv, OldInv, OldLabels
<1>5. CASE out.r = 1
  <2>1. /\ pc' = "SD2_CMD55" /\ UNCHANGED <<Stat, CardType, res>>
        /\ ty' = {"SD2"} /\ tmr' = InitTries
    BY <1>1, <1>5 DEF TypeIs, Continues, Goto
  <2>2. InitTries \in Int
    BY DiskAssumption
  <2> QED
    BY <1>2, <1>3, <2>1, <2>2 DEF InitStep, InitLabels, OldLabels
<1>6. CASE out.r # 1
  BY <1>1, <1>2, <1>3, <1>4, <1>6
     DEF InitStep, Continues, Goto, InitLabels, DInv, TypeOK
<1> QED
  BY <1>5, <1>6

LEMMA OldTypeStep == DInv /\ OldType => InitStep
<1> SUFFICES ASSUME DInv, OldType PROVE InitStep
  OBVIOUS
<1>1. UNCHANGED <<slot, media, call, calls, left, buff>> /\ pc \in {"old_CMD55", "old_CMD41"}
  BY DEF OldType, Command
<1>2. slot # NoCard /\ Kind[slot] = "SD2B" => card.mode # "ready"
  BY <1>1 DEF DInv, OldInv, OldLabels
<1>3. tmr \in Int /\ ty \subseteq {"SD1", "SD2", "MMC"} /\ InitTries \in Int
  BY DiskAssumption DEF DInv, TypeOK
<1>4. ASSUME NEW out \in SendCmd("CMD55", 0), Take(out),
             IF out.r > 1 THEN TypeIs({"MMC"}, "SD1_CMD55")
             ELSE Continues("old_CMD41") /\ UNCHANGED <<tmr, ty>>
      PROVE  InitStep
  <2>1. card' \in CardState /\ Sane(card') /\ card'.mode = card.mode
    BY <1>4, TakenMode, Literals, Zenon
  <2> QED
    BY <1>1, <1>2, <1>3, <1>4, <2>1 DEF InitStep, TypeIs, Continues, Goto, InitLabels
<1>5. ASSUME NEW out \in SendCmd("CMD41", 0), Take(out),
             TypeIs(IF out.r <= 1 THEN {"SD1"} ELSE {"MMC"}, "SD1_CMD55")
      PROVE  InitStep
  <2>1. /\ card' \in CardState /\ Sane(card')
        /\ Kind[slot] = "SD2B" /\ card'.mode = "ready" => card.mode = "ready"
    BY <1>5, TakenOld, HcsType, Literals, Zenon
  <2> QED
    BY <1>1, <1>2, <1>3, <1>5, <2>1 DEF InitStep, TypeIs, Continues, Goto, InitLabels
<1> QED
  BY <1>4, <1>5 DEF OldType, Command

(* The two loops.                                                          *)
LEMMA TriedStep ==
  ASSUME DInv, NEW r, NEW loop \in InitLabels, NEW done \in InitLabels, Tried(r, loop, done),
         card' \in CardState, Sane(card'), UNCHANGED <<slot, media, call, calls, left, buff, ty>>,
         \/ loop \notin OldLabels /\ done \notin OldLabels
         \/ slot # NoCard /\ Kind[slot] = "SD2B" => card'.mode # "ready"
  PROVE  InitStep
<1>1. tmr \in Int /\ ty \subseteq {"SD1", "SD2", "MMC"}
  BY DEF DInv, TypeOK
<1>2. CASE r = 0
  BY <1>1, <1>2 DEF InitStep, Tried, Continues, Goto
<1>3. CASE r # 0 /\ tmr' # 0
  BY <1>1, <1>3 DEF InitStep, Tried, Continues, Goto
<1>4. CASE r # 0 /\ tmr' = 0
  BY <1>1, <1>4, EndsRight DEF InitStep, Tried
<1> QED
  BY <1>2, <1>3, <1>4

LEMMA OpCondStep ==
  ASSUME DInv, NEW app \in InitLabels, NEW cmd \in InitLabels, NEW arg \in Int,
         NEW done \in InitLabels, OpCond(app, cmd, arg, done),
         \/ app \notin OldLabels /\ cmd \notin OldLabels /\ done \notin OldLabels
         \/ arg # HCS /\ app \in OldLabels /\ cmd \in OldLabels
  PROVE  InitStep
<1>1. UNCHANGED <<slot, media, call, calls, left, buff, ty>> /\ pc \in {app, cmd}
  BY DEF OpCond, Command
<1>2. \/ app \notin OldLabels /\ cmd \notin OldLabels /\ done \notin OldLabels
      \/ arg # HCS /\ (slot # NoCard /\ Kind[slot] = "SD2B" => card.mode # "ready")
  BY <1>1 DEF DInv, OldInv
<1>3. ASSUME NEW out \in SendCmd("CMD55", 0), Take(out),
             IF out.r > 1 THEN Tried(out.r, app, done) ELSE Continues(cmd) /\ UNCHANGED tmr
      PROVE  InitStep
  <2>1. card' \in CardState /\ Sane(card') /\ card'.mode = card.mode
    BY <1>3, TakenMode, Literals, Zenon
  <2>2. CASE Tried(out.r, app, done)
    BY <1>1, <1>2, <2>1, <2>2, TriedStep
  <2>3. CASE Continues(cmd) /\ UNCHANGED tmr
    BY <1>1, <1>2, <2>1, <2>3 DEF InitStep, Continues, Goto, DInv, TypeOK
  <2> QED
    BY <1>3, <2>2, <2>3
<1>4. ASSUME NEW out \in SendCmd("CMD41", arg), Take(out), Tried(out.r, app, done)
      PROVE  InitStep
  <2>1. /\ card' \in CardState /\ Sane(card')
        /\ Kind[slot] = "SD2B" /\ arg # HCS /\ card'.mode = "ready" => card.mode = "ready"
    BY <1>4, TakenOld
  <2> QED
    BY <1>1, <1>2, <1>4, <2>1, TriedStep
<1> QED
  BY <1>3, <1>4 DEF OpCond, Command

LEMMA LeaveIdleStep == DInv /\ LeaveIdle => InitStep
<1>1. /\ {"SD2_CMD55", "SD2_CMD41", "CMD58", "SD1_CMD55", "SD1_CMD41", "CMD16"} \subseteq InitLabels
      /\ {"SD1_CMD55", "SD1_CMD41"} \subseteq OldLabels
      /\ "SD2_CMD55" \notin OldLabels /\ "SD2_CMD41" \notin OldLabels /\ "CMD58" \notin OldLabels
  BY DEF InitLabels, OldLabels
<1>2. ASSUME DInv, OpCond("SD2_CMD55", "SD2_CMD41", HCS, "CMD58") PROVE InitStep
  BY <1>1, <1>2, HcsType, OpCondStep
<1>3. ASSUME DInv, OpCond("SD1_CMD55", "SD1_CMD41", 0, "CMD16") PROVE InitStep
  BY <1>1, <1>3, HcsType, Literals, OpCondStep
<1> QED
  BY <1>2, <1>3 DEF LeaveIdle

LEMMA CapacityStep == DInv /\ Capacity => InitStep
<1> SUFFICES ASSUME DInv, Capacity PROVE InitStep
  OBVIOUS
<1> DEFINE type(r) == IF r # 0 THEN {} ELSE IF Kind[slot] = "SD2B" THEN ty \union {"BLOCK"} ELSE ty
<1>1. PICK out \in SendCmd("CMD58", 0) : Take(out) /\ Ends(type(out.r))
  BY DEF Capacity, Command
<1>2. card' \in CardState /\ Sane(card') /\ (out.r = 0 => slot \in Cards)
  BY <1>1, Taken
<1>3. /\ tmr' \in Int /\ ty' \subseteq {"SD1", "SD2", "MMC"} /\ ty \subseteq {"SD1", "SD2", "MMC"}
      /\ UNCHANGED <<slot, media, call, calls, left, buff>>
  BY DEF Capacity, Command, Same, DInv, TypeOK
<1>4. /\ type(out.r) \subseteq {"SD1", "SD2", "MMC", "BLOCK"}
      /\ type(out.r) # {} => ("BLOCK" \in type(out.r) <=> Kind[slot] = "SD2B")
  BY <1>3
<1> HIDE DEF type
<1> QED
  BY <1>1, <1>2, <1>3, <1>4, EndsRight DEF InitStep

LEMMA BlockLenStep == DInv /\ BlockLen => InitStep
<1> SUFFICES ASSUME DInv, BlockLen PROVE InitStep
  OBVIOUS
<1> DEFINE type(r) == IF r = 0 THEN ty ELSE {}
<1>0. BL \in Int
  BY DiskAssumption
<1>1. PICK out \in SendCmd("CMD16", BL) : Take(out) /\ Ends(type(out.r))
  BY DEF BlockLen, Command
<1>2. /\ card' \in CardState /\ Sane(card')
      /\ out.r = 0 => slot \in Cards /\ card.mode = "ready"
  BY <1>0, <1>1, Taken DEF Concluded
<1>3. /\ tmr' \in Int /\ ty' \subseteq {"SD1", "SD2", "MMC"} /\ ty \subseteq {"SD1", "SD2", "MMC"}
      /\ UNCHANGED <<slot, media, call, calls, left, buff>> /\ pc = "CMD16"
  BY DEF BlockLen, Command, Same, DInv, TypeOK
<1>4. slot # NoCard /\ Kind[slot] = "SD2B" => card.mode # "ready"
  BY <1>3 DEF DInv, OldInv, OldLabels
<1>5. /\ type(out.r) \subseteq {"SD1", "SD2", "MMC", "BLOCK"}
      /\ type(out.r) # {} /\ slot # NoCard => ("BLOCK" \in type(out.r) <=> Kind[slot] = "SD2B")
  BY <1>2, <1>3, <1>4
<1> HIDE DEF type
<1> QED
  BY <1>1, <1>2, <1>3, <1>5, EndsRight DEF InitStep

(* None of them disturbs the invariant.                                    *)
LEMMA InitKeeps ==
  ASSUME DInv, InitStep, call.op = "init"
  PROVE  DInv'
<1>0. UNCHANGED <<slot, media, call, calls, left, buff>>
  BY DEF InitStep
<1>1. CASE /\ pc' \in InitLabels /\ UNCHANGED <<Stat, CardType, res>>
           /\ pc' \in OldLabels /\ slot # NoCard /\ Kind[slot] = "SD2B" => card'.mode # "ready"
  <2>1. TypeOK'
    BY <1>0, <1>1 DEF InitStep, DInv, TypeOK, Labels
  <2>2. CallInv' /\ LockedInv' /\ BuffInv' /\ MediaInv' /\ SyncSettles'
    BY <1>0, <1>1 DEF CallInv, LockedInv, BuffInv, MediaInv, SyncSettles, InitLabels,
                      ReadLabels, WriteLabels
  <2>3. OldInv'
    BY <1>0, <1>1 DEF OldInv
  <2>4. KindInv'
    BY <1>1 DEF InitStep, KindInv, Sane
  <2> QED
    BY <2>1, <2>2, <2>3, <2>4 DEF DInv
<1>2. CASE /\ pc' = "return" /\ res' = "status" /\ Stat' \subseteq Stat \union {"NOINIT"}
           /\ CardType' \subseteq {"SD1", "SD2", "MMC", "BLOCK"}
           /\ Alike(slot, card', Stat', CardType')
  <2>1. TypeOK'
    BY <1>0, <1>2 DEF InitStep, DInv, TypeOK, Labels
  <2>2. CallInv' /\ LockedInv' /\ BuffInv' /\ MediaInv' /\ SyncSettles'
    BY <1>0, <1>2 DEF CallInv, LockedInv, BuffInv, MediaInv, SyncSettles, InitLabels,
                      ReadLabels, WriteLabels
  <2>3. OldInv'
    BY <1>0, <1>2 DEF OldInv, OldLabels
  <2>4. KindInv'
    BY <1>0, <1>2 DEF InitStep, KindInv, Sane, Alike
  <2> QED
    BY <2>1, <2>2, <2>3, <2>4 DEF DInv
<1> QED
  BY <1>1, <1>2 DEF InitStep

LEMMA InitializeKeeps == DInv /\ Initialize => DInv'
<1> SUFFICES ASSUME DInv, Initialize PROVE DInv'
  OBVIOUS
<1>1. InitStep
  BY GoIdleStep, IfCondStep, OldTypeStep, LeaveIdleStep, CapacityStep, BlockLenStep
     DEF Initialize
<1>2. pc \in InitLabels
  BY DEF Initialize, GoIdle, IfCond, OldType, LeaveIdle, OpCond, Capacity, BlockLen, InitLabels
<1>3. call.op = "init"
  BY <1>2 DEF DInv, CallInv
<1> QED
  BY <1>1, <1>3, InitKeeps
------------------------------------------------------------------------------
(* A call begins and ends, and the card is exchanged.                      *)
LEMMA InitDisk == Init => DInv
<1> SUFFICES ASSUME Init PROVE DInv
  OBVIOUS
<1>1. /\ slot \in Cards \union {NoCard} /\ card \in CardState
      /\ card.mode = "native" /\ card.data = "none"
  BY FreshType, DiskAssumption DEF Init
<1>2. media \in [Cards -> [Sector -> Content]]
  BY DEF Init, Content
<1>3. buff \in Seq(Content)
  BY DEF Init
<1>4. TypeOK
  BY <1>1, <1>2, <1>3 DEF Init, TypeOK, Labels
<1>5. /\ pc = "idle" /\ pc \notin InitLabels \union ReadLabels \union WriteLabels \union OldLabels
  BY DEF Init, InitLabels, ReadLabels, WriteLabels, OldLabels
<1>6. CallInv /\ OldInv /\ LockedInv /\ BuffInv /\ MediaInv /\ SyncSettles
  BY <1>5 DEF CallInv, OldInv, LockedInv, BuffInv, MediaInv, SyncSettles
<1>7. KindInv
  BY <1>1 DEF KindInv
<1> QED
  BY <1>4, <1>6, <1>7 DEF DInv

LEMMA CallKeeps == DInv /\ Call => DInv'
<1> SUFFICES ASSUME DInv, Call PROVE DInv'
  OBVIOUS
<1>0. /\ pc = "idle" /\ pc' = "status" /\ calls' = calls + 1 /\ call' \in Asked
      /\ UNCHANGED <<slot, card, media, Stat, CardType, ty, tmr, left, buff, res>>
  BY DEF Call, Goto, wires, driver
<1>1. call' \in [op : {"status", "init", "sync", "read", "write"}, sector : Nat, count : Nat]
  <2> DEFINE Q == [op : {"status", "init", "sync", "read", "write"}, sector : Nat, count : Nat]
  <2>1. [op : {"status", "init", "sync"}, sector : {0}, count : {0}] \subseteq Q
    OBVIOUS
  <2>2. [op : {"read", "write"}, sector : Sectors, count : Counts] \subseteq Q
    BY DiskAssumption
  <2>3. Asked \subseteq Q
    BY <2>1, <2>2 DEF Asked
  <2> QED
    BY <1>0, <2>3
<1>2. TypeOK'
  BY <1>0, <1>1 DEF DInv, TypeOK, Labels
<1>3. CallInv' /\ OldInv' /\ LockedInv' /\ BuffInv' /\ MediaInv' /\ SyncSettles'
  BY <1>0 DEF CallInv, OldInv, LockedInv, BuffInv, MediaInv, SyncSettles, InitLabels,
              ReadLabels, WriteLabels, OldLabels
<1>4. KindInv'
  BY <1>0 DEF DInv, KindInv, InitLabels
<1> QED
  BY <1>2, <1>3, <1>4 DEF DInv

LEMMA BackKeeps == DInv /\ Back => DInv'
<1> SUFFICES ASSUME DInv, Back PROVE DInv'
  OBVIOUS
<1>0. /\ pc = "return" /\ pc' = "idle" /\ tmr' = 0 /\ left' = 0 /\ buff' = <<>> /\ ty' = {}
      /\ UNCHANGED <<slot, card, media, Stat, CardType, res, call, calls>>
  BY DEF Back, Goto, wires
<1>1. buff' \in Seq(Content)
  BY <1>0
<1>2. TypeOK'
  BY <1>0, <1>1 DEF DInv, TypeOK, Labels
<1>3. CallInv' /\ OldInv' /\ LockedInv' /\ BuffInv' /\ MediaInv' /\ SyncSettles'
  BY <1>0 DEF CallInv, OldInv, LockedInv, BuffInv, MediaInv, SyncSettles, InitLabels,
              ReadLabels, WriteLabels, OldLabels
<1>4. KindInv'
  BY <1>0 DEF DInv, KindInv, InitLabels
<1> QED
  BY <1>2, <1>3, <1>4 DEF DInv

(* Another card is not ready and sends nothing: what was read or written   *)
(* was of the one before.                                                  *)
LEMMA SwapKeeps == DInv /\ Swap => DInv'
<1> SUFFICES ASSUME DInv, Swap PROVE DInv'
  OBVIOUS
<1>0. /\ slot' \in Cards \union {NoCard} /\ card' = Fresh
      /\ UNCHANGED <<media, Stat, CardType, ty, tmr, left, buff, res, pc, call, calls>>
  BY DEF Swap, driver
<1>1. /\ card' \in CardState /\ card'.mode = "native" /\ card'.data = "none"
      /\ card'.busy = FALSE
  BY <1>0, FreshType DEF Fresh
<1>2. TypeOK'
  BY <1>0, <1>1 DEF DInv, TypeOK
<1>3. CallInv' /\ OldInv' /\ LockedInv' /\ KindInv' /\ SyncSettles'
  BY <1>0, <1>1 DEF DInv, CallInv, OldInv, LockedInv, KindInv, SyncSettles
<1>4. BuffInv'
  BY <1>0, <1>1 DEF DInv, BuffInv, Brought, ReadFrom, Done, Sending
<1>5. MediaInv'
  BY <1>0, <1>1 DEF DInv, MediaInv, Stored, WrittenTo, Done, Storing
<1> QED
  BY <1>2, <1>3, <1>4, <1>5 DEF DInv
------------------------------------------------------------------------------
(* disk_status and what the caller makes of it.                            *)
LEMMA CheckedCases ==
  ASSUME DInv, NEW s, Checked(s)
  PROVE  \/ pc' = "return" /\ res' \in {"status", "NOTRDY", "WRPRT", "PARERR"}
         \/ pc' = "CMD0" /\ call.op = "init" /\ res' = res
         \/ /\ pc' = call.op /\ call.op \in {"read", "write", "sync"} /\ res' = res
            /\ "NOINIT" \notin s
            /\ call.op = "write" => "PROTECT" \notin s
            /\ call.op \in {"read", "write"} => call.count > 0
<1>1. call.op \in {"status", "init", "sync", "read", "write"} /\ call.count \in Nat
  BY DEF DInv, TypeOK
<1>2. CASE call.op = "status"
  BY <1>2 DEF Checked, Return
<1>3. CASE call.op = "init"
  BY <1>3 DEF Checked, Return, Goto
<1>4. CASE call.op \in {"sync", "read", "write"}
  BY <1>1, <1>4 DEF Checked, Return, Goto
<1> QED
  BY <1>1, <1>2, <1>3, <1>4

LEMMA CheckedKeeps ==
  ASSUME DInv, Checked(Stat'), Stat' \subseteq {"NODISK", "NOINIT", "PROTECT"},
         "NOINIT" \in Stat => "NOINIT" \in Stat', pc \notin InitLabels,
         card.mode = "ready" /\ slot \in Locked => "PROTECT" \in Stat',
         card' \in CardState, Sane(card'), card'.mode = card.mode,
         UNCHANGED <<slot, media, CardType, ty, tmr, left, buff, call, calls>>
  PROVE  DInv'
<1>0. KindInv'
  BY DEF DInv, KindInv, Sane
<1>1. CASE pc' = "return" /\ res' \in {"status", "NOTRDY", "WRPRT", "PARERR"}
  <2>1. TypeOK'
    BY <1>1 DEF DInv, TypeOK, Labels
  <2>2. CallInv' /\ OldInv' /\ LockedInv' /\ BuffInv' /\ MediaInv' /\ SyncSettles'
    BY <1>1 DEF CallInv, OldInv, LockedInv, BuffInv, MediaInv, SyncSettles, InitLabels,
                ReadLabels, WriteLabels, OldLabels
  <2> QED
    BY <1>0, <2>1, <2>2 DEF DInv
<1>2. CASE pc' = "CMD0" /\ call.op = "init" /\ res' = res
  <2>1. TypeOK'
    BY <1>2 DEF DInv, TypeOK, Labels, InitLabels
  <2>2. CallInv' /\ OldInv' /\ LockedInv' /\ BuffInv' /\ MediaInv' /\ SyncSettles'
    BY <1>2 DEF CallInv, OldInv, LockedInv, BuffInv, MediaInv, SyncSettles, InitLabels,
                ReadLabels, WriteLabels, OldLabels
  <2> QED
    BY <1>0, <2>1, <2>2 DEF DInv
<1>3. CASE /\ pc' = call.op /\ call.op \in {"read", "write", "sync"} /\ res' = res
           /\ "NOINIT" \notin Stat'
           /\ call.op = "write" => "PROTECT" \notin Stat'
           /\ call.op \in {"read", "write"} => call.count > 0
  <2>1. TypeOK'
    BY <1>3 DEF DInv, TypeOK, Labels, ReadLabels, WriteLabels
  <2>2. CallInv' /\ OldInv' /\ BuffInv' /\ MediaInv' /\ SyncSettles'
    BY <1>3 DEF CallInv, OldInv, BuffInv, MediaInv, SyncSettles, InitLabels,
                ReadLabels, WriteLabels, OldLabels
  <2>3. LockedInv'
    BY <1>3 DEF LockedInv, WriteLabels
  <2> QED
    BY <1>0, <2>1, <2>2, <2>3 DEF DInv
<1> QED
  BY <1>1, <1>2, <1>3, CheckedCases

LEMMA DiskStatusKeeps == DInv /\ DiskStatus => DInv'
<1> SUFFICES ASSUME DInv, DiskStatus PROVE DInv'
  OBVIOUS
<1>0. /\ pc = "status" /\ pc \notin InitLabels
      /\ UNCHANGED <<slot, card, media, CardType, ty, tmr, left, buff, call, calls>>
  BY DEF DiskStatus, Quiet, Same, wires, InitLabels
<1>1. card \in CardState /\ Sane(card) /\ Stat \subseteq {"NODISK", "NOINIT", "PROTECT"}
  BY DEF DInv, TypeOK, KindInv, Sane
<1>2. CASE slot = NoCard /\ Stat' = {"NODISK", "NOINIT"} /\ Checked(Stat')
  <2>1. slot \notin Locked
    BY <1>2, DiskAssumption
  <2> QED
    BY <1>0, <1>1, <1>2, <2>1, CheckedKeeps
<1>3. CASE slot # NoCard /\ Stat' = Inserted
  <2>1. /\ Stat' \subseteq {"NODISK", "NOINIT", "PROTECT"}
        /\ "NOINIT" \in Stat => "NOINIT" \in Stat'
        /\ slot \in Locked => "PROTECT" \in Stat'
    BY <1>1, <1>3 DEF Inserted, Switches
  <2>2. CASE Checked(Stat')
    BY <1>0, <1>1, <2>1, <2>2, CheckedKeeps
  <2>3. CASE "NOINIT" \notin Stat' /\ pc' = "probe" /\ res' = res
    <3>1. TypeOK'
      BY <1>0, <2>1, <2>3 DEF DInv, TypeOK, Labels
    <3>2. CallInv' /\ OldInv' /\ BuffInv' /\ MediaInv' /\ SyncSettles'
      BY <2>3 DEF CallInv, OldInv, BuffInv, MediaInv, SyncSettles, InitLabels,
                  ReadLabels, WriteLabels, OldLabels
    <3>3. LockedInv'
      BY <1>0, <2>1, <2>3 DEF LockedInv, WriteLabels
    <3>4. KindInv'
      BY <1>0, <2>1 DEF DInv, KindInv
    <3> QED
      BY <3>1, <3>2, <3>3, <3>4 DEF DInv
  <2> QED
    BY <1>3, <2>2, <2>3 DEF DiskStatus, Goto
<1> QED
  BY <1>2, <1>3 DEF DiskStatus

LEMMA ProbeKeeps == DInv /\ Probe => DInv'
<1> SUFFICES ASSUME DInv, Probe PROVE DInv'
  OBVIOUS
<1>1. PICK out \in SendCmd("CMD58", 0) : Take(out) /\ Kept(out.r) /\ Checked(Stat')
  BY DEF Probe, Command
<1>2. /\ pc = "probe" /\ pc \notin InitLabels
      /\ UNCHANGED <<slot, media, CardType, ty, tmr, left, buff, call, calls>>
  BY DEF Probe, Command, Quiet, Same, InitLabels
<1>3. card' \in CardState /\ Sane(card') /\ card'.mode = card.mode
  BY <1>1, TakenMode, Literals, Zenon
<1>4. /\ Stat' \subseteq {"NODISK", "NOINIT", "PROTECT"} /\ Stat \subseteq Stat'
  BY <1>1 DEF Kept, DInv, TypeOK
<1>5. card.mode = "ready" /\ slot \in Locked => "PROTECT" \in Stat'
  BY <1>2, <1>4 DEF DInv, LockedInv
<1> QED
  BY <1>1, <1>2, <1>3, <1>4, <1>5, CheckedKeeps
------------------------------------------------------------------------------
(* wait_ready: the card stays what it is, and is not busy if it got done.  *)
LEMMA Waited ==
  ASSUME TypeOK, NEW w \in WaitReady
  PROVE  /\ w.ok \in BOOLEAN /\ w.card \in CardState /\ w.card.mode = card.mode
         /\ w.card.data = card.data /\ w.card.at = card.at
         /\ w.ok => w.card.busy = FALSE
<1> DEFINE v == [card EXCEPT !.busy = FALSE]
<1>1. /\ card \in CardState /\ v \in CardState
      /\ v.mode = card.mode /\ v.data = card.data /\ v.at = card.at /\ v.busy = FALSE
  BY DEF TypeOK, CardState
<1>2. w = [ok |-> TRUE, card |-> v] \/ w = [ok |-> FALSE, card |-> card]
  BY DEF WaitReady
<1> HIDE DEF v
<1>3. CASE w = [ok |-> TRUE, card |-> v]
  <2>1. w.card = v /\ w.ok = TRUE
    BY <1>3
  <2> QED
    BY <1>1, <2>1
<1>4. CASE w = [ok |-> FALSE, card |-> card]
  <2>1. w.card = card /\ w.ok = FALSE
    BY <1>4
  <2> QED
    BY <1>1, <2>1
<1> QED
  BY <1>2, <1>3, <1>4

(* The parts that are about the card only, after a step of a read, a write *)
(* or CTRL_SYNC: the mode is what it was.                                  *)
LEMMA SameMode ==
  ASSUME DInv, pc \notin InitLabels, pc' \notin InitLabels, pc' # "probe",
         pc' \in WriteLabels => pc \in WriteLabels,
         card' \in CardState, Sane(card'), card'.mode = card.mode,
         UNCHANGED <<slot, Stat, CardType>>
  PROVE  KindInv' /\ LockedInv' /\ OldInv'
<1>1. KindInv'
  BY DEF DInv, KindInv, Sane
<1>2. LockedInv'
  BY DEF DInv, LockedInv
<1>3. OldInv'
  BY DEF OldInv, OldLabels, InitLabels
<1> QED
  BY <1>1, <1>2, <1>3

LEMMA AnnounceKeeps == DInv /\ Announce => DInv'
<1> SUFFICES ASSUME DInv, Announce PROVE DInv'
  OBVIOUS
<1>0. UNCHANGED <<slot, media, Stat, CardType, tmr, ty, left, buff, call, calls>>
  BY DEF Announce, Command, Steady
<1>1. /\ pc \in {"write", "CMD23"} /\ pc' \in {"write_cmd", "CMD23"} /\ res' = res
      /\ card' \in CardState /\ Sane(card') /\ card'.mode = card.mode
  <2>1. call.count \in Int
    BY DEF DInv, TypeOK
  <2>2. ASSUME NEW cmd \in Plain, NEW arg \in Int, NEW out \in SendCmd(cmd, arg), Take(out)
        PROVE  card' \in CardState /\ Sane(card') /\ card'.mode = card.mode
    BY <2>2, TakenMode
  <2>3. ASSUME NEW out \in SendCmd("CMD55", 0), Take(out),
               Goto(IF out.r > 1 THEN "write_cmd" ELSE "CMD23"), res' = res
        PROVE  /\ pc' \in {"write_cmd", "CMD23"} /\ res' = res
               /\ card' \in CardState /\ Sane(card') /\ card'.mode = card.mode
    <3>1. card' \in CardState /\ Sane(card') /\ card'.mode = card.mode
      BY <2>2, <2>3, Literals, Zenon
    <3> QED
      BY <2>3, <3>1 DEF Goto
  <2>4. ASSUME NEW out \in SendCmd("CMD23", call.count), Take(out), Goto("write_cmd"), res' = res
        PROVE  /\ pc' \in {"write_cmd", "CMD23"} /\ res' = res
               /\ card' \in CardState /\ Sane(card') /\ card'.mode = card.mode
    <3>1. card' \in CardState /\ Sane(card') /\ card'.mode = card.mode
      BY <2>1, <2>2, <2>4, Literals, Zenon
    <3> QED
      BY <2>4, <3>1 DEF Goto
  <2> QED
    BY <2>3, <2>4 DEF Announce, Command
<1>2. TypeOK'
  BY <1>0, <1>1 DEF DInv, TypeOK, Labels, WriteLabels
<1>3. CallInv'
  BY <1>0, <1>1 DEF DInv, CallInv, InitLabels, ReadLabels, WriteLabels
<1>4. BuffInv' /\ MediaInv' /\ SyncSettles'
  BY <1>1 DEF BuffInv, MediaInv, SyncSettles
<1>5. KindInv' /\ LockedInv' /\ OldInv'
  BY <1>0, <1>1, SameMode DEF InitLabels, WriteLabels
<1> QED
  BY <1>2, <1>3, <1>4, <1>5 DEF DInv

LEMMA StopReadingKeeps == DInv /\ StopReading => DInv'
<1> SUFFICES ASSUME DInv, StopReading PROVE DInv'
  OBVIOUS
<1>1. PICK out \in SendCmd("CMD12", 0) : Take(out) /\ Result
  BY DEF StopReading, Command
<1>2. card' \in CardState /\ Sane(card') /\ card'.mode = card.mode
  BY <1>1, TakenMode, Literals, Zenon
<1>3. /\ pc = "CMD12" /\ pc' = "return" /\ res' = IF left = 0 THEN "OK" ELSE "ERROR"
      /\ UNCHANGED <<slot, media, Stat, CardType, tmr, ty, left, buff, call, calls>>
  BY <1>1 DEF StopReading, Command, Steady, Result, Return
<1>4. TypeOK'
  BY <1>2, <1>3 DEF DInv, TypeOK, Labels
<1>5. CallInv' /\ MediaInv' /\ SyncSettles'
  BY <1>3 DEF DInv, CallInv, MediaInv, SyncSettles, InitLabels, ReadLabels, WriteLabels
<1>6. BuffInv'
  BY <1>3 DEF DInv, BuffInv, Brought, ReadFrom, Done
<1>7. KindInv' /\ LockedInv' /\ OldInv'
  BY <1>2, <1>3, SameMode DEF InitLabels, WriteLabels
<1> QED
  BY <1>4, <1>5, <1>6, <1>7 DEF DInv

LEMMA SyncCardKeeps == DInv /\ SyncCard => DInv'
<1> SUFFICES ASSUME DInv, SyncCard PROVE DInv'
  OBVIOUS
<1>1. PICK w \in WaitReady : card' = w.card /\ Return(IF w.ok THEN "OK" ELSE "ERROR")
  BY DEF SyncCard
<1>2. /\ card' \in CardState /\ Sane(card') /\ card'.mode = card.mode
      /\ res' = "OK" => card'.busy = FALSE
  BY <1>1, Waited DEF DInv, KindInv, Sane, Return
<1>3. /\ pc = "sync" /\ pc' = "return" /\ res' \in {"OK", "ERROR"}
      /\ UNCHANGED <<slot, media, Stat, CardType, tmr, ty, left, buff, call, calls>>
  BY <1>1 DEF SyncCard, Steady, Return
<1>4. TypeOK'
  BY <1>2, <1>3 DEF DInv, TypeOK, Labels
<1>5. call.op = "sync"
  BY <1>3 DEF DInv, CallInv
<1>6. CallInv' /\ MediaInv' /\ BuffInv' /\ SyncSettles'
  BY <1>2, <1>3, <1>5 DEF DInv, CallInv, BuffInv, MediaInv, SyncSettles, InitLabels,
                          ReadLabels, WriteLabels
<1>7. KindInv' /\ LockedInv' /\ OldInv'
  BY <1>2, <1>3, SameMode DEF InitLabels, WriteLabels
<1> QED
  BY <1>4, <1>6, <1>7 DEF DInv
------------------------------------------------------------------------------
(* How much of a call is done, when the call is the same afterwards.       *)
LEMMA DoneNext ==
  ASSUME DInv, call' = call, left' \in Nat
  PROVE  \E n, k, s \in Nat :
           /\ n = call.count /\ n = call'.count /\ s = call.sector /\ s = call'.sector
           /\ k = left' /\ Done' = n - k /\ Done = n - left
<1>1. call.count \in Nat /\ call.sector \in Nat
  BY DEF DInv, TypeOK
<1>2. PICK n \in Nat, k \in Nat, s \in Nat : n = call.count /\ s = call.sector /\ k = left'
  BY <1>1
<1>3. call'.count = n /\ call'.sector = s
  BY <1>2
<1>4. Done' = call'.count - left' /\ Done = call.count - left
  BY DEF Done
<1>5. Done' = n - k /\ Done = n - left
  BY <1>2, <1>3, <1>4
<1> QED
  BY <1>2, <1>3, <1>5

(* A command for the sector asked for: the card that takes it is at that   *)
(* sector, because the driver knows how it counts.                         *)
LEMMA SectorTaken ==
  ASSUME DInv, pc \in {"read", "write", "write_cmd"}, NEW cmd \in ForSector,
         NEW out \in SendCmd(cmd, AddressOf(call.sector)), Take(out)
  PROVE  /\ card' \in CardState /\ Sane(card') /\ card'.mode = card.mode
         /\ out.r = 0 => /\ slot \in Cards /\ card.mode = "ready"
                         /\ card'.data = DataOf(cmd) /\ card'.at = call.sector
<1>0. call.sector \in Nat /\ BL \in Nat
  BY DiskAssumption DEF DInv, TypeOK
<1>1. AddressOf(call.sector) \in Int
  BY <1>0, AddressOfType
<1>2. cmd \in Plain
  BY Literals
<1>3. card' \in CardState /\ Sane(card') /\ card'.mode = card.mode
  BY <1>1, <1>2, TakenMode
<1>4. /\ card' = out.card /\ (out.r \in {0, 1} => slot \in Cards)
      /\ Concluded(slot, card, cmd, AddressOf(call.sector), out)
  BY <1>1, Taken
<1>5. ASSUME out.r = 0
      PROVE  /\ slot \in Cards /\ card.mode = "ready"
             /\ card'.data = DataOf(cmd) /\ card'.at = call.sector
  <2>1. /\ slot \in Cards /\ card.mode = "ready" /\ card'.data = DataOf(cmd)
        /\ card'.at = Address(slot, AddressOf(call.sector))
        /\ Address(slot, AddressOf(call.sector)) # -1
    BY <1>4, <1>5 DEF Concluded
  <2>2. pc \notin InitLabels /\ "NOINIT" \notin Stat /\ slot # NoCard
    BY <2>1, DiskAssumption DEF DInv, CallInv, InitLabels, ReadLabels, WriteLabels
  <2>3. "BLOCK" \in CardType <=> Kind[slot] = "SD2B"
    BY <2>1, <2>2 DEF DInv, KindInv
  <2>4. Address(slot, AddressOf(call.sector)) = call.sector
    BY <1>0, <2>1, <2>3, AddressRight
  <2> QED
    BY <2>1, <2>4
<1> QED
  BY <1>3, <1>5

LEMMA ReadCmdKeeps == DInv /\ ReadCmd => DInv'
<1> SUFFICES ASSUME DInv, ReadCmd PROVE DInv'
  OBVIOUS
<1> DEFINE cmd == IF Single THEN "CMD17" ELSE "CMD18"
<1>1. PICK out \in SendCmd(cmd, AddressOf(call.sector)) :
        Take(out) /\ IF out.r = 0 THEN Goto("data_in") /\ UNCHANGED res ELSE Return("ERROR")
  BY DEF ReadCmd, Command
<1>2. cmd \in ForSector /\ DataOf(cmd) \in {"single", "stream"}
  BY DEF ForSector, DataOf
<1>3. /\ pc = "read" /\ left' = call.count /\ buff' = <<>>
      /\ UNCHANGED <<slot, media, Stat, CardType, tmr, ty, call, calls>>
  BY DEF ReadCmd, Command, Steady
<1>4. /\ card' \in CardState /\ Sane(card') /\ card'.mode = card.mode
      /\ out.r = 0 => /\ slot \in Cards /\ card'.data = DataOf(cmd) /\ card'.at = call.sector
  BY <1>1, <1>2, <1>3, SectorTaken
<1>5. call.op = "read" /\ call.count > 0 /\ call.count \in Nat /\ call.sector \in Nat
  BY <1>3 DEF DInv, CallInv, TypeOK, ReadLabels
<1>6. buff' \in Seq(Content) /\ left' \in Nat
  BY <1>3, <1>5
<1> HIDE DEF cmd
<1>7. CASE out.r = 0
  <2>1. pc' = "data_in" /\ res' = res
    BY <1>1, <1>7 DEF Goto
  <2>2. TypeOK'
    BY <1>3, <1>4, <1>6, <2>1 DEF DInv, TypeOK, Labels, ReadLabels
  <2>3. CallInv'
    BY <1>3, <2>1 DEF DInv, CallInv, InitLabels, ReadLabels, WriteLabels
  <2>4. KindInv' /\ LockedInv' /\ OldInv'
    BY <1>3, <1>4, <2>1, SameMode DEF InitLabels, WriteLabels
  <2>5. MediaInv' /\ SyncSettles'
    BY <2>1 DEF MediaInv, SyncSettles
  <2>6. Done' = 0
    BY <1>3, <1>5 DEF Done
  <2>7. ReadFrom(slot)'
    BY <1>3, <2>6 DEF ReadFrom
  <2>8. Brought'
    BY <1>3, <1>4, <1>5, <1>7, <2>6 DEF Brought, ReadFrom
  <2>9. BuffInv'
    <3>1. left' > 0
      BY <1>3, <1>5
    <3>2. card'.at = call'.sector + Done'
      BY <1>3, <1>4, <1>5, <1>7, <2>6
    <3> QED
      BY <1>3, <2>1, <2>7, <2>8, <3>1, <3>2, Zenon DEF BuffInv
  <2> QED
    BY <2>2, <2>3, <2>4, <2>5, <2>9 DEF DInv
<1>8. CASE out.r # 0
  <2>1. pc' = "return" /\ res' = "ERROR"
    BY <1>1, <1>8 DEF Return
  <2>2. TypeOK'
    BY <1>3, <1>4, <1>6, <2>1 DEF DInv, TypeOK, Labels
  <2>3. CallInv' /\ BuffInv' /\ MediaInv' /\ SyncSettles'
    BY <2>1 DEF CallInv, BuffInv, MediaInv, SyncSettles, InitLabels, ReadLabels, WriteLabels
  <2>4. KindInv' /\ LockedInv' /\ OldInv'
    BY <1>3, <1>4, <2>1, SameMode DEF InitLabels, WriteLabels
  <2> QED
    BY <2>2, <2>3, <2>4 DEF DInv
<1> QED
  BY <1>7, <1>8

LEMMA WriteCmdKeeps == DInv /\ WriteCmd => DInv'
<1> SUFFICES ASSUME DInv, WriteCmd PROVE DInv'
  OBVIOUS
<1> DEFINE cmd == IF Single THEN "CMD24" ELSE "CMD25"
<1>1. PICK out \in SendCmd(cmd, AddressOf(call.sector)) :
        Take(out) /\ IF out.r = 0 THEN Goto("data_out") /\ UNCHANGED res ELSE Return("ERROR")
  BY DEF WriteCmd, Command
<1>2. cmd \in ForSector /\ DataOf(cmd) \in {"packet", "packets"}
  BY DEF ForSector, DataOf
<1>3. /\ pc \in {"write", "write_cmd"} /\ left' = call.count
      /\ UNCHANGED <<slot, media, Stat, CardType, tmr, ty, buff, call, calls>>
  BY DEF WriteCmd, Command, Steady
<1>4. /\ card' \in CardState /\ Sane(card') /\ card'.mode = card.mode
      /\ out.r = 0 => /\ slot \in Cards /\ card'.data = DataOf(cmd) /\ card'.at = call.sector
  BY <1>1, <1>2, <1>3, SectorTaken
<1>5. call.op = "write" /\ call.count > 0 /\ call.count \in Nat /\ call.sector \in Nat
  BY <1>3 DEF DInv, CallInv, TypeOK, WriteLabels
<1>6. left' \in Nat
  BY <1>3, <1>5
<1> HIDE DEF cmd
<1>7. CASE out.r = 0
  <2>1. pc' = "data_out" /\ res' = res
    BY <1>1, <1>7 DEF Goto
  <2>2. TypeOK'
    BY <1>3, <1>4, <1>6, <2>1 DEF DInv, TypeOK, Labels, WriteLabels
  <2>3. CallInv'
    BY <1>3, <2>1 DEF DInv, CallInv, InitLabels, ReadLabels, WriteLabels
  <2>4. KindInv' /\ LockedInv' /\ OldInv'
    BY <1>3, <1>4, <2>1, SameMode DEF InitLabels, WriteLabels
  <2>5. BuffInv' /\ SyncSettles'
    BY <2>1 DEF BuffInv, SyncSettles
  <2>6. PICK n \in Nat, k \in Nat, b \in Nat :
          /\ n = call.count /\ n = call'.count /\ b = call.sector /\ b = call'.sector
          /\ k = left' /\ Done' = n - k
    BY <1>3, <1>6, DoneNext
  <2>7. n = k /\ n > 0 /\ Done' = 0
    BY <1>3, <1>5, <2>6
  <2>8. \A c : WrittenTo(c)'
    BY <2>7 DEF WrittenTo
  <2>9. MediaInv'
    <3>1. left' > 0 /\ left' <= call'.count
      BY <2>6, <2>7
    <3>2. card'.at = call'.sector + Done'
      BY <1>4, <1>7, <2>6, <2>7
    <3>3. Stored'
      BY <1>3, <1>4, <1>7, <2>8, <3>1, Zenon DEF Stored
    <3> QED
      BY <2>1, <2>8, <3>1, <3>2, <3>3, Zenon DEF MediaInv
  <2> QED
    BY <2>2, <2>3, <2>4, <2>5, <2>9 DEF DInv
<1>8. CASE out.r # 0
  <2>1. pc' = "return" /\ res' = "ERROR"
    BY <1>1, <1>8 DEF Return
  <2>2. TypeOK'
    BY <1>3, <1>4, <1>6, <2>1 DEF DInv, TypeOK, Labels
  <2>3. CallInv' /\ BuffInv' /\ MediaInv' /\ SyncSettles'
    BY <2>1 DEF CallInv, BuffInv, MediaInv, SyncSettles, InitLabels, ReadLabels, WriteLabels
  <2>4. KindInv' /\ LockedInv' /\ OldInv'
    BY <1>3, <1>4, <2>1, SameMode DEF InitLabels, WriteLabels
  <2> QED
    BY <2>2, <2>3, <2>4 DEF DInv
<1> QED
  BY <1>7, <1>8
------------------------------------------------------------------------------
(* rcvr_datablock brings the next sector of the card in the socket.        *)
Moved(k, e, n) == [k EXCEPT !.data = e, !.at = n]
LEMMA CardMoved ==
  ASSUME NEW k \in CardState, NEW n \in Int,
         NEW e \in {"none", "single", "stream", "packet", "packets"}
  PROVE  /\ Moved(k, e, n) \in CardState /\ Moved(k, e, n).mode = k.mode
         /\ Moved(k, e, n).at = n /\ Moved(k, e, n).data = e
<1>1. /\ [k EXCEPT !.data = e] \in CardState
      /\ [k EXCEPT !.data = e].mode = k.mode /\ [k EXCEPT !.data = e].data = e
  BY DEF CardState
<1>2. PICK u \in CardState : u = [k EXCEPT !.data = e] /\ u.mode = k.mode /\ u.data = e
  BY <1>1
<1>3. /\ [u EXCEPT !.at = n] \in CardState
      /\ [u EXCEPT !.at = n].mode = u.mode /\ [u EXCEPT !.at = n].at = n
      /\ [u EXCEPT !.at = n].data = u.data
  BY DEF CardState
<1> QED
  BY <1>2, <1>3 DEF Moved

LEMMA ReceivedNext ==
  ASSUME DInv, pc = "data_in", Received, left' = left - 1, UNCHANGED <<slot, media, call>>
  PROVE  /\ card' \in CardState /\ Sane(card') /\ card'.mode = card.mode
         /\ buff' \in Seq(Content) /\ slot \in Cards
         /\ left' \in Nat /\ left' <= call.count
         /\ ReadFrom(slot)' /\ card'.at = call'.sector + Done'
<1>1. /\ slot \in Cards /\ card.data \in {"single", "stream"} /\ card.at \in Sector
      /\ media[slot][card.at] \in Content
  BY DEF Received, Outgoing, DInv, TypeOK
<1>2. slot # NoCard
  BY <1>1, DiskAssumption
<1>3. left \in Nat /\ left > 0 /\ left <= call.count /\ buff \in Seq(Content) /\ card \in CardState
  BY DEF DInv, BuffInv, Brought, TypeOK
<1>4. ReadFrom(slot) /\ card.at = call.sector + Done
  BY <1>1, <1>2 DEF DInv, BuffInv, Sending
<1>5. left' \in Nat
  BY <1>3
<1>6. PICK n \in Nat, k \in Nat, b \in Nat :
        /\ n = call.count /\ n = call'.count /\ b = call.sector /\ b = call'.sector
        /\ k = left' /\ Done' = n - k /\ Done = n - left
  BY <1>5, DoneNext
<1>7. PICK d \in Nat : Done = d /\ Done' = d + 1 /\ k <= n
  BY <1>3, <1>6
<1>8. card.at = b + d
  BY <1>4, <1>6, <1>7
<1>9. PICK datum \in Content : datum = media[slot][card.at]
  BY <1>1
<1>10. buff' = Append(buff, datum)
  BY <1>9 DEF Received
<1>11. buff = [i \in 1..d |-> media[slot][b + i - 1]]
  BY <1>4, <1>6, <1>7 DEF ReadFrom
<1>12. Len(buff) = d /\ \A i \in 1..d : buff[i] = media[slot][b + i - 1]
  BY <1>3, <1>11
<1>13. /\ buff' \in Seq(Content) /\ Len(buff') = d + 1 /\ buff'[d + 1] = datum
       /\ \A i \in 1..d : buff'[i] = buff[i]
  BY <1>3, <1>10, <1>12
<1>14. \A i \in 1..d + 1 : buff'[i] = media[slot][b + i - 1]
  <2> SUFFICES ASSUME NEW i \in 1..d + 1 PROVE buff'[i] = media[slot][b + i - 1]
    OBVIOUS
  <2>1. CASE i = d + 1
    <3>1. b + i - 1 = card.at
      BY <1>8, <2>1
    <3> QED
      BY <1>9, <1>13, <2>1, <3>1
  <2>2. CASE i # d + 1
    <3>1. i \in 1..d
      BY <2>2
    <3> QED
      BY <1>12, <1>13, <3>1
  <2> QED
    BY <2>1, <2>2
<1>15. buff' = [i \in 1..d + 1 |-> media[slot][b + i - 1]]
  BY <1>13, <1>14
<1>16. ReadFrom(slot)'
  BY <1>6, <1>7, <1>15 DEF ReadFrom
<1>17. /\ card' \in CardState /\ card'.mode = card.mode /\ card'.at = card.at + 1
       /\ card'.data \in {card.data, "none"}
  <2>1. PICK e \in {"none", "single", "stream", "packet", "packets"} :
          e = (IF card.data = "single" THEN "none" ELSE card.data)
    BY <1>3 DEF CardState
  <2>2. PICK p \in Int : p = card.at + 1
    BY <1>3 DEF CardState
  <2>3. card' = Moved(card, e, p)
    BY <2>1, <2>2 DEF Received, Moved
  <2>4. card' \in CardState /\ card'.mode = card.mode /\ card'.at = p /\ card'.data = e
    <3>1. card \in CardState
      BY <1>3
    <3>2. /\ Moved(card, e, p) \in CardState /\ Moved(card, e, p).mode = card.mode
          /\ Moved(card, e, p).at = p /\ Moved(card, e, p).data = e
      BY <3>1, CardMoved, Zenon
    <3> QED
      BY <2>3, <3>2
  <2> QED
    BY <2>1, <2>2, <2>4
<1>18. card'.at = call'.sector + Done'
  BY <1>6, <1>7, <1>8, <1>17
<1>19. Sane(card')
  BY <1>17 DEF Sane, DInv, KindInv
<1>20. left' <= call.count
  BY <1>6, <1>7
<1> QED
  BY <1>1, <1>5, <1>13, <1>16, <1>17, <1>18, <1>19, <1>20

LEMMA ReadBlockKeeps == DInv /\ ReadBlock => DInv'
<1> SUFFICES ASSUME DInv, ReadBlock PROVE DInv'
  OBVIOUS
<1>0. /\ pc = "data_in" /\ pc' \in {"data_in", "CMD12", "return"}
      /\ UNCHANGED <<slot, media, Stat, CardType, tmr, ty, call, calls>>
  BY DEF ReadBlock, Steady, Return, Goto
<1>1. /\ call.op = "read" /\ call.count > 0 /\ "NOINIT" \notin Stat
      /\ left \in Nat /\ left > 0 /\ Brought
  BY <1>0 DEF DInv, CallInv, BuffInv, TypeOK, ReadLabels
<1>2. /\ res' \in {res, "OK", "ERROR"}
      /\ pc' = "data_in" => left' < left /\ left' > 0
      /\ pc' = "return" /\ res' = "OK" => left' = 0
  BY DEF ReadBlock, Return, Goto, More
<1>3. CallInv' /\ MediaInv' /\ SyncSettles'
  BY <1>0, <1>1 DEF CallInv, MediaInv, SyncSettles, InitLabels, ReadLabels, WriteLabels
<1>4. CASE Received /\ left' = left - 1
  <2>1. /\ card' \in CardState /\ Sane(card') /\ card'.mode = card.mode
        /\ buff' \in Seq(Content) /\ slot \in Cards
        /\ left' \in Nat /\ left' <= call.count
        /\ ReadFrom(slot)' /\ card'.at = call'.sector + Done'
    BY <1>0, <1>4, ReceivedNext
  <2>2. TypeOK'
    BY <1>0, <1>2, <2>1 DEF DInv, TypeOK, Labels, ReadLabels
  <2>3. KindInv' /\ LockedInv' /\ OldInv'
    BY <1>0, <2>1, SameMode DEF InitLabels, WriteLabels
  <2>4. Brought'
    BY <1>0, <2>1, Zenon DEF Brought
  <2>5. BuffInv'
    BY <1>0, <1>2, <2>1, <2>4, Zenon DEF BuffInv
  <2> QED
    BY <1>3, <2>2, <2>3, <2>5 DEF DInv
<1>5. CASE NotReceived /\ left' = left
  <2>1. UNCHANGED <<buff, card>> /\ card \in CardState /\ Sane(card)
    BY <1>5 DEF NotReceived, DInv, TypeOK, KindInv, Sane
  <2>2. TypeOK'
    BY <1>0, <1>2, <1>5, <2>1 DEF DInv, TypeOK, Labels, ReadLabels
  <2>3. KindInv' /\ LockedInv' /\ OldInv'
    BY <1>0, <2>1, SameMode DEF InitLabels, WriteLabels
  <2>4. pc' # "data_in" /\ left' # 0
    BY <1>1, <1>2, <1>5
  <2>5. Brought'
    BY <1>0, <1>1, <1>5, <2>1 DEF Brought, ReadFrom, Done
  <2>6. BuffInv'
    BY <1>2, <2>4, <2>5 DEF BuffInv
  <2> QED
    BY <1>3, <2>2, <2>3, <2>6 DEF DInv
<1> QED
  BY <1>4, <1>5 DEF ReadBlock
------------------------------------------------------------------------------
(* xmit_datablock and the card: it has taken the packet, or there is at    *)
(* most an end to the transfer.                                            *)
Ended(k, e) == [k EXCEPT !.data = e]
Stores(k, e, n) == [k EXCEPT !.at = n, !.busy = TRUE, !.data = e]
LEMMA CardEnded ==
  ASSUME NEW k \in CardState, NEW e \in {"none", "single", "stream", "packet", "packets"}
  PROVE  Ended(k, e) \in CardState /\ Ended(k, e).mode = k.mode /\ Ended(k, e).data = e
BY DEF Ended, CardState

LEMMA CardStores ==
  ASSUME NEW k \in CardState, NEW n \in Int,
         NEW e \in {"none", "single", "stream", "packet", "packets"}
  PROVE  /\ Stores(k, e, n) \in CardState /\ Stores(k, e, n).mode = k.mode
         /\ Stores(k, e, n).data = e /\ Stores(k, e, n).at = n
<1>1. PICK u \in CardState : u = [k EXCEPT !.at = n] /\ u.mode = k.mode /\ u.at = n
  <2>1. [k EXCEPT !.at = n] \in CardState
    BY DEF CardState
  <2>2. [k EXCEPT !.at = n].mode = k.mode /\ [k EXCEPT !.at = n].at = n
    BY DEF CardState
  <2> QED
    BY <2>1, <2>2
<1>2. PICK v \in CardState : v = [u EXCEPT !.busy = TRUE] /\ v.mode = u.mode /\ v.at = u.at
  <2>1. [u EXCEPT !.busy = TRUE] \in CardState
    BY DEF CardState
  <2>2. [u EXCEPT !.busy = TRUE].mode = u.mode /\ [u EXCEPT !.busy = TRUE].at = u.at
    BY DEF CardState
  <2> QED
    BY <2>1, <2>2
<1>3. /\ Ended(v, e) \in CardState /\ Ended(v, e).mode = v.mode
      /\ Ended(v, e).data = e /\ Ended(v, e).at = v.at
  BY DEF Ended, CardState
<1>4. Stores(k, e, n) = Ended(v, e)
  BY <1>1, <1>2 DEF Stores, Ended
<1> QED
  BY <1>1, <1>2, <1>3, <1>4

LEMMA Xmitted ==
  ASSUME DInv, NEW out \in XmitBlock, Take(out)
  PROVE  /\ card' \in CardState /\ Sane(card') /\ card'.mode = card.mode /\ out.r \in BOOLEAN
         /\ out.r => /\ slot \in Cards /\ card.data \in {"packet", "packets"}
                     /\ card.at \in Sector /\ card'.at = card.at + 1
<1>1. PICK w \in WaitReady :
        \/ /\ Accepts(w)
           /\ out = Out(TRUE, [w.card EXCEPT !.at = @ + 1, !.busy = TRUE,
                                !.data = IF @ = "packet" THEN "none" ELSE @], FALSE)
        \/ out = Out(FALSE, [w.card EXCEPT !.data = IF w.ok /\ @ = "packet" THEN "none" ELSE @],
                     Accepts(w))
  BY DEF XmitBlock
<1>2. /\ w.card \in CardState /\ w.card.mode = card.mode
      /\ w.card.data = card.data /\ w.card.at = card.at /\ Sane(card)
  BY Waited DEF DInv, KindInv, Sane
<1>3. PICK k \in CardState : k = w.card
  BY <1>2
<1>4. card' = out.card
  BY DEF Take
<1>5. CASE /\ Accepts(w)
           /\ out = Out(TRUE, [w.card EXCEPT !.at = @ + 1, !.busy = TRUE,
                                !.data = IF @ = "packet" THEN "none" ELSE @], FALSE)
  <2>1. PICK e \in {"none", "single", "stream", "packet", "packets"} :
          e = (IF k.data = "packet" THEN "none" ELSE k.data)
    BY DEF CardState
  <2>2. PICK n \in Int : n = k.at + 1
    BY DEF CardState
  <2>3. out = Out(TRUE, Stores(k, e, n), FALSE)
    BY <1>3, <1>5, <2>1, <2>2 DEF Stores
  <2>4. out.r = TRUE /\ card' = Stores(k, e, n)
    BY <1>4, <2>3 DEF Out
  <2>5. /\ Stores(k, e, n) \in CardState /\ Stores(k, e, n).mode = k.mode
        /\ Stores(k, e, n).data = e /\ Stores(k, e, n).at = n
    BY CardStores, Zenon
  <2>6. card' \in CardState /\ card'.mode = k.mode /\ card'.data = e /\ card'.at = n
    BY <2>4, <2>5
  <2>7. slot # NoCard /\ w.card.data \in {"packet", "packets"} /\ w.card.at \in Sector
    BY <1>5 DEF Accepts, Incoming
  <2>8. slot \in Cards
    BY <2>7 DEF DInv, TypeOK
  <2>9. Sane(card')
    BY <1>2, <1>3, <2>6, <2>7 DEF Sane
  <2>10. card'.at = card.at + 1
    BY <1>2, <1>3, <2>2, <2>6
  <2> QED
    BY <1>2, <1>3, <2>4, <2>6, <2>7, <2>8, <2>9, <2>10
<1>6. CASE out = Out(FALSE, [w.card EXCEPT !.data = IF w.ok /\ @ = "packet" THEN "none" ELSE @],
                     Accepts(w))
  <2>1. PICK e \in {"none", "single", "stream", "packet", "packets"} :
          e = (IF w.ok /\ k.data = "packet" THEN "none" ELSE k.data)
    BY DEF CardState
  <2>2. out = Out(FALSE, Ended(k, e), Accepts(w))
    BY <1>3, <1>6, <2>1 DEF Ended
  <2>3. out.r = FALSE /\ card' = Ended(k, e)
    BY <1>4, <2>2 DEF Out
  <2>4. Ended(k, e) \in CardState /\ Ended(k, e).mode = k.mode /\ Ended(k, e).data = e
    BY CardEnded, Zenon
  <2>5. e = k.data \/ e = "none"
    BY <2>1
  <2>6. Sane(card')
    BY <1>2, <1>3, <2>3, <2>4, <2>5 DEF Sane
  <2> QED
    BY <1>2, <1>3, <2>3, <2>4, <2>6
<1> QED
  BY <1>1, <1>5, <1>6

(* A packet the card took is the next sector of the call, stored where the *)
(* call wants it, on a card that is not write-protected.                   *)
LEMMA Placed ==
  ASSUME DInv, pc = "data_out", slot \in Cards,
         card.data \in {"packet", "packets"}, card.at \in Sector
  PROVE  /\ WrittenTo(slot) /\ card.at = call.sector + Done /\ slot \notin Locked
         /\ Done \in 0..call.count - 1 /\ NextDatum = Datum(calls, Done)
<1>1. slot # NoCard
  BY DiskAssumption
<1>2. WrittenTo(slot) /\ card.at = call.sector + Done
  BY <1>1 DEF DInv, MediaInv, Storing
<1>3. card.mode = "ready"
  BY DEF DInv, KindInv
<1>4. slot \notin Locked
  BY <1>3 DEF DInv, LockedInv, WriteLabels
<1>5. left \in Nat /\ left > 0 /\ left <= call.count /\ call.count \in Nat
  BY DEF DInv, MediaInv, Stored, TypeOK
<1>6. Done \in 0..call.count - 1
  BY <1>5 DEF Done
<1> QED
  BY <1>2, <1>4, <1>6 DEF NextDatum, Done

LEMMA WrittenNext ==
  ASSUME DInv, pc = "data_out", slot \in Cards,
         card.data \in {"packet", "packets"}, card.at \in Sector, card'.at = card.at + 1,
         Store(TRUE, NextDatum), left' = left - 1, UNCHANGED <<slot, call, calls>>
  PROVE  /\ media' \in [Cards -> [Sector -> Content]]
         /\ left' \in Nat /\ left' <= call.count
         /\ WrittenTo(slot)' /\ card'.at = call'.sector + Done'
<1>1. /\ WrittenTo(slot) /\ card.at = call.sector + Done
      /\ Done \in 0..call.count - 1 /\ NextDatum = Datum(calls, Done)
  BY Placed
<1>2. left \in Nat /\ left > 0 /\ left <= call.count /\ calls \in Nat
      /\ media \in [Cards -> [Sector -> Content]]
  BY DEF DInv, MediaInv, Stored, TypeOK
<1>3. left' \in Nat
  BY <1>2
<1>4. PICK n \in Nat, k \in Nat, b \in Nat :
        /\ n = call.count /\ n = call'.count /\ b = call.sector /\ b = call'.sector
        /\ k = left' /\ Done' = n - k /\ Done = n - left
  BY <1>3, DoneNext
<1>5. PICK d \in Nat : Done = d /\ Done' = d + 1 /\ k <= n
  BY <1>2, <1>4
<1>6. card.at = b + d
  BY <1>1, <1>4, <1>5
<1>7. PICK z \in Nat : z = calls /\ z = calls'
  BY <1>2
<1>8. PICK datum \in Content : datum = Datum(z, d)
  BY DEF Datum, Content
<1>9. PICK p \in Sector : p = card.at
  OBVIOUS
<1>10. media' = [media EXCEPT ![slot][p] = datum]
  BY <1>1, <1>5, <1>7, <1>8, <1>9 DEF Store
<1>11. /\ media' \in [Cards -> [Sector -> Content]]
       /\ media'[slot][p] = datum
       /\ \A s \in Sector : s # p => media'[slot][s] = media[slot][s]
  BY <1>2, <1>10
<1>12. \A i \in 0..d - 1 : media[slot][b + i] = Datum(z, i)
  BY <1>1, <1>4, <1>5, <1>7 DEF WrittenTo
<1>13. \A i \in 0..d : media'[slot][b + i] = Datum(z, i)
  <2> SUFFICES ASSUME NEW i \in 0..d PROVE media'[slot][b + i] = Datum(z, i)
    OBVIOUS
  <2>1. CASE i = d
    <3>1. b + i = p
      BY <1>6, <1>9, <2>1
    <3> QED
      BY <1>8, <1>11, <2>1, <3>1
  <2>2. CASE i # d
    <3>1. i \in 0..d - 1
      BY <2>2
    <3>2. b + i # p
      BY <1>6, <1>9, <3>1
    <3>3. p \in 0..NSectors - 1 /\ p = b + d /\ NSectors \in Nat
      BY <1>6, <1>9, DiskAssumption DEF Sector
    <3>4. b + i \in Sector
      BY <3>1, <3>3 DEF Sector
    <3> QED
      BY <1>11, <1>12, <3>1, <3>2, <3>4
  <2> QED
    BY <2>1, <2>2
<1>14. WrittenTo(slot)'
  <2>1. Done' - 1 = d
    BY <1>5
  <2> QED
    BY <1>4, <1>7, <1>13, <2>1 DEF WrittenTo
<1>15. card'.at = call'.sector + Done'
  BY <1>4, <1>5, <1>6
<1>16. left' <= call.count
  BY <1>4, <1>5
<1> QED
  BY <1>3, <1>11, <1>14, <1>15, <1>16

LEMMA WriteBlockKeeps == DInv /\ WriteBlock => DInv'
<1> SUFFICES ASSUME DInv, WriteBlock PROVE DInv'
  OBVIOUS
<1>1. PICK out \in XmitBlock :
        /\ Take(out) /\ Store(out.r, NextDatum) /\ Sent(out.r)
        /\ IF Single THEN Return(IF out.r THEN "OK" ELSE "ERROR")
           ELSE /\ Goto(IF out.r /\ More(left') THEN "data_out" ELSE "stop")
                /\ UNCHANGED res
  BY DEF WriteBlock
<1>2. /\ card' \in CardState /\ Sane(card') /\ card'.mode = card.mode /\ out.r \in BOOLEAN
      /\ out.r => /\ slot \in Cards /\ card.data \in {"packet", "packets"}
                  /\ card.at \in Sector /\ card'.at = card.at + 1
  BY <1>1, Xmitted
<1>3. /\ pc = "data_out" /\ UNCHANGED <<slot, Stat, CardType, tmr, ty, buff, call, calls>>
  BY DEF WriteBlock, Steady
<1>4. /\ pc' \in {"data_out", "stop", "return"} /\ res' \in {res, "OK", "ERROR"}
      /\ pc' = "data_out" => out.r /\ left' > 0
  BY <1>1 DEF Return, Goto, More
<1>5. /\ call.op = "write" /\ call.count > 0 /\ "NOINIT" \notin Stat
      /\ left \in Nat /\ left > 0 /\ Stored
  BY <1>3 DEF DInv, CallInv, MediaInv, TypeOK, WriteLabels
<1>6. CallInv' /\ BuffInv' /\ SyncSettles'
  BY <1>3, <1>4, <1>5 DEF CallInv, BuffInv, SyncSettles, InitLabels, ReadLabels, WriteLabels
<1>7. KindInv' /\ LockedInv' /\ OldInv'
  BY <1>2, <1>3, <1>4, SameMode DEF InitLabels, WriteLabels
<1>8. CASE out.r = TRUE
  <2>1. left' = left - 1 /\ Store(TRUE, NextDatum)
    BY <1>1, <1>8 DEF Sent
  <2>2. /\ media' \in [Cards -> [Sector -> Content]]
        /\ left' \in Nat /\ left' <= call.count
        /\ WrittenTo(slot)' /\ card'.at = call'.sector + Done'
    BY <1>2, <1>3, <1>8, <2>1, WrittenNext
  <2>3. TypeOK'
    BY <1>2, <1>3, <1>4, <2>2 DEF DInv, TypeOK, Labels, WriteLabels
  <2>4. Stored'
    BY <1>2, <1>3, <1>8, <2>2, Zenon DEF Stored
  <2>5. MediaInv'
    BY <1>3, <1>4, <2>2, <2>4, Zenon DEF MediaInv
  <2> QED
    BY <1>6, <1>7, <2>3, <2>5 DEF DInv
<1>9. CASE out.r = FALSE
  <2>1. media' = media /\ left' = left
    BY <1>1, <1>9 DEF Store, Sent
  <2>2. TypeOK'
    BY <1>2, <1>3, <1>4, <2>1 DEF DInv, TypeOK, Labels, WriteLabels
  <2>3. Stored'
    BY <1>3, <1>5, <2>1 DEF Stored, WrittenTo, Done
  <2>4. MediaInv'
    BY <1>4, <1>9, <2>3 DEF MediaInv
  <2> QED
    BY <1>6, <1>7, <2>2, <2>4 DEF DInv
<1> QED
  BY <1>2, <1>8, <1>9

LEMMA StopWritingKeeps == DInv /\ StopWriting => DInv'
<1> SUFFICES ASSUME DInv, StopWriting PROVE DInv'
  OBVIOUS
<1>1. PICK out \in XmitStop :
        Take(out) /\ Return(IF out.r /\ left = 0 THEN "OK" ELSE "ERROR")
  BY DEF StopWriting
<1>2. card' \in CardState /\ Sane(card') /\ card'.mode = card.mode
  <2>1. PICK w \in WaitReady :
          out = Out(w.ok, IF w.ok /\ Incoming(w)
                          THEN [w.card EXCEPT !.data = "none", !.busy = TRUE]
                          ELSE w.card, FALSE)
    BY DEF XmitStop
  <2>2. /\ w.card \in CardState /\ w.card.mode = card.mode /\ w.card.data = card.data
        /\ Sane(card)
    BY Waited DEF DInv, KindInv, Sane
  <2>3. PICK k \in CardState : k = w.card
    BY <2>2
  <2>4. PICK v \in CardState :
          v = [k EXCEPT !.data = "none", !.busy = TRUE] /\ v.mode = k.mode /\ v.data = "none"
    <3>1. PICK u \in CardState : u = [k EXCEPT !.data = "none"] /\ u.mode = k.mode /\ u.data = "none"
      BY CardEnded DEF Ended
    <3>2. /\ [u EXCEPT !.busy = TRUE] \in CardState
          /\ [u EXCEPT !.busy = TRUE].mode = u.mode
          /\ [u EXCEPT !.busy = TRUE].data = u.data
      <4>1. [u EXCEPT !.busy = TRUE] \in CardState
        BY DEF CardState
      <4>2. [u EXCEPT !.busy = TRUE].mode = u.mode /\ [u EXCEPT !.busy = TRUE].data = u.data
        BY DEF CardState
      <4> QED
        BY <4>1, <4>2
    <3> QED
      BY <3>1, <3>2
  <2>5. card' \in {k, v}
    <3>1. out.card \in {k, v}
      BY <2>1, <2>3, <2>4 DEF Out
    <3> QED
      BY <1>1, <3>1 DEF Take
  <2> QED
    BY <2>2, <2>3, <2>4, <2>5 DEF Sane
<1>3. /\ pc = "stop" /\ pc' = "return" /\ res' \in {"OK", "ERROR"}
      /\ UNCHANGED <<slot, media, Stat, CardType, tmr, ty, left, buff, call, calls>>
  BY <1>1 DEF StopWriting, Steady, Return
<1>4. TypeOK'
  BY <1>2, <1>3 DEF DInv, TypeOK, Labels
<1>5. call.op = "write"
  BY <1>3 DEF DInv, CallInv, WriteLabels
<1>6. CallInv' /\ MediaInv' /\ BuffInv' /\ SyncSettles'
  BY <1>3, <1>5 DEF CallInv, BuffInv, MediaInv, SyncSettles, InitLabels, ReadLabels, WriteLabels
<1>7. KindInv' /\ LockedInv' /\ OldInv'
  BY <1>2, <1>3, SameMode DEF InitLabels, WriteLabels
<1> QED
  BY <1>4, <1>6, <1>7 DEF DInv
------------------------------------------------------------------------------
LEMMA NextKeeps == DInv /\ [Next]_vars => DInv'
<1> SUFFICES ASSUME DInv, [Next]_vars PROVE DInv'
  OBVIOUS
<1>1. CASE Call
  BY <1>1, CallKeeps
<1>2. CASE Back
  BY <1>2, BackKeeps
<1>3. CASE DiskStatus
  BY <1>3, DiskStatusKeeps
<1>4. CASE Probe
  BY <1>4, ProbeKeeps
<1>5. CASE Initialize
  BY <1>5, InitializeKeeps
<1>6. CASE DiskRead
  BY <1>6, ReadCmdKeeps, ReadBlockKeeps, StopReadingKeeps DEF DiskRead
<1>7. CASE DiskWrite
  BY <1>7, AnnounceKeeps, WriteCmdKeeps, WriteBlockKeeps, StopWritingKeeps DEF DiskWrite
<1>8. CASE SyncCard
  BY <1>8, SyncCardKeeps
<1>9. CASE Swap
  BY <1>9, SwapKeeps
<1>10. CASE UNCHANGED vars
  BY <1>10 DEF vars, wires, driver, bounds, DInv, TypeOK, CallInv, OldInv, KindInv, LockedInv,
               BuffInv, Brought, ReadFrom, Done, Sending, MediaInv, Stored, WrittenTo,
               Storing, SyncSettles
<1> QED
  BY <1>1, <1>2, <1>3, <1>4, <1>5, <1>6, <1>7, <1>8, <1>9, <1>10 DEF Next

(* The driver's picture of the card, and what has been read and written so *)
(* far, are right at every step of every call (mmcbb.c:193-600).           *)
THEOREM DiskInvariance == Spec => []DInv
<1>1. Init => DInv
  BY InitDisk
<1>2. DInv /\ [Next]_vars => DInv'
  BY NextKeeps
<1> QED
  BY <1>1, <1>2, PTL DEF Spec

(* Every variable of mmcbb.c, of the cards and of the calls has its type.  *)
THEOREM TypeCorrect == Spec => []TypeOK
<1>1. DInv => TypeOK
  BY DEF DInv
<1> QED
  BY <1>1, DiskInvariance, PTL

(* disk_read: what is reported as read is what one card holds in the       *)
(* sectors asked for (mmcbb.c:476-508).                                    *)
THEOREM ReadCorrect == Spec => []ReadRight
<1>1. DInv => ReadRight
  <2> SUFFICES ASSUME DInv, pc = "return", call.op = "read", res = "OK"
               PROVE  \E c \in Cards : buff = [i \in 1..call.count |-> media[c][call.sector + i - 1]]
    BY DEF ReadRight
  <2>1. left = 0 /\ \E c \in Cards : ReadFrom(c)
    BY DEF DInv, BuffInv, Brought
  <2>2. Done = call.count
    BY <2>1 DEF Done, DInv, TypeOK
  <2> QED
    BY <2>1, <2>2 DEF ReadFrom
<1> QED
  BY <1>1, DiskInvariance, PTL

(* CTRL_SYNC that succeeds leaves no card busy (mmcbb.c:575-580).          *)
THEOREM SyncCorrect == Spec => []SyncSettles
<1>1. DInv => SyncSettles
  BY DEF DInv
<1> QED
  BY <1>1, DiskInvariance, PTL
------------------------------------------------------------------------------
(* Only a packet that the card in the socket took changes what is stored.  *)
LEMMA OthersKeepMedia ==
  ASSUME DInv, [Next]_vars, ~WriteBlock
  PROVE  media' = media
<1>1. CASE Initialize
  <2>1. InitStep
    BY <1>1, GoIdleStep, IfCondStep, OldTypeStep, LeaveIdleStep, CapacityStep, BlockLenStep
    DEF Initialize
  <2> QED
    BY <2>1 DEF InitStep
<1>2. CASE Call \/ Back \/ DiskStatus \/ Probe \/ SyncCard \/ Swap
  BY <1>2 DEF Call, Back, DiskStatus, Probe, SyncCard, Swap, Command
<1>3. CASE DiskRead
  BY <1>3 DEF DiskRead, ReadCmd, ReadBlock, StopReading, Command
<1>4. CASE Announce \/ WriteCmd \/ StopWriting
  BY <1>4 DEF Announce, WriteCmd, StopWriting, Command
<1>5. CASE UNCHANGED vars
  BY <1>5 DEF vars
<1> QED
  BY <1>1, <1>2, <1>3, <1>4, <1>5 DEF Next, DiskWrite

(* A sector that changes is the next one of the write under way.           *)
Changes ==
  \A c \in Cards, s \in Sector : media'[c][s] # media[c][s] =>
    /\ call.op = "write" /\ s - call.sector \in 0..call.count - 1
    /\ media'[c][s] = Datum(calls, s - call.sector) /\ c \notin Locked

LEMMA BlockChanges == DInv /\ WriteBlock => Changes
<1> SUFFICES ASSUME DInv, WriteBlock, NEW c \in Cards, NEW s \in Sector,
                    media'[c][s] # media[c][s]
             PROVE  /\ call.op = "write" /\ s - call.sector \in 0..call.count - 1
                    /\ media'[c][s] = Datum(calls, s - call.sector) /\ c \notin Locked
  BY DEF Changes
<1>1. PICK out \in XmitBlock : Take(out) /\ Store(out.r, NextDatum)
  BY DEF WriteBlock
<1>2. pc = "data_out" /\ call.op = "write"
  BY DEF WriteBlock, DInv, CallInv, WriteLabels
<1>3. out.r = TRUE
  BY <1>1, Xmitted DEF Store
<1>4. slot \in Cards /\ card.data \in {"packet", "packets"} /\ card.at \in Sector
  BY <1>1, <1>3, Xmitted
<1>5. /\ card.at = call.sector + Done /\ slot \notin Locked
      /\ Done \in 0..call.count - 1 /\ NextDatum = Datum(calls, Done)
  BY <1>2, <1>4, Placed
<1>6. media' = [media EXCEPT ![slot][card.at] = Datum(calls, Done)]
  BY <1>1, <1>3, <1>5 DEF Store
<1>7. media \in [Cards -> [Sector -> Content]] /\ call.sector \in Nat /\ call.count \in Nat
  BY DEF DInv, TypeOK
<1>8. c = slot /\ s = card.at /\ media'[c][s] = Datum(calls, Done)
  BY <1>4, <1>6, <1>7
<1>9. s - call.sector = Done
  <2>1. PICK d \in Int, b \in Int : d = Done /\ b = call.sector
    BY <1>5, <1>7
  <2>2. s = b + d
    BY <1>5, <1>8, <2>1
  <2> QED
    BY <2>1, <2>2
<1> QED
  BY <1>2, <1>5, <1>8, <1>9

(* A call that ends with OK: of a write, only the two steps that may.      *)
LEMMA OkEnds ==
  ASSUME DInv, [Next]_vars, pc # "return", pc' = "return", call.op = "write", res' = "OK"
  PROVE  /\ left' = 0 /\ call' = call /\ calls' = calls
         /\ (WriteBlock /\ Single) \/ (StopWriting /\ media' = media /\ left' = left)
<1>1. CASE Initialize
  <2>1. pc \in InitLabels
    BY <1>1 DEF Initialize, GoIdle, IfCond, OldType, LeaveIdle, OpCond, Capacity, BlockLen,
                InitLabels
  <2> QED
    BY <2>1 DEF DInv, CallInv
<1>2. CASE Call \/ Back \/ Swap \/ UNCHANGED vars
  BY <1>2 DEF Call, Back, Swap, vars, Goto
<1>3. CASE DiskStatus
  <2>1. ~Checked(Stat')
    BY CheckedCases
  <2> QED
    BY <1>3, <2>1 DEF DiskStatus, Goto
<1>4. CASE Probe
  <2>1. ~Checked(Stat')
    BY CheckedCases
  <2> QED
    BY <1>4, <2>1 DEF Probe, Command
<1>5. CASE DiskRead \/ SyncCard
  BY <1>5 DEF DiskRead, ReadCmd, ReadBlock, StopReading, SyncCard, DInv, CallInv, ReadLabels
<1>6. CASE Announce
  BY <1>6 DEF Announce, Command, Goto
<1>7. CASE WriteCmd
  BY <1>7 DEF WriteCmd, Command, Goto, Return
<1>8. CASE WriteBlock
  <2>1. PICK out \in XmitBlock :
          /\ Sent(out.r)
          /\ IF Single THEN Return(IF out.r THEN "OK" ELSE "ERROR")
             ELSE Goto(IF out.r /\ More(left') THEN "data_out" ELSE "stop")
    BY <1>8 DEF WriteBlock
  <2>2. Single /\ out.r
    BY <2>1 DEF Return, Goto
  <2>3. left' = left - 1
    BY <2>1, <2>2 DEF Sent
  <2>4. pc = "data_out" /\ left \in Nat /\ left > 0 /\ left <= call.count /\ call.count = 1
    BY <1>8, <2>2 DEF WriteBlock, DInv, MediaInv, Stored, TypeOK, Single
  <2>5. left' = 0
    BY <2>3, <2>4
  <2> QED
    BY <1>8, <2>2, <2>5 DEF WriteBlock
<1>9. CASE StopWriting
  BY <1>9 DEF StopWriting, Return
<1> QED
  BY <1>1, <1>2, <1>3, <1>4, <1>5, <1>6, <1>7, <1>8, <1>9 DEF Next, DiskWrite

LEMMA OkStored ==
  ASSUME DInv, [Next]_vars, pc # "return", pc' = "return", call.op = "write", res' = "OK"
  PROVE  \E c \in Cards : Written(c)
<1>1. /\ left' = 0 /\ call' = call /\ calls' = calls
      /\ (WriteBlock /\ Single) \/ (StopWriting /\ media' = media /\ left' = left)
  BY OkEnds
<1>2. DInv'
  BY NextKeeps
<1>3. Done' = call.count
  BY <1>1 DEF Done, DInv, TypeOK
<1>4. \E c \in Cards : WrittenTo(c)'
  <2>1. CASE WriteBlock /\ Single
    <3>1. PICK out \in XmitBlock :
            /\ Take(out) /\ Store(out.r, NextDatum) /\ Sent(out.r)
            /\ Return(IF out.r THEN "OK" ELSE "ERROR")
      BY <2>1 DEF WriteBlock
    <3>2. out.r = TRUE
      BY <3>1, Xmitted DEF Return
    <3>3. /\ slot \in Cards /\ card.data \in {"packet", "packets"} /\ card.at \in Sector
          /\ card'.at = card.at + 1
      BY <3>1, <3>2, Xmitted
    <3>4. /\ pc = "data_out" /\ left' = left - 1 /\ Store(TRUE, NextDatum)
          /\ UNCHANGED <<slot, call, calls>>
      BY <2>1, <3>1, <3>2 DEF WriteBlock, Sent
    <3>5. WrittenTo(slot)'
      BY <3>3, <3>4, WrittenNext
    <3>6. slot' = slot
      BY <3>4
    <3> QED
      BY <3>3, <3>5, <3>6 DEF WrittenTo
  <2>2. CASE StopWriting /\ media' = media /\ left' = left
    <3>1. \E c \in Cards : WrittenTo(c)
      BY <2>2 DEF StopWriting, DInv, MediaInv, Stored
    <3> QED
      BY <1>1, <2>2, <3>1 DEF WrittenTo, Done
  <2> QED
    BY <1>1, <2>1, <2>2
<1> QED
  BY <1>1, <1>3, <1>4 DEF WrittenTo, Written

(* disk_write: no sector changes but to what this write has for it, and    *)
(* none of a card that is write-protected; what is reported as written is  *)
(* on one card, all of it (mmcbb.c:527-566).                               *)
THEOREM WriteCorrect == Spec => WriteRight
<1>1. DInv /\ [Next]_vars =>
        [/\ Changes
         /\ pc # "return" /\ pc' = "return" /\ call.op = "write" /\ res' = "OK" =>
              \E c \in Cards : Written(c)]_vars
  <2> SUFFICES ASSUME DInv, [Next]_vars
               PROVE  /\ Changes
                      /\ pc # "return" /\ pc' = "return" /\ call.op = "write" /\ res' = "OK" =>
                           \E c \in Cards : Written(c)
    OBVIOUS
  <2>1. Changes
    BY OthersKeepMedia, BlockChanges DEF Changes
  <2> QED
    BY <2>1, OkStored
<1> QED
  BY <1>1, DiskInvariance, PTL DEF Spec, WriteRight, Changes
=============================================================================
