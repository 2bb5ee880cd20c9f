---------------------------- MODULE VgaScanProofs ----------------------------
(* A row whose words came in time is shown as it is in the framebuffer,     *)
(* for every size of the picture and every number of bus clock edges       *)
(* between two edges of the video clock.                                   *)
EXTENDS VgaScanInv, TLAPS

(* The numbers of pixels and lines that the proofs need.                   *)
LEMMA Geometry ==
  /\ HSync \in Nat /\ HStart \in Nat /\ HEnd \in Nat /\ HTotal \in Nat
  /\ VStart \in Nat /\ VActive \in Nat /\ VTotal \in Nat
  /\ 1 <= HSync /\ 2 <= HStart /\ HSync <= HStart
  /\ HStart + 2 <= HEnd /\ HEnd + 4 <= HTotal
  /\ 1 <= VStart /\ 1 <= VActive /\ VStart + VActive < VTotal
  /\ BURSTCYCLE \in Nat /\ 1 <= BURSTCYCLE /\ HActive = 2 * BURSTCYCLE
  /\ HEnd = HStart + HActive /\ HActive \in Nat /\ Offset \in Nat
<1>1. HActive \in Nat /\ HActive % 2 = 0 /\ HActive > 0
  BY VgaAssumption
<1>2. BURSTCYCLE \in Nat /\ 1 <= BURSTCYCLE /\ HActive = 2 * BURSTCYCLE
  BY <1>1 DEF BURSTCYCLE
<1>3. /\ HTotal \in Nat /\ HSync \in Nat /\ HBackp \in Nat
      /\ VTotal \in Nat /\ VSync \in Nat /\ VBackp \in Nat /\ VActive \in Nat /\ Offset \in Nat
      /\ HTotal >= HSync + HBackp + HActive + 4
      /\ HSync >= 1 /\ HSync + HBackp >= 2
      /\ VTotal > VSync + VBackp + VActive /\ VSync + VBackp >= 1 /\ VActive > 0
  BY VgaAssumption
<1> QED
  BY <1>1, <1>2, <1>3 DEF HStart, HEnd, VStart

LEMMA ModuloSmall ==
  ASSUME NEW n \in Nat, NEW m \in Nat, n < m
  PROVE  n % m = n
OBVIOUS

LEMMA ModuloSelf ==
  ASSUME NEW m \in Nat, m > 0
  PROVE  m % m = 0
OBVIOUS
------------------------------------------------------------------------------
(* What an edge of the video clock does to the counters.                   *)
LEMMA Tick ==
  ASSUME TypeOK, Count
  PROVE  /\ hcount' \in 0..HTotal - 1 /\ vcount' \in 0..VTotal - 1
         /\ hcount = HTotal - 1 => hcount' = 0
         /\ hcount # HTotal - 1 => hcount' = hcount + 1
         /\ hcount # HEnd - 1 => vcount' = vcount
         /\ hcount = HEnd - 1 /\ vcount # VTotal - 1 => vcount' = vcount + 1
         /\ hcount = HEnd - 1 /\ vcount = VTotal - 1 => vcount' = 0
<1>1. PICK h \in Nat, v \in Nat : h = hcount /\ v = vcount /\ h < HTotal /\ v < VTotal
  BY Geometry DEF TypeOK
<1>2. HTotal \in Nat /\ HTotal > 0 /\ VTotal \in Nat /\ VTotal > 0
  BY Geometry
<1>3. /\ h # HTotal - 1 => hcount' = h + 1
      /\ h = HTotal - 1 => hcount' = 0
  <2>1. hcount' = (h + 1) % HTotal
    BY <1>1 DEF Count
  <2>2. CASE h # HTotal - 1
    <3>1. h + 1 \in Nat /\ h + 1 < HTotal
      BY <1>1, <1>2, <2>2
    <3>2. (h + 1) % HTotal = h + 1
      BY <1>2, <3>1, ModuloSmall
    <3> QED
      BY <2>1, <2>2, <3>2
  <2>3. CASE h = HTotal - 1
    <3>1. h + 1 = HTotal
      BY <1>2, <2>3
    <3>2. HTotal % HTotal = 0
      BY <1>2, ModuloSelf
    <3> QED
      BY <2>1, <2>3, <3>1, <3>2
  <2> QED
    BY <2>2, <2>3
<1>4. /\ hcount # HEnd - 1 => vcount' = v
      /\ hcount = HEnd - 1 /\ v # VTotal - 1 => vcount' = v + 1
      /\ hcount = HEnd - 1 /\ v = VTotal - 1 => vcount' = 0
  <2>1. vcount' = IF hcount = HEnd - 1 THEN (v + 1) % VTotal ELSE v
    BY <1>1 DEF Count
  <2>2. v # VTotal - 1 => (v + 1) % VTotal = v + 1
    <3> SUFFICES ASSUME v # VTotal - 1 PROVE (v + 1) % VTotal = v + 1
      OBVIOUS
    <3>1. v + 1 \in Nat /\ v + 1 < VTotal
      BY <1>1, <1>2
    <3> QED
      BY <1>2, <3>1, ModuloSmall
  <2>3. v = VTotal - 1 => (v + 1) % VTotal = 0
    <3> SUFFICES ASSUME v = VTotal - 1 PROVE (v + 1) % VTotal = 0
      OBVIOUS
    <3>1. v + 1 = VTotal
      BY <1>2
    <3>2. VTotal % VTotal = 0
      BY <1>2, ModuloSelf
    <3> QED
      BY <3>1, <3>2
  <2> QED
    BY <2>1, <2>2, <2>3
<1> QED
  BY <1>1, <1>2, <1>3, <1>4

(* The clocks at an edge of the video clock: the bus clock has had an edge *)
(* since the last one.                                                     *)
LEMMA VideoClocks ==
  ASSUME TypeOK, VideoEdge
  PROVE  /\ edges' \in [bus : Nat, peri : Nat]
         /\ EdgesHad \in Nat /\ EdgesHad >= hcount + 1 /\ EdgesHad' = hcount'
<1>1. edges.bus \in Nat /\ edges.bus >= 1
  BY VgaAssumption DEF VideoEdge
<1>2. edges' = [bus |-> 0, peri |-> 0]
  BY DEF VideoEdge
<1>3. PICK z \in Nat : z = 0 /\ z = edges'.bus
  BY <1>2
<1>4. PICK e \in Nat, h \in Nat : e = edges.bus /\ h = hcount
  BY <1>1, Geometry DEF TypeOK
<1>5. EdgesHad = h + e /\ e >= 1
  BY <1>1, <1>4 DEF EdgesHad
<1>6. PICK g \in Nat : g = hcount'
  BY Tick, Geometry DEF VideoEdge
<1>7. EdgesHad' = g + z
  BY <1>3, <1>6 DEF EdgesHad
<1>8. edges' \in [bus : Nat, peri : Nat]
  BY <1>2
<1> QED
  BY <1>3, <1>4, <1>5, <1>6, <1>7, <1>8

(* Registers in a row keep their type.                                     *)
LEMMA NextChain ==
  ASSUME NEW c \in Chain, NEW in \in BOOLEAN
  PROVE  /\ Next3(c, in) \in Chain
         /\ Next3(c, in)[1] = in /\ Next3(c, in)[2] = c[1] /\ Next3(c, in)[3] = c[2]
BY DEF Chain, Next3

LEMMA ReadoutType ==
  ASSUME VInv, VideoEdge
  PROVE  /\ de' \in Chain /\ valid' \in Chain /\ overrun' \in BOOLEAN
         /\ pixeladdr' \in Nat /\ ramaddr' \in Nat /\ pixelcount' \in Nat
         /\ q' \in Int \X Int /\ rout' \in Int \X Int
<1>1. /\ de \in Chain /\ valid \in Chain /\ {hblank, vblank, scanena, overrun} \subseteq BOOLEAN
      /\ pixeladdr \in Nat /\ ramaddr \in Nat
      /\ q \in Int \X Int /\ buffer \in [0..BURSTCYCLE - 1 -> Int]
  BY DEF VInv, TypeOK
<1>2. Active \in BOOLEAN /\ (~hblank /\ ~vblank) \in BOOLEAN
  BY <1>1 DEF Active
<1>3. de' \in Chain /\ valid' \in Chain
  BY <1>1, <1>2, NextChain DEF VideoEdge, Pixel
<1>4. overrun' \in BOOLEAN
  BY DEF VideoEdge, Overrun, Active
<1>5. pixeladdr' \in Nat /\ ramaddr' \in Nat
  BY <1>1 DEF VideoEdge, Pixel
<1>6. pixelcount' \in Nat
  BY Geometry DEF VideoEdge, Sampled
<1>7. Black \in Int \X Int
  BY DEF Black
<1>8. q' \in Int \X Int
  <2>1. CASE ramaddr < HActive
    <3>1. ramaddr \div 2 \in 0..BURSTCYCLE - 1 /\ ramaddr % 2 \in Int
      BY <1>1, <2>1, Geometry
    <3>2. buffer[ramaddr \div 2] \in Int
      BY <1>1, <3>1
    <3> QED
      BY <2>1, <3>1, <3>2 DEF VideoEdge, Pixel
  <2>2. CASE ~(ramaddr < HActive)
    BY <1>7, <2>2 DEF VideoEdge, Pixel
  <2> QED
    BY <2>1, <2>2
<1>9. rout' \in Int \X Int
  BY <1>1, <1>7 DEF VideoEdge, Pixel
<1> QED
  BY <1>3, <1>4, <1>5, <1>6, <1>8, <1>9

LEMMA VideoType ==
  ASSUME VInv, VideoEdge
  PROVE  TypeOK'
<1>1. hcount' \in 0..HTotal - 1 /\ vcount' \in 0..VTotal - 1
  BY Tick DEF VInv, VideoEdge
<1>2. edges' \in [bus : Nat, peri : Nat]
  BY VideoClocks DEF VInv
<1>3. {scan_in', scanena', hblank', vblank', frame', line'} \subseteq BOOLEAN
  <2>1. scan_in' \in BOOLEAN /\ scanena' \in BOOLEAN
    BY DEF VideoEdge, Enable, VInv, TypeOK
  <2>2. hblank' \in BOOLEAN /\ vblank' \in BOOLEAN
    <3>1. hblank' \in {TRUE, FALSE, hblank} /\ vblank' \in {TRUE, FALSE, vblank}
      BY DEF VideoEdge, Count
    <3> QED
      BY <3>1 DEF VInv, TypeOK
  <2>3. frame' \in BOOLEAN /\ line' \in BOOLEAN
    <3>1. CASE hcount = HTotal - 1
      <4>1. frame' = (vcount = 0) /\ line' = (~vblank /\ scanena)
        BY <3>1 DEF VideoEdge, Pulse
      <4> QED
        BY <4>1
    <3>2. CASE hcount # HTotal - 1
      BY <3>2 DEF VideoEdge, Pulse, VInv, TypeOK
    <3> QED
      BY <3>1, <3>2
  <2> QED
    BY <2>1, <2>2, <2>3
<1>4. late' \in {"none", "word", "line"}
  BY DEF VideoEdge, VInv, TypeOK
<1>5. UNCHANGED <<fs, ls, avm, datacount, addr, topaddr, lineoffs, buffer, was,
                  ovr, ovrerr, scan_reg, framebuff, pc, status>>
  BY DEF VideoEdge, reader, registers
<1>6. /\ de' \in Chain /\ valid' \in Chain /\ overrun' \in BOOLEAN
      /\ pixeladdr' \in Nat /\ ramaddr' \in Nat /\ pixelcount' \in Nat
      /\ q' \in Int \X Int /\ rout' \in Int \X Int
  BY ReadoutType
<1> QED
  BY <1>1, <1>2, <1>3, <1>4, <1>5, <1>6 DEF VInv, TypeOK

(* The rows as the counters go on: a line ends its row of pixels first.    *)
LEMMA VideoRow ==
  ASSUME VInv, VideoEdge
  PROVE  /\ hcount # HEnd - 1 => vcount' = vcount
         /\ hcount = HEnd - 1 /\ Visible => vcount' = vcount + 1
         /\ hcount' # 0 => (Shown' <=> Shown) /\ (Shown => Row' = Row)
         /\ hcount' = 0 => (Shown' <=> Visible) /\ (Visible' <=> Visible)
         /\ hcount < HEnd => (Shown <=> Visible)
<1>1. PICK h \in Nat, v \in Nat : h = hcount /\ v = vcount /\ h <= HTotal - 1 /\ v <= VTotal - 1
  BY Geometry DEF VInv, TypeOK
<1>2. PICK g \in Nat, w \in Nat : g = hcount' /\ w = vcount'
  BY Geometry, Tick DEF VInv, VideoEdge
<1>3. /\ h = HTotal - 1 => g = 0
      /\ h # HTotal - 1 => g = h + 1
      /\ h # HEnd - 1 => w = v
      /\ h = HEnd - 1 /\ v # VTotal - 1 => w = v + 1
      /\ h = HEnd - 1 /\ v = VTotal - 1 => w = 0
  BY <1>1, <1>2, Tick DEF VInv, VideoEdge
<1>4. PICK r \in Int : r = Row /\ r = (IF h >= HEnd THEN v - 1 - VStart ELSE v - VStart)
  <2>1. Row = (IF h >= HEnd THEN v - 1 - VStart ELSE v - VStart)
    BY <1>1 DEF Row
  <2>2. (IF h >= HEnd THEN v - 1 - VStart ELSE v - VStart) \in Int
    BY Geometry
  <2> QED
    BY <2>1, <2>2
<1>5. PICK s \in Int : s = Row' /\ s = (IF g >= HEnd THEN w - 1 - VStart ELSE w - VStart)
  <2>1. Row' = (IF g >= HEnd THEN w - 1 - VStart ELSE w - VStart)
    BY <1>2 DEF Row
  <2>2. (IF g >= HEnd THEN w - 1 - VStart ELSE w - VStart) \in Int
    BY Geometry
  <2> QED
    BY <2>1, <2>2
<1>6. /\ Visible <=> VStart <= v /\ v <= VStart + VActive - 1
      /\ Visible' <=> VStart <= w /\ w <= VStart + VActive - 1
  BY <1>1, <1>2, Geometry DEF Visible
<1>7. /\ Shown <=> 0 <= r /\ r <= VActive - 1
      /\ Shown' <=> 0 <= s /\ s <= VActive - 1
  BY <1>4, <1>5, Geometry DEF Shown
<1>8. /\ h # HEnd - 1 => w = v
      /\ h = HEnd - 1 /\ Visible => w = v + 1
      /\ g # 0 => (Shown' <=> Shown) /\ (Shown => s = r)
      /\ g = 0 => (Shown' <=> Visible) /\ (Visible' <=> Visible)
      /\ h < HEnd => (Shown <=> Visible)
  <2>1. CASE h = HTotal - 1
    BY <1>1, <1>3, <1>4, <1>5, <1>6, <1>7, <2>1, Geometry
  <2>2. CASE h = HEnd - 1
    BY <1>1, <1>3, <1>4, <1>5, <1>6, <1>7, <2>2, Geometry
  <2>3. CASE h # HEnd - 1 /\ h # HTotal - 1
    BY <1>1, <1>3, <1>4, <1>5, <1>6, <1>7, <2>3, Geometry
  <2> QED
    BY <2>1, <2>2, <2>3
<1> QED
  BY <1>1, <1>2, <1>4, <1>5, <1>8

LEMMA VideoSync ==
  ASSUME VInv, VideoEdge
  PROVE  SyncInv'
<1>1. /\ hcount \in 0..HTotal - 1 /\ vcount \in 0..VTotal - 1
      /\ hblank <=> hcount \notin HStart..HEnd - 1
      /\ vblank <=> ~Visible
      /\ line <=> hcount < HSync /\ scanena /\ Visible
      /\ frame <=> hcount < HSync /\ vcount = 0
  BY DEF VInv, TypeOK, SyncInv
<1>2. /\ hcount' \in 0..HTotal - 1 /\ vcount' \in 0..VTotal - 1
      /\ hcount = HTotal - 1 => hcount' = 0
      /\ hcount # HTotal - 1 => hcount' = hcount + 1
      /\ hcount # HEnd - 1 => vcount' = vcount
      /\ hcount = HEnd - 1 /\ vcount # VTotal - 1 => vcount' = vcount + 1
      /\ hcount = HEnd - 1 /\ vcount = VTotal - 1 => vcount' = 0
  BY Tick DEF VInv, VideoEdge
<1>3. hblank' <=> hcount' \notin HStart..HEnd - 1
  <2>1. CASE hcount = HStart - 1
    <3>1. ~hblank'
      BY <2>1, Geometry DEF VideoEdge, Count
    <3> QED
      BY <1>1, <1>2, <2>1, <3>1, Geometry
  <2>2. CASE hcount = HEnd - 1
    <3>1. hblank'
      BY <2>2, Geometry DEF VideoEdge, Count
    <3> QED
      BY <1>1, <1>2, <2>2, <3>1, Geometry
  <2>3. CASE hcount # HStart - 1 /\ hcount # HEnd - 1
    <3>1. hblank' = hblank
      BY <2>3 DEF VideoEdge, Count
    <3>2. (hcount' \in HStart..HEnd - 1) <=> (hcount \in HStart..HEnd - 1)
      BY <1>1, <1>2, <2>3, Geometry
    <3> QED
      BY <1>1, <3>1, <3>2
  <2> QED
    BY <2>1, <2>2, <2>3
<1>4. vblank' <=> ~Visible'
  <2>1. CASE hcount = HEnd - 1 /\ vcount = VStart - 1
    <3>1. ~vblank'
      BY <2>1, Geometry DEF VideoEdge, Count
    <3>2. vcount' = VStart
      BY <1>1, <1>2, <2>1, Geometry
    <3> QED
      BY <3>1, <3>2, Geometry DEF Visible
  <2>2. CASE hcount = HEnd - 1 /\ vcount = VStart + VActive - 1
    <3>1. vblank'
      BY <2>2, Geometry DEF VideoEdge, Count
    <3>2. vcount' = VStart + VActive
      BY <1>1, <1>2, <2>2, Geometry
    <3> QED
      BY <3>1, <3>2, Geometry DEF Visible
  <2>3. CASE ~(hcount = HEnd - 1 /\ vcount \in {VStart - 1, VStart + VActive - 1})
    <3>1. vblank' = vblank
      BY <2>3 DEF VideoEdge, Count
    <3>2. Visible' <=> Visible
      BY <1>1, <1>2, <2>3, Geometry DEF Visible
    <3> QED
      BY <1>1, <3>1, <3>2
  <2> QED
    BY <2>1, <2>2, <2>3
<1>5. scanena' = scanena \/ (~Visible /\ hcount = 0)
  BY <1>1, Geometry DEF VideoEdge, Enable, Visible
<1>6. CASE hcount = HTotal - 1
  <2>1. hcount' = 0 /\ vcount' = vcount /\ scanena' = scanena
    BY <1>2, <1>5, <1>6, Geometry
  <2>2. (frame' <=> vcount = 0) /\ (line' <=> ~vblank /\ scanena)
    BY <1>6 DEF VideoEdge, Pulse
  <2>3. 0 < HSync /\ (Visible' <=> Visible)
    BY <2>1, Geometry DEF Visible
  <2> QED
    BY <1>1, <1>3, <1>4, <2>1, <2>2, <2>3 DEF SyncInv
<1>7. CASE hcount = HSync - 1
  <2>1. ~(hcount' < HSync)
    BY <1>2, <1>7, Geometry
  <2>2. ~frame' /\ ~line'
    BY <1>7, Geometry DEF VideoEdge, Pulse
  <2> QED
    BY <1>3, <1>4, <2>1, <2>2 DEF SyncInv
<1>8. CASE hcount \notin {HTotal - 1, HSync - 1}
  <2>1. frame' = frame /\ line' = line
    BY <1>8 DEF VideoEdge, Pulse
  <2>2. hcount' < HSync <=> hcount < HSync
    BY <1>1, <1>2, <1>8, Geometry
  <2>3. hcount < HSync => vcount' = vcount
    BY <1>1, <1>2, Geometry
  <2>4. hcount < HSync => (Visible' <=> Visible)
    BY <2>3 DEF Visible
  <2>5. frame' <=> hcount' < HSync /\ vcount' = 0
    BY <1>1, <2>1, <2>2, <2>3
  <2>6. line' <=> hcount' < HSync /\ scanena' /\ Visible'
    BY <1>1, <1>5, <2>1, <2>2, <2>4
  <2> QED
    BY <1>3, <1>4, <2>5, <2>6 DEF SyncInv
<1> QED
  BY <1>6, <1>7, <1>8
------------------------------------------------------------------------------
(* The scan enable changes at the top of the picture only.                 *)
LEMMA EnableKept ==
  ASSUME VInv, VideoEdge, vcount # 0 \/ hcount # 0
  PROVE  scanena' = scanena
BY DEF VideoEdge, Enable

LEMMA VisibleLater == TypeOK /\ Visible => vcount # 0
BY Geometry DEF TypeOK, Visible

(* Pulses start with a line and at no other time.                          *)
LEMMA PulseStarts ==
  ASSUME VInv, VideoEdge, hcount' # 0
  PROVE  (frame' => frame) /\ (line' => line) /\ hcount' = hcount + 1
<1>1. /\ hcount \in 0..HTotal - 1 /\ hcount' = hcount + 1
      /\ hcount # HEnd - 1 => vcount' = vcount
  BY Tick DEF VInv, VideoEdge, TypeOK
<1>2. SyncInv' /\ SyncInv
  BY VideoSync DEF VInv
<1>3. hcount' < HSync => hcount < HSync /\ vcount' = vcount
  BY <1>1, Geometry
<1>4. frame' => frame
  BY <1>2, <1>3 DEF SyncInv
<1>5. line' => line
  <2> SUFFICES ASSUME line' PROVE line
    OBVIOUS
  <2>1. hcount' < HSync /\ scanena' /\ Visible'
    BY <1>2 DEF SyncInv
  <2>2. hcount < HSync /\ Visible
    BY <1>3, <2>1 DEF Visible
  <2>3. scanena' = scanena
    BY <2>2, EnableKept, VisibleLater DEF VInv
  <2> QED
    BY <1>2, <2>1, <2>2, <2>3 DEF SyncInv
<1> QED
  BY <1>1, <1>4, <1>5

(* The registers of the bus clock do not move at an edge of the video      *)
(* clock; what they hold of a pulse is as late as it was.                  *)
LEMMA ChainTick ==
  ASSUME VInv, VideoEdge, NEW p \in BOOLEAN, NEW n \in BOOLEAN, NEW c \in Chain,
         Drains(c), Seen(p, c) \/ Coming(p, c), hcount' # 0 => (n => p)
  PROVE  /\ Drains(c)'
         /\ hcount' # 0 => (Seen(p, c) => Seen(n, c)) /\ (Coming(p, c) => Coming(n, c)')
         /\ hcount' = 0 => Seen(n, c) \/ (n /\ Coming(n, c)')
         /\ hcount' = 0 => (n => ~Seen(n, c))
<1>1. PICK h \in Nat, g \in Nat, m \in Nat :
        /\ h = hcount /\ g = hcount' /\ m = EdgesHad /\ EdgesHad' = g /\ m >= h + 1
        /\ h = HTotal - 1 => g = 0
        /\ h # HTotal - 1 => g = h + 1
  <2>1. /\ hcount' \in 0..HTotal - 1
        /\ hcount = HTotal - 1 => hcount' = 0
        /\ hcount # HTotal - 1 => hcount' = hcount + 1
    BY Tick DEF VInv, VideoEdge
  <2>2. EdgesHad \in Nat /\ EdgesHad >= hcount + 1 /\ EdgesHad' = hcount'
    BY VideoClocks DEF VInv
  <2>3. hcount \in 0..HTotal - 1
    BY DEF VInv, TypeOK
  <2>4. hcount \in Nat /\ hcount' \in Nat
    BY <2>1, <2>3, Geometry
  <2> QED
    BY <2>1, <2>2, <2>4
<1>2. h >= HSync => \A i \in 1..3 : m >= HSync + i => ~c[i]
  BY <1>1 DEF Drains
<1>3. Drains(c)'
  <2> SUFFICES ASSUME g >= HSync, NEW i \in 1..3, g >= HSync + i PROVE ~c[i]
    BY <1>1 DEF Drains
  <2>1. h >= HSync /\ m >= HSync + i
    BY <1>1, Geometry
  <2> QED
    BY <1>2, <2>1
<1>4. CASE g # 0
  <2>1. Seen(p, c) => Seen(n, c)
    BY <1>1, <1>4 DEF Seen
  <2>2. g <= m /\ m # 0
    BY <1>1, <1>4
  <2>3. m <= 1 => g <= 1
    BY <2>2
  <2>4. m <= 2 => g <= 2
    BY <2>2
  <2>5. Coming(p, c) => Coming(n, c)'
    BY <1>1, <1>4, <2>2, <2>3, <2>4 DEF Coming
  <2> QED
    BY <1>1, <1>3, <1>4, <2>1, <2>5
<1>5. CASE g = 0
  <2>1. h >= HSync /\ m >= HSync + 1 /\ m >= HSync + 2 /\ m >= HSync + 3
    BY <1>1, <1>5, Geometry
  <2>2. ~c[1] /\ ~c[2] /\ ~c[3]
    BY <1>2, <2>1
  <2>3. Seen(n, c) \/ (n /\ Coming(n, c)')
    BY <1>1, <1>5, <2>2 DEF Seen, Coming
  <2>4. n => ~Seen(n, c)
    BY <2>2 DEF Seen
  <2> QED
    BY <1>1, <1>3, <1>5, <2>3, <2>4
<1> QED
  BY <1>4, <1>5

(* A pulse under way is one of a line that has just begun.                 *)
LEMMA ComingEarly ==
  ASSUME TypeOK, NEW p, NEW c \in Chain, Coming(p, c)
  PROVE  /\ hcount <= 2 /\ hcount + edges.bus <= 2 /\ hcount < HEnd /\ hcount <= HStart
         /\ ~Seen(p, c)
<1>1. PICK h \in Nat, e \in Nat : h = hcount /\ e = edges.bus
  <2>1. hcount \in Nat
    BY Geometry DEF TypeOK
  <2>2. edges.bus \in Nat
    BY DEF TypeOK
  <2> QED
    BY <2>1, <2>2
<1>2. h + e <= 2
  BY <1>1 DEF Coming, EdgesHad
<1>3. ~Seen(p, c)
  BY DEF Seen, Coming
<1> QED
  BY <1>1, <1>2, <1>3, Geometry

LEMMA VideoChain ==
  ASSUME VInv, VideoEdge
  PROVE  /\ ChainInv'
         /\ hcount' # 0 => /\ Seen(frame, fs) => Seen(frame, fs)'
                           /\ Seen(line, ls) => Seen(line, ls)'
                           /\ Coming(frame, fs) => Coming(frame, fs)'
                           /\ Coming(line, ls) => Coming(line, ls)'
         /\ hcount' = 0 => /\ frame' => ~Seen(frame, fs)'
                           /\ line' => ~Seen(line, ls)'
<1>0. /\ fs' = fs /\ ls' = ls /\ fs \in Chain /\ ls \in Chain
      /\ frame \in BOOLEAN /\ line \in BOOLEAN /\ frame' \in BOOLEAN /\ line' \in BOOLEAN
  BY VideoType DEF VideoEdge, reader, VInv, TypeOK
<1>1. PICK f \in Chain, l \in Chain, p \in BOOLEAN, n \in BOOLEAN, s \in BOOLEAN, t \in BOOLEAN :
        /\ f = fs /\ f = fs' /\ l = ls /\ l = ls'
        /\ p = frame /\ n = frame' /\ s = line /\ t = line'
  BY <1>0
<1>2. /\ Drains(f) /\ (Seen(p, f) \/ (Coming(p, f) /\ vcount = 0))
      /\ Drains(l) /\ (Seen(s, l) \/ (Coming(s, l) /\ scanena /\ Visible))
  BY <1>1 DEF VInv, ChainInv
<1>3. /\ Drains(f)'
      /\ hcount' # 0 => (Seen(p, f) => Seen(n, f)) /\ (Coming(p, f) => Coming(n, f)')
      /\ hcount' = 0 => (Seen(n, f) \/ (n /\ Coming(n, f)')) /\ (n => ~Seen(n, f))
  BY <1>1, <1>2, PulseStarts, ChainTick
<1>4. /\ Drains(l)'
      /\ hcount' # 0 => (Seen(s, l) => Seen(t, l)) /\ (Coming(s, l) => Coming(t, l)')
      /\ hcount' = 0 => (Seen(t, l) \/ (t /\ Coming(t, l)')) /\ (t => ~Seen(t, l))
  BY <1>1, <1>2, PulseStarts, ChainTick
<1>5. SyncInv' /\ TypeOK
  BY VideoSync DEF VInv
<1>6. Seen(n, f) \/ (Coming(n, f)' /\ vcount' = 0)
  <2>1. CASE hcount' = 0
    BY <1>1, <1>3, <1>5, <2>1 DEF SyncInv
  <2>2. CASE hcount' # 0 /\ ~Seen(n, f)
    <3>1. Coming(p, f) /\ vcount = 0 /\ Coming(n, f)'
      BY <1>2, <1>3, <2>2
    <3>2. hcount <= 2 /\ hcount + edges.bus <= 2 /\ edges.bus >= 1
      BY <1>5, <3>1, ComingEarly, VgaAssumption DEF VideoEdge
    <3>3. hcount # HEnd - 1
      BY <1>5, <3>2, Geometry DEF TypeOK
    <3> QED
      BY <3>1, <3>3, VideoRow
  <2> QED
    BY <2>1, <2>2
<1>7. Seen(t, l) \/ (Coming(t, l)' /\ scanena' /\ Visible')
  <2>1. CASE hcount' = 0
    BY <1>1, <1>4, <1>5, <2>1 DEF SyncInv
  <2>2. CASE hcount' # 0 /\ ~Seen(t, l)
    <3>1. Coming(s, l) /\ scanena /\ Visible /\ Coming(t, l)'
      BY <1>2, <1>4, <2>2
    <3>2. hcount <= 2
      BY <1>5, <3>1, ComingEarly
    <3>3. hcount # HEnd - 1
      BY <1>5, <3>2, Geometry DEF TypeOK
    <3>4. vcount' = vcount /\ scanena' = scanena
      BY <1>5, <3>1, <3>3, VideoRow, EnableKept, VisibleLater
    <3> QED
      BY <3>1, <3>4 DEF Visible
  <2> QED
    BY <2>1, <2>2
<1>8. ChainInv'
  BY <1>1, <1>3, <1>4, <1>6, <1>7 DEF ChainInv, Drains, Coming, Seen
<1>9. hcount' # 0 => /\ Seen(frame, fs) => Seen(frame, fs)'
                     /\ Seen(line, ls) => Seen(line, ls)'
                     /\ Coming(frame, fs) => Coming(frame, fs)'
                     /\ Coming(line, ls) => Coming(line, ls)'
  BY <1>1, <1>3, <1>4 DEF Coming, Seen
<1>10. hcount' = 0 => /\ frame' => ~Seen(frame, fs)'
                      /\ line' => ~Seen(line, ls)'
  BY <1>1, <1>3, <1>4 DEF Seen
<1> QED
  BY <1>8, <1>9, <1>10
------------------------------------------------------------------------------
(* A pulse that has started is seen by the end of the active part.         *)
LEMMA LateInLine ==
  ASSUME VInv, VideoEdge, hcount >= 2
  PROVE  Seen(frame, fs) /\ Seen(line, ls)
<1>1. TypeOK /\ fs \in Chain /\ ls \in Chain
  BY DEF VInv, TypeOK
<1>2. PICK h \in Nat, e \in Nat : h = hcount /\ e = edges.bus /\ h >= 2 /\ e >= 1
  <2>1. hcount \in Nat
    BY Geometry DEF VInv, TypeOK
  <2>2. edges.bus \in Nat /\ edges.bus >= 1
    BY VgaAssumption DEF VideoEdge
  <2> QED
    BY <2>1, <2>2
<1>3. ~(hcount + edges.bus <= 2)
  BY <1>2
<1>4. ~Coming(frame, fs) /\ ~Coming(line, ls)
  BY <1>1, <1>3, ComingEarly, Zenon
<1> QED
  BY <1>4 DEF VInv, ChainInv

(* How many rows have begun does not change with the video clock.          *)
LEMMA VideoBegun ==
  ASSUME VInv, VideoEdge, scanena', Visible'
  PROVE  /\ hcount # HEnd - 1 => Visible /\ RowsBegun' = RowsBegun
         /\ hcount = HEnd - 1 /\ vcount >= VStart =>
              Visible /\ RowsBegun' = vcount + 1 - VStart /\ RowsBegun = vcount + 1 - VStart
         /\ hcount = HEnd - 1 /\ vcount < VStart => vcount = VStart - 1 /\ RowsBegun' = 0
<1>1. /\ hcount \in Nat /\ vcount \in Nat /\ vcount' \in Nat /\ vcount <= VTotal - 1
      /\ hcount' \in Nat
  BY Geometry, VideoType DEF VInv, TypeOK
<1>2. /\ hcount = HTotal - 1 => hcount' = 0
      /\ hcount # HTotal - 1 => hcount' = hcount + 1
      /\ hcount # HEnd - 1 => vcount' = vcount
      /\ hcount = HEnd - 1 /\ vcount # VTotal - 1 => vcount' = vcount + 1
      /\ hcount = HEnd - 1 /\ vcount = VTotal - 1 => vcount' = 0
  BY Tick DEF VInv, VideoEdge
<1>3. CASE hcount = HEnd - 1
  <2>1. hcount' = HEnd /\ hcount >= 2 /\ hcount < HEnd
    BY <1>2, <1>3, Geometry
  <2>2. Seen(line, ls)
    BY <2>1, LateInLine
  <2>3. Begun /\ ~Begun'
    BY <2>1, <2>2, Geometry DEF Begun
  <2>4. vcount' = vcount + 1 /\ VStart <= vcount' /\ vcount' <= VStart + VActive - 1
    BY <1>1, <1>2, <1>3, Geometry DEF Visible
  <2>5. RowsBegun' = vcount' - VStart + 0 /\ RowsBegun = vcount - VStart + 1
    BY <2>3 DEF RowsBegun
  <2>6. vcount >= VStart => Visible
    BY <1>1, <2>4, Geometry DEF Visible
  <2> QED
    BY <1>1, <1>3, <2>4, <2>5, <2>6, Geometry
<1>4. CASE hcount # HEnd - 1
  <2>1. vcount' = vcount /\ Visible
    BY <1>2, <1>4 DEF Visible
  <2>2. Begun' <=> Begun
    <3>1. CASE hcount = HTotal - 1
      <4>1. hcount' = 0 /\ ~(hcount < HEnd)
        BY <1>2, <3>1, Geometry
      <4>2. line'
        BY <4>1, VideoSync, Geometry DEF SyncInv
      <4>3. ~Seen(line, ls)'
        BY <4>1, <4>2, VideoChain
      <4> QED
        BY <4>1, <4>3 DEF Begun
    <3>2. CASE hcount # HTotal - 1
      <4>1. hcount' = hcount + 1 /\ hcount' # 0 /\ (hcount' < HEnd <=> hcount < HEnd)
        BY <1>1, <1>2, <1>4, <3>2, Geometry
      <4>2. ls' \in Chain /\ TypeOK'
        BY VideoType DEF TypeOK
      <4>3. Coming(line, ls)' => ~Seen(line, ls)'
        BY DEF Coming, Seen
      <4>4. Seen(line, ls) \/ Coming(line, ls)
        BY DEF VInv, ChainInv
      <4>5. Seen(line, ls)' <=> Seen(line, ls)
        BY <4>1, <4>3, <4>4, VideoChain
      <4> QED
        BY <4>1, <4>5 DEF Begun
    <3> QED
      BY <3>1, <3>2
  <2>3. RowsBegun' = RowsBegun
    BY <2>1, <2>2 DEF RowsBegun
  <2> QED
    BY <1>4, <2>1, <2>3
<1> QED
  BY <1>3, <1>4

LEMMA VideoLate ==
  ASSUME VInv, VideoEdge
  PROVE  late' # "line" => late # "line"
BY DEF VideoEdge, VInv, TypeOK

LEMMA VideoOffset ==
  ASSUME VInv, VideoEdge
  PROVE  OffsetInv'
<1>1. lineoffs' = lineoffs /\ OffsetInv
  BY DEF VideoEdge, reader, VInv
<1>2. /\ hcount \in Nat /\ vcount \in Nat /\ vcount' \in Nat /\ hcount' \in Nat
      /\ vcount <= VTotal - 1
  BY Geometry, VideoType DEF VInv, TypeOK
<1>3. /\ hcount = HTotal - 1 => hcount' = 0
      /\ hcount # HTotal - 1 => hcount' = hcount + 1
      /\ hcount # HEnd - 1 => vcount' = vcount
      /\ hcount = HEnd - 1 /\ vcount # VTotal - 1 => vcount' = vcount + 1
      /\ hcount = HEnd - 1 /\ vcount = VTotal - 1 => vcount' = 0
  BY Tick DEF VInv, VideoEdge
<1>4. ASSUME hcount = HEnd - 1, vcount < VStart PROVE lineoffs = 0
  <2>1. Seen(frame, fs) /\ hcount < HEnd
    BY <1>4, LateInLine, Geometry
  <2>2. CASE vcount = 0
    BY <1>1, <2>1, <2>2 DEF OffsetInv
  <2>3. CASE vcount # 0
    <3>1. vcount \in 1..VStart - 1
      BY <1>2, <1>4, <2>3, Geometry
    <3> QED
      BY <1>1, <3>1 DEF OffsetInv
  <2> QED
    BY <2>2, <2>3
<1>5. vcount' \in 1..VStart - 1 => lineoffs' = 0
  <2> SUFFICES ASSUME vcount' \in 1..VStart - 1 PROVE lineoffs = 0
    BY <1>1
  <2>1. CASE hcount = HEnd - 1
    <3>1. vcount < VStart
      BY <1>2, <1>3, <2>1, Geometry
    <3> QED
      BY <1>4, <2>1, <3>1
  <2>2. CASE hcount # HEnd - 1
    BY <1>1, <1>3, <2>2 DEF OffsetInv
  <2> QED
    BY <2>1, <2>2
<1>6. vcount' = 0 /\ hcount' < HEnd /\ Seen(frame, fs)' => lineoffs' = 0
  <2> SUFFICES ASSUME vcount' = 0, hcount' < HEnd, Seen(frame, fs)' PROVE lineoffs = 0
    BY <1>1
  <2>1. hcount' # 0
    <3> SUFFICES ASSUME hcount' = 0 PROVE FALSE
      OBVIOUS
    <3>1. frame'
      BY VideoSync, Geometry DEF SyncInv
    <3> QED
      BY <3>1, VideoChain
  <2>2. hcount' = hcount + 1 /\ hcount # HEnd - 1 /\ hcount < HEnd /\ vcount = 0
    BY <1>2, <1>3, <2>1, Geometry
  <2>3. Coming(frame, fs)' => ~Seen(frame, fs)'
    BY DEF Coming, Seen
  <2>4. Seen(frame, fs)
    BY <2>1, <2>3, VideoChain DEF VInv, ChainInv
  <2> QED
    BY <1>1, <2>2, <2>4 DEF OffsetInv
<1>7. scanena' /\ late' # "line" /\ Visible' => lineoffs' = RowsBegun' * Offset
  <2> SUFFICES ASSUME scanena', late' # "line", Visible' PROVE lineoffs = RowsBegun' * Offset
    BY <1>1
  <2>1. vcount' # 0
    BY VideoType, VisibleLater, Geometry DEF TypeOK, Visible
  <2>2. CASE hcount = HEnd - 1 /\ vcount < VStart
    <3>1. RowsBegun' = 0
      BY <2>2, VideoBegun
    <3>2. 0 * Offset = 0
      BY Geometry
    <3> QED
      BY <1>4, <2>2, <3>1, <3>2
  <2>3. CASE ~(hcount = HEnd - 1 /\ vcount < VStart)
    <3>1. Visible /\ RowsBegun' = RowsBegun
      <4>1. hcount # HEnd - 1 \/ vcount >= VStart
        BY <1>2, <2>3, Geometry
      <4> QED
        BY <4>1, VideoBegun
    <3>2. scanena
      BY <3>1, EnableKept, VisibleLater DEF VInv
    <3>3. lineoffs = RowsBegun * Offset
      BY <1>1, <3>1, <3>2, VideoLate DEF OffsetInv
    <3> QED
      BY <3>1, <3>3
  <2> QED
    BY <2>2, <2>3
<1> QED
  BY <1>5, <1>6, <1>7 DEF OffsetInv

LEMMA VideoRowKept ==
  ASSUME VInv, VideoEdge
  PROVE  RowInv'
<1> SUFFICES ASSUME scanena', late' # "line", Shown', hcount' >= HEnd \/ Seen(line, ls)'
             PROVE  \E p \in Pages \union {0} : addr' = p + Row' * Offset
  BY DEF RowInv
<1>1. addr' = addr
  BY DEF VideoEdge, reader
<1>2. /\ hcount \in Nat /\ vcount \in Nat /\ hcount' \in Nat
      /\ hcount = HTotal - 1 => hcount' = 0
      /\ hcount # HTotal - 1 => hcount' = hcount + 1
  <2>1. hcount \in Nat /\ vcount \in Nat /\ hcount' \in Nat
    BY Geometry, VideoType DEF VInv, TypeOK
  <2>2. /\ hcount = HTotal - 1 => hcount' = 0
        /\ hcount # HTotal - 1 => hcount' = hcount + 1
    BY Tick DEF VInv, VideoEdge
  <2> QED
    BY <2>1, <2>2
<1>3. hcount' # 0
  <2> SUFFICES ASSUME hcount' = 0 PROVE FALSE
    OBVIOUS
  <2>1. Visible'
    BY VideoRow
  <2>2. line'
    BY <2>1, VideoSync, Geometry DEF SyncInv
  <2>3. ~Seen(line, ls)'
    BY <2>2, VideoChain
  <2>4. ~(hcount' >= HEnd)
    BY Geometry
  <2> QED
    BY <2>3, <2>4
<1>4. Shown /\ Row' = Row
  BY <1>3, VideoRow
<1>5. scanena
  <2>1. vcount # 0 \/ hcount # 0
    BY <1>4, Geometry DEF Shown, Row
  <2> QED
    BY <2>1, EnableKept
<1>6. hcount >= HEnd \/ Seen(line, ls)
  <2>1. CASE hcount' >= HEnd
    <3>1. hcount >= HEnd \/ hcount >= 2
      BY <1>2, <1>3, <2>1, Geometry
    <3> QED
      BY <3>1, LateInLine
  <2>2. CASE Seen(line, ls)'
    <3>1. Coming(line, ls)' => ~Seen(line, ls)'
      BY DEF Coming, Seen
    <3> QED
      BY <1>3, <2>2, <3>1, VideoChain DEF VInv, ChainInv
  <2> QED
    BY <2>1, <2>2
<1>7. late # "line"
  BY VideoLate
<1>8. \E p \in Pages \union {0} : addr = p + Row * Offset
  BY <1>4, <1>5, <1>6, <1>7 DEF VInv, RowInv
<1> QED
  BY <1>1, <1>4, <1>8
------------------------------------------------------------------------------
(* The readout: what is in a register of it is a pixel further behind in   *)
(* the next one after an edge of the video clock.                          *)
LEMMA ActiveHere ==
  ASSUME VInv, VideoEdge
  PROVE  /\ ~hblank /\ ~vblank <=> hcount \in HStart..HEnd - 1 /\ Shown
         /\ Active <=> hcount \in HStart..HEnd - 1 /\ Shown /\ scanena
<1>1. (hblank <=> hcount \notin HStart..HEnd - 1) /\ (vblank <=> ~Visible)
  BY DEF VInv, SyncInv
<1>2. hcount \in HStart..HEnd - 1 => (Shown <=> Visible)
  <2>1. hcount \in HStart..HEnd - 1 => hcount < HEnd
    BY Geometry
  <2> QED
    BY <2>1, VideoRow
<1> QED
  BY <1>1, <1>2 DEF Active

LEMMA VideoDisplay ==
  ASSUME VInv, VideoEdge, NEW i \in 1..3
  PROVE  /\ de'[i] <=> hcount' - i \in HStart..HEnd - 1 /\ Shown'
         /\ valid'[i] <=> de'[i] /\ scanena'
         /\ de'[i] => hcount # HTotal - 1 /\ hcount' = hcount + 1
<1>0. PICK h \in Nat, g \in Nat :
        /\ h = hcount /\ g = hcount'
        /\ h = HTotal - 1 => g = 0
        /\ h # HTotal - 1 => g = h + 1
  <2>1. hcount \in Nat /\ hcount' \in Nat
    BY Geometry, VideoType DEF VInv, TypeOK
  <2>2. /\ hcount = HTotal - 1 => hcount' = 0
        /\ hcount # HTotal - 1 => hcount' = hcount + 1
    BY Tick DEF VInv, VideoEdge
  <2> QED
    BY <2>1, <2>2
<1>1. /\ ~hblank /\ ~vblank <=> h \in HStart..HEnd - 1 /\ Shown
      /\ Active <=> h \in HStart..HEnd - 1 /\ Shown /\ scanena
  BY <1>0, ActiveHere
<1>2. \A j \in 1..3 : /\ de[j] <=> h - j \in HStart..HEnd - 1 /\ Shown
                      /\ valid[j] <=> de[j] /\ scanena
  BY <1>0 DEF VInv, PipeInv
<1>3. /\ de'[1] <=> ~hblank /\ ~vblank
      /\ de'[2] = de[1] /\ de'[3] = de[2]
      /\ valid'[1] <=> Active
      /\ valid'[2] = valid[1] /\ valid'[3] = valid[2]
  BY DEF VideoEdge, Pixel, Next3
<1>4. /\ de'[i] <=> h + 1 - i \in HStart..HEnd - 1 /\ Shown
      /\ valid'[i] <=> de'[i] /\ scanena
  <2>1. CASE i = 1
    <3>1. h + 1 - 1 = h
      OBVIOUS
    <3> QED
      BY <1>1, <1>3, <2>1, <3>1
  <2>2. CASE i = 2
    <3>1. h + 1 - 2 = h - 1
      OBVIOUS
    <3>2. /\ de[1] <=> h - 1 \in HStart..HEnd - 1 /\ Shown
          /\ valid[1] <=> de[1] /\ scanena
      BY <1>2
    <3> QED
      BY <1>3, <2>2, <3>1, <3>2
  <2>3. CASE i = 3
    <3>1. h + 1 - 3 = h - 2
      OBVIOUS
    <3>2. /\ de[2] <=> h - 2 \in HStart..HEnd - 1 /\ Shown
          /\ valid[2] <=> de[2] /\ scanena
      BY <1>2
    <3> QED
      BY <1>3, <2>3, <3>1, <3>2
  <2> QED
    BY <2>1, <2>2, <2>3
<1>5. CASE h = HTotal - 1
  <2>1. h + 1 - i \notin HStart..HEnd - 1 /\ g - i \notin HStart..HEnd - 1
    BY <1>0, <1>5, Geometry
  <2> QED
    BY <1>0, <1>4, <2>1
<1>6. CASE h # HTotal - 1
  <2>1. g = h + 1 /\ g # 0 /\ (g - i \in HStart..HEnd - 1 => h # 0)
    BY <1>0, <1>6, Geometry
  <2>2. Shown' <=> Shown
    BY <1>0, <2>1, VideoRow
  <2>3. h # 0 => scanena' = scanena
    BY <1>0, EnableKept
  <2> QED
    BY <1>0, <1>4, <1>6, <2>1, <2>2, <2>3
<1> QED
  BY <1>5, <1>6

LEMMA VideoPixels ==
  ASSUME VInv, VideoEdge
  PROVE  /\ pixeladdr' = (IF valid'[1] THEN PixelOf(0)' ELSE 0)
         /\ valid'[1] => pixeladdr = PixelOf(1)' /\ ramaddr' = PixelOf(1)'
         /\ valid'[2] => ramaddr = PixelOf(2)' /\ ramaddr < HActive
<1>1. (valid'[1] <=> Active) /\ valid'[2] = valid[1]
  BY DEF VideoEdge, Pixel, Next3
<1>2. PICK h \in Nat, g \in Nat : h = hcount /\ g = hcount'
  <2>1. hcount \in Nat /\ hcount' \in Nat
    BY Geometry, VideoType DEF VInv, TypeOK
  <2> QED
    BY <2>1
<1>3. \A i \in 1..3 : valid'[i] => g = h + 1
  BY <1>2, VideoDisplay
<1>4. /\ Active <=> h \in HStart..HEnd - 1 /\ Shown /\ scanena
      /\ valid[1] <=> h - 1 \in HStart..HEnd - 1 /\ Shown /\ scanena
  BY <1>2, ActiveHere DEF VInv, PipeInv
<1>5. /\ pixeladdr = (IF valid[1] THEN h - HStart ELSE 0)
      /\ valid[1] => ramaddr = h - 1 - HStart
  <2>1. PixelOf(0) = h - HStart /\ PixelOf(1) = h - 1 - HStart
    BY <1>2, Geometry DEF PixelOf
  <2> QED
    BY <2>1 DEF VInv, PipeInv
<1>6. Active => pixeladdr = h - HStart
  BY <1>4, <1>5, Geometry
<1>7. /\ PixelOf(0)' = g - HStart /\ PixelOf(1)' = g - 1 - HStart
      /\ PixelOf(2)' = g - 2 - HStart
  BY <1>2, Geometry DEF PixelOf
<1>8. /\ pixeladdr' = (IF Active THEN pixeladdr + 1 ELSE 0) /\ ramaddr' = pixeladdr
  BY DEF VideoEdge, Pixel
<1>9. CASE Active
  <2>1. g = h + 1
    BY <1>1, <1>3, <1>9
  <2>2. pixeladdr' = g - HStart /\ pixeladdr = g - 1 - HStart
    BY <1>6, <1>8, <1>9, <2>1, Geometry
  <2>3. valid'[2] => ramaddr = g - 2 - HStart /\ ramaddr < HActive
    BY <1>1, <1>4, <1>5, <2>1, Geometry
  <2> QED
    BY <1>1, <1>7, <1>8, <1>9, <2>2, <2>3
<1>10. CASE ~Active
  <2>1. valid'[2] => ramaddr = g - 2 - HStart /\ ramaddr < HActive
    BY <1>1, <1>3, <1>4, <1>5, Geometry
  <2> QED
    BY <1>1, <1>7, <1>8, <1>10, <2>1
<1> QED
  BY <1>9, <1>10

(* A row is still in time only if it was, and the word it needs is there.  *)
LEMMA VideoInTime ==
  ASSUME VInv, VideoEdge, late' = "none", NEW i \in 1..3, valid'[i]
  PROVE  late = "none" /\ (Active => datacount > pixeladdr \div 2)
<1>1. hcount # HTotal - 1
  BY VideoDisplay
<1>2. /\ late' = (CASE late = "none" /\ Active /\ datacount <= pixeladdr \div 2 -> "word"
                    [] late = "word" /\ hcount = HTotal - 1 -> "none"
                    [] OTHER -> late)
  BY DEF VideoEdge
<1>3. late \in {"none", "word", "line"} /\ datacount \in Int /\ pixeladdr \div 2 \in Int
  BY Geometry DEF VInv, TypeOK
<1>4. late = "none" /\ ~(Active /\ datacount <= pixeladdr \div 2)
  BY <1>1, <1>2, <1>3
<1> QED
  BY <1>3, <1>4

LEMMA VideoPipe ==
  ASSUME VInv, VideoEdge
  PROVE  PipeInv'
<1>0. UNCHANGED <<addr, datacount, buffer>>
  BY DEF VideoEdge, reader
<1>1. \A i \in 1..3 : /\ de'[i] <=> hcount' - i \in HStart..HEnd - 1 /\ Shown'
                      /\ valid'[i] <=> de'[i] /\ scanena'
  BY VideoDisplay
<1>2. /\ pixeladdr' = (IF valid'[1] THEN PixelOf(0)' ELSE 0)
      /\ valid'[1] => pixeladdr = PixelOf(1)' /\ ramaddr' = PixelOf(1)'
      /\ valid'[2] => ramaddr = PixelOf(2)' /\ ramaddr < HActive
  BY VideoPixels
<1>3. (valid'[1] <=> Active) /\ valid'[2] = valid[1] /\ valid'[3] = valid[2]
  BY DEF VideoEdge, Pixel, Next3
<1>4. /\ q' = (IF ramaddr < HActive THEN <<buffer[ramaddr \div 2], ramaddr % 2>> ELSE Black)
      /\ rout' = (IF valid[2] THEN q ELSE Black)
  BY DEF VideoEdge, Pixel
<1>5. \A i \in 1..3 : late' = "none" /\ valid'[i] =>
        late = "none" /\ (Active => datacount > pixeladdr \div 2)
  BY VideoInTime
<1>6. late' = "none" /\ valid'[1] => datacount' > PixelOf(1)' \div 2
  BY <1>0, <1>2, <1>3, <1>5
<1>7. late' = "none" /\ valid'[2] => q' = <<addr' + PixelOf(2)' \div 2, PixelOf(2)' % 2>>
  <2> SUFFICES ASSUME late' = "none", valid'[2]
               PROVE  q' = <<addr' + PixelOf(2)' \div 2, PixelOf(2)' % 2>>
    OBVIOUS
  <2>1. late = "none" /\ valid[1]
    BY <1>3, <1>5
  <2>2. datacount > PixelOf(1) \div 2 /\ ramaddr = PixelOf(1)
    BY <2>1 DEF VInv, PipeInv
  <2>3. PICK r \in Nat : r = ramaddr
    BY DEF VInv, TypeOK
  <2>4. r \div 2 \in 0..datacount - 1
    <3>1. PICK d \in Int, k \in Nat : d = datacount /\ k = r \div 2 /\ d > k
      BY <2>2, <2>3, Geometry DEF VInv, TypeOK
    <3> QED
      BY <3>1
  <2>5. buffer[r \div 2] = addr + r \div 2
    BY <2>4 DEF VInv, FillInv
  <2>6. q' = <<buffer[r \div 2], r % 2>>
    BY <1>2, <1>4, <2>3
  <2> QED
    BY <1>0, <1>2, <2>3, <2>5, <2>6
<1>8. late' = "none" /\ valid'[3] => rout' = <<addr' + PixelOf(3)' \div 2, PixelOf(3)' % 2>>
  <2> SUFFICES ASSUME late' = "none", valid'[3]
               PROVE  rout' = <<addr' + PixelOf(3)' \div 2, PixelOf(3)' % 2>>
    OBVIOUS
  <2>1. late = "none" /\ valid[2]
    BY <1>3, <1>5
  <2>2. rout' = <<addr + PixelOf(2) \div 2, PixelOf(2) % 2>>
    BY <1>4, <2>1 DEF VInv, PipeInv
  <2>3. PixelOf(3)' = PixelOf(2)
    <3>1. hcount' = hcount + 1
      BY <1>1, VideoDisplay
    <3>2. PICK h \in Nat : h = hcount /\ hcount' = h + 1
      BY <3>1, Geometry DEF VInv, TypeOK
    <3> QED
      BY <3>2, Geometry DEF PixelOf
  <2> QED
    BY <1>0, <2>2, <2>3
<1>9. ~valid'[3] => rout' = Black
  BY <1>3, <1>4
<1> QED
  BY <1>1, <1>2, <1>6, <1>7, <1>8, <1>9 DEF PipeInv

LEMMA VideoKeeps == VInv /\ VideoEdge => VInv'
<1> SUFFICES ASSUME VInv, VideoEdge PROVE VInv'
  OBVIOUS
<1>1. FillInv'
  BY DEF VideoEdge, reader, VInv, FillInv
<1>2. ProgramInv'
  BY DEF VideoEdge, registers, VInv, ProgramInv
<1> QED
  BY <1>1, <1>2, VideoType, VideoSync, VideoChain, VideoOffset, VideoRowKept, VideoPipe DEF VInv
------------------------------------------------------------------------------
(* An edge of the bus clock.                                               *)
LEMMA BusClocks ==
  ASSUME TypeOK, BusEdge
  PROVE  /\ edges' \in [bus : Nat, peri : Nat]
         /\ EdgesHad \in Nat /\ EdgesHad' = EdgesHad + 1
         /\ UNCHANGED <<hcount, vcount, scan_in, scanena, frame, line, hblank, vblank>>
         /\ UNCHANGED <<de, valid, pixeladdr, ramaddr, q, rout, pixelcount, overrun>>
         /\ UNCHANGED <<ovr, ovrerr, scan_reg, framebuff, pc, status>>
<1>1. PICK e \in Nat, p \in Nat : e = edges.bus /\ p = edges.peri /\ edges = [bus |-> e, peri |-> p]
  BY DEF TypeOK
<1>2. edges' = [bus |-> e + 1, peri |-> p]
  BY <1>1 DEF BusEdge
<1>3. PICK z \in Nat : z = e + 1 /\ z = edges'.bus
  BY <1>2
<1>4. hcount' = hcount /\ hcount \in Nat
  BY Geometry DEF TypeOK, BusEdge, sync
<1>5. PICK h \in Nat : h = hcount /\ h = hcount'
  BY <1>4
<1>6. EdgesHad = h + e /\ EdgesHad' = h + z
  BY <1>1, <1>3, <1>5 DEF EdgesHad
<1>7. EdgesHad \in Nat /\ EdgesHad' = EdgesHad + 1
  BY <1>3, <1>6
<1>8. edges' \in [bus : Nat, peri : Nat]
  BY <1>2
<1> QED
  BY <1>7, <1>8 DEF BusEdge, sync, readout, registers

LEMMA ChainBus ==
  ASSUME TypeOK, BusEdge, NEW p \in BOOLEAN, NEW c \in Chain, NEW d \in Chain,
         d = Next3(c, p), Drains(c), hcount >= HSync => ~p
  PROVE  /\ Drains(d)'
         /\ Seen(p, c) => Seen(p, d) /\ ~Rises(c)
         /\ Coming(p, c) /\ Rises(c) => Seen(p, d)
         /\ Coming(p, c) /\ ~Rises(c) => Coming(p, d)' /\ ~Seen(p, d)
<1>1. d[1] = p /\ d[2] = c[1] /\ d[3] = c[2]
  BY NextChain
<1>2. PICK h \in Nat, m \in Nat :
        h = hcount /\ hcount' = h /\ m = EdgesHad /\ EdgesHad' = m + 1
  <2>1. hcount \in Nat
    BY Geometry DEF TypeOK
  <2>2. hcount' = hcount /\ EdgesHad \in Nat /\ EdgesHad' = EdgesHad + 1
    BY BusClocks
  <2> QED
    BY <2>1, <2>2
<1>3. h >= HSync => \A i \in 1..3 : m >= HSync + i => ~c[i]
  BY <1>2 DEF Drains
<1>4. Drains(d)'
  <2> SUFFICES ASSUME h >= HSync, NEW i \in 1..3, m + 1 >= HSync + i PROVE ~d[i]
    BY <1>2 DEF Drains
  <2>1. CASE i = 1
    BY <1>1, <1>2, <2>1
  <2>2. CASE i = 2
    <3>1. m >= HSync + 1
      BY <2>2, Geometry
    <3> QED
      BY <1>1, <1>3, <2>2, <3>1
  <2>3. CASE i = 3
    <3>1. m >= HSync + 2
      BY <2>3, Geometry
    <3> QED
      BY <1>1, <1>3, <2>3, <3>1
  <2> QED
    BY <2>1, <2>2, <2>3
<1>5. Seen(p, c) => Seen(p, d) /\ ~Rises(c)
  BY <1>1 DEF Seen, Rises
<1>6. Coming(p, c) /\ Rises(c) => Seen(p, d)
  BY <1>1 DEF Coming, Seen, Rises
<1>7. Coming(p, c) /\ ~Rises(c) => Coming(p, d)' /\ ~Seen(p, d)
  <2> SUFFICES ASSUME Coming(p, c), ~Rises(c) PROVE Coming(p, d)' /\ ~Seen(p, d)
    OBVIOUS
  <2>1. CASE p /\ ~c[1] /\ ~c[2] /\ ~c[3] /\ EdgesHad = 0
    <3>1. EdgesHad' <= 1
      BY <1>2, <2>1
    <3> QED
      BY <1>1, <2>1, <3>1 DEF Coming, Seen
  <2>2. CASE c[1] /\ ~c[2] /\ ~c[3] /\ EdgesHad <= 1
    <3>1. EdgesHad' <= 2
      BY <1>2, <2>2
    <3> QED
      BY <1>1, <2>2, <3>1 DEF Coming, Seen
  <2> QED
    BY <2>1, <2>2 DEF Coming, Rises
<1> QED
  BY <1>4, <1>5, <1>6, <1>7

(* A start is seen early in the line that it is of.                        *)
LEMMA BusChain ==
  ASSUME VInv, BusEdge
  PROVE  /\ ChainInv'
         /\ Framestart => vcount = 0 /\ hcount <= 2 /\ hcount < HEnd /\ Seen(frame, fs)'
         /\ Linestart => /\ scanena /\ Visible /\ hcount <= 2 /\ hcount < HEnd
                         /\ ~Seen(line, ls) /\ Seen(line, ls)'
         /\ ~Framestart => (Seen(frame, fs)' <=> Seen(frame, fs))
         /\ ~Linestart => (Seen(line, ls)' <=> Seen(line, ls))
<1>0. /\ TypeOK /\ frame' = frame /\ line' = line /\ scanena' = scanena /\ vcount' = vcount
      /\ hcount' = hcount
  BY BusClocks DEF VInv
<1>1. PICK f \in Chain, l \in Chain, p \in BOOLEAN, s \in BOOLEAN :
        f = fs /\ l = ls /\ p = frame /\ s = line /\ p = frame' /\ s = line'
  BY <1>0 DEF TypeOK
<1>2. PICK g \in Chain, k \in Chain : g = fs' /\ k = ls' /\ g = Next3(f, p) /\ k = Next3(l, s)
  BY <1>1, NextChain DEF BusEdge
<1>3. /\ Drains(f) /\ (Seen(p, f) \/ (Coming(p, f) /\ vcount = 0))
      /\ Drains(l) /\ (Seen(s, l) \/ (Coming(s, l) /\ scanena /\ Visible))
  BY <1>1 DEF VInv, ChainInv
<1>4. hcount >= HSync => ~p /\ ~s
  <2>1. hcount >= HSync => ~(hcount < HSync)
    BY Geometry DEF VInv, TypeOK
  <2> QED
    BY <1>1, <2>1 DEF VInv, SyncInv
<1>5. /\ Drains(g)'
      /\ Seen(p, f) => Seen(p, g) /\ ~Rises(f)
      /\ Coming(p, f) /\ Rises(f) => Seen(p, g)
      /\ Coming(p, f) /\ ~Rises(f) => Coming(p, g)' /\ ~Seen(p, g)
  BY <1>0, <1>2, <1>3, <1>4, ChainBus
<1>6. /\ Drains(k)'
      /\ Seen(s, l) => Seen(s, k) /\ ~Rises(l)
      /\ Coming(s, l) /\ Rises(l) => Seen(s, k)
      /\ Coming(s, l) /\ ~Rises(l) => Coming(s, k)' /\ ~Seen(s, k)
  BY <1>0, <1>2, <1>3, <1>4, ChainBus
<1>7. Visible' <=> Visible
  BY <1>0 DEF Visible
<1>8. (Framestart <=> Rises(f)) /\ (Linestart <=> Rises(l))
  BY <1>1 DEF Framestart, Linestart
<1>9. /\ Coming(p, f) => hcount <= 2 /\ hcount < HEnd /\ ~Seen(p, f)
      /\ Coming(s, l) => hcount <= 2 /\ hcount < HEnd /\ ~Seen(s, l)
  BY <1>0, ComingEarly
<1>10. /\ Seen(frame, fs) <=> Seen(p, f)
       /\ Seen(line, ls) <=> Seen(s, l)
       /\ Seen(frame, fs)' <=> Seen(p, g)
       /\ Seen(line, ls)' <=> Seen(s, k)
  BY <1>1, <1>2 DEF Seen
<1>11. ChainInv'
  <2>1. Seen(p, g) \/ (Coming(p, g)' /\ vcount' = 0)
    BY <1>0, <1>3, <1>5
  <2>2. Seen(s, k) \/ (Coming(s, k)' /\ scanena' /\ Visible')
    BY <1>0, <1>3, <1>6, <1>7
  <2> QED
    BY <1>1, <1>2, <1>5, <1>6, <2>1, <2>2 DEF ChainInv, Drains, Coming, Seen
<1> QED
  BY <1>3, <1>5, <1>6, <1>8, <1>9, <1>10, <1>11

(* The reader after an edge, by whether a line starts.                     *)
LEMMA BusReader ==
  ASSUME VInv, BusEdge
  PROVE  /\ avm = "IDLE" /\ Linestart =>
              avm' = "READ_ISSUE" /\ addr' = topaddr + lineoffs /\ datacount' = 0 /\ buffer' = buffer
         /\ ~(avm = "IDLE" /\ Linestart) => addr' = addr /\ datacount' \in {datacount, datacount + 1}
         /\ ~Linestart /\ ~Framestart => late' = late
         /\ Linestart /\ ~Framestart => late' = (IF avm = "IDLE" THEN late ELSE "line")
         /\ late' \in {late, "none", "line"}
<1>1. Linestart /\ avm = "IDLE" =>
        avm' = "READ_ISSUE" /\ addr' = topaddr + lineoffs /\ datacount' = 0 /\ buffer' = buffer
  BY DEF BusEdge, StartLine, Issue, Receive, Idle
<1>2. ~(avm = "IDLE" /\ Linestart) => addr' = addr /\ datacount' \in {datacount, datacount + 1}
  BY DEF BusEdge, StartLine, Issue, Receive, Idle
<1>3. late' = (CASE Framestart -> "none" [] Linestart /\ avm # "IDLE" -> "line" [] OTHER -> late)
  BY DEF BusEdge
<1> QED
  BY <1>1, <1>2, <1>3

LEMMA BusType ==
  ASSUME VInv, BusEdge
  PROVE  TypeOK' /\ FillInv'
<1>0. TypeOK /\ FillInv
  BY DEF VInv
<1>1. /\ addr \in Int /\ lineoffs \in Int /\ topaddr \in Int /\ framebuff \in Pages \union {0}
      /\ datacount \in 0..BURSTCYCLE /\ buffer \in [0..BURSTCYCLE - 1 -> Int]
      /\ avm \in {"IDLE", "READ_ISSUE", "DATA_READ"} /\ Offset \in Int /\ BURSTCYCLE \in Nat
  BY <1>0, Geometry, VgaAssumption DEF TypeOK
<1>2. fs' \in Chain /\ ls' \in Chain
  BY <1>0, NextChain DEF BusEdge, TypeOK
<1>3. topaddr' \in Pages \union {0} /\ lineoffs' \in Int /\ was' \in Nat
  BY <1>1 DEF BusEdge, LineOffset
<1>4. late' \in {"none", "word", "line"}
  BY <1>0, BusReader DEF TypeOK
<1>5. /\ avm' \in {"IDLE", "READ_ISSUE", "DATA_READ"} /\ datacount' \in 0..BURSTCYCLE
      /\ addr' \in Int /\ buffer' \in [0..BURSTCYCLE - 1 -> Int]
      /\ FillInv'
  <2>1. CASE StartLine
    <3>1. avm' = "READ_ISSUE" /\ addr' = topaddr + lineoffs /\ datacount' = 0 /\ buffer' = buffer
      BY <2>1 DEF StartLine
    <3>2. FillInv'
      BY <3>1 DEF FillInv
    <3> QED
      BY <1>1, <3>1, <3>2
  <2>2. CASE Issue
    <3>1. datacount = 0 /\ avm' = "DATA_READ" /\ UNCHANGED <<addr, datacount, buffer>>
      BY <1>0, <2>2 DEF Issue, FillInv
    <3>2. FillInv'
      BY <1>0, <3>1, Geometry DEF FillInv
    <3> QED
      BY <1>1, <3>1, <3>2
  <2>3. CASE Receive
    <3>1. PICK d \in 0..BURSTCYCLE - 1, a \in Int : d = datacount /\ a = addr
      BY <1>0, <1>1, <2>3 DEF Receive, FillInv
    <3>2. /\ avm = "DATA_READ" /\ buffer' = [buffer EXCEPT ![d] = a + d] /\ datacount' = d + 1
          /\ avm' = (IF d = BURSTCYCLE - 1 THEN "IDLE" ELSE "DATA_READ") /\ addr' = a
      BY <2>3, <3>1 DEF Receive
    <3>3. /\ buffer' \in [0..BURSTCYCLE - 1 -> Int]
          /\ buffer'[d] = a + d
          /\ \A k \in 0..BURSTCYCLE - 1 : k # d => buffer'[k] = buffer[k]
      BY <1>1, <3>1, <3>2
    <3>4. \A k \in 0..d - 1 : buffer[k] = a + k
      BY <1>0, <3>1 DEF FillInv
    <3>5. \A k \in 0..d : buffer'[k] = a + k
      BY <1>1, <3>1, <3>3, <3>4
    <3>6. (d + 1) - 1 = d /\ d + 1 \in 0..BURSTCYCLE /\ (d # BURSTCYCLE - 1 => d + 1 < BURSTCYCLE)
      BY <1>1, <3>1
    <3>7. FillInv'
      BY <3>2, <3>5, <3>6 DEF FillInv
    <3> QED
      BY <3>2, <3>3, <3>6, <3>7
  <2>4. CASE Idle
    BY <1>0, <1>1, <2>4 DEF Idle, FillInv
  <2> QED
    BY <2>1, <2>2, <2>3, <2>4 DEF BusEdge
<1>6. TypeOK'
  BY <1>0, <1>2, <1>3, <1>4, <1>5, BusClocks DEF TypeOK
<1> QED
  BY <1>5, <1>6

LEMMA BusOffset ==
  ASSUME VInv, BusEdge
  PROVE  OffsetInv' /\ RowInv'
<1>0. /\ UNCHANGED <<hcount, vcount, scanena>> /\ (Visible' <=> Visible)
      /\ (Shown' <=> Shown) /\ Row' = Row
  BY BusClocks DEF VInv, Visible, Shown, Row
<1>1. /\ Framestart => vcount = 0 /\ hcount <= 2 /\ hcount < HEnd /\ Seen(frame, fs)'
      /\ Linestart => /\ scanena /\ Visible /\ hcount <= 2 /\ hcount < HEnd
                      /\ ~Seen(line, ls) /\ Seen(line, ls)'
      /\ ~Framestart => (Seen(frame, fs)' <=> Seen(frame, fs))
      /\ ~Linestart => (Seen(line, ls)' <=> Seen(line, ls))
  BY BusChain
<1>2. lineoffs' = (IF Framestart THEN 0
                   ELSE IF avm = "IDLE" /\ Linestart THEN lineoffs + Offset ELSE lineoffs)
  BY DEF BusEdge, LineOffset
<1>3. OffsetInv /\ RowInv /\ TypeOK
  BY DEF VInv
<1>4. vcount \in Nat /\ Offset \in Nat /\ lineoffs \in Int /\ VStart \in Nat /\ VStart >= 1
  BY <1>3, Geometry DEF TypeOK
<1>5. Visible => vcount >= VStart /\ vcount # 0 /\ ~Framestart
  BY <1>1, <1>4, Geometry DEF Visible
<1>6. vcount' \in 1..VStart - 1 => lineoffs' = 0
  <2> SUFFICES ASSUME vcount \in 1..VStart - 1 PROVE lineoffs' = 0
    BY <1>0
  <2>1. ~Visible
    BY <1>4, <1>5
  <2> QED
    BY <1>1, <1>2, <1>3, <2>1 DEF OffsetInv
<1>7. vcount' = 0 /\ hcount' < HEnd /\ Seen(frame, fs)' => lineoffs' = 0
  <2> SUFFICES ASSUME vcount = 0, hcount < HEnd, Seen(frame, fs)' PROVE lineoffs' = 0
    BY <1>0
  <2>1. ~Linestart
    BY <1>1, <1>5
  <2> QED
    BY <1>1, <1>2, <1>3, <2>1 DEF OffsetInv
<1>8. scanena' /\ late' # "line" /\ Visible' => lineoffs' = RowsBegun' * Offset
  <2> SUFFICES ASSUME scanena, late' # "line", Visible PROVE lineoffs' = RowsBegun' * Offset
    BY <1>0
  <2>1. ~Framestart
    BY <1>5
  <2>2. CASE Linestart
    <3>1. avm = "IDLE" /\ late # "line"
      BY <2>1, <2>2, BusReader
    <3>2. lineoffs = RowsBegun * Offset
      BY <1>3, <3>1 DEF OffsetInv
    <3>3. ~Begun /\ Begun'
      BY <1>0, <1>1, <2>2 DEF Begun
    <3>4. PICK r \in Int : r = vcount - VStart
      BY <1>4
    <3>5. RowsBegun = r /\ RowsBegun' = r + 1
      BY <1>0, <3>3, <3>4 DEF RowsBegun
    <3>6. lineoffs' = lineoffs + Offset
      BY <1>2, <2>1, <2>2, <3>1
    <3>7. (r + 1) * Offset = r * Offset + Offset
      BY <1>4
    <3> QED
      BY <3>2, <3>5, <3>6, <3>7
  <2>3. CASE ~Linestart
    <3>1. late # "line"
      BY <2>1, <2>3, BusReader
    <3>2. lineoffs = RowsBegun * Offset
      BY <1>3, <3>1 DEF OffsetInv
    <3>3. RowsBegun' = RowsBegun
      BY <1>0, <1>1, <2>3 DEF RowsBegun, Begun
    <3> QED
      BY <1>2, <2>1, <2>3, <3>2, <3>3
  <2> QED
    BY <2>2, <2>3
<1>9. RowInv'
  <2> SUFFICES ASSUME scanena, late' # "line", Shown, hcount >= HEnd \/ Seen(line, ls)'
               PROVE  \E p \in Pages \union {0} : addr' = p + Row * Offset
    BY <1>0 DEF RowInv
  <2>1. ~Framestart
    <3> SUFFICES ASSUME Framestart PROVE FALSE
      OBVIOUS
    <3>1. vcount = 0 /\ hcount < HEnd
      BY <1>1
    <3>2. ~(hcount >= HEnd)
      BY <1>3, <3>1, Geometry DEF TypeOK
    <3>3. Row = 0 - VStart
      BY <3>1, <3>2 DEF Row
    <3> QED
      BY <1>4, <3>3, Geometry DEF Shown
  <2>2. CASE Linestart
    <3>1. avm = "IDLE" /\ late # "line" /\ Visible /\ scanena
      BY <1>1, <2>1, <2>2, BusReader
    <3>2. lineoffs = RowsBegun * Offset
      BY <1>3, <3>1 DEF OffsetInv
    <3>3. ~Begun /\ ~(hcount >= HEnd)
      BY <1>1, <1>3, <2>2, Geometry DEF Begun, TypeOK
    <3>4. RowsBegun = vcount - VStart + 0 /\ Row = vcount - VStart
      BY <3>3 DEF RowsBegun, Row
    <3>5. RowsBegun = Row
      BY <1>4, <3>4
    <3>6. addr' = topaddr + lineoffs
      BY <2>2, <3>1, BusReader
    <3> QED
      BY <1>3, <3>2, <3>5, <3>6 DEF TypeOK
  <2>3. CASE ~Linestart
    <3>1. late # "line" /\ addr' = addr
      BY <2>1, <2>3, BusReader
    <3>2. hcount >= HEnd \/ Seen(line, ls)
      BY <1>1, <2>3
    <3> QED
      BY <1>3, <3>1, <3>2 DEF RowInv
  <2> QED
    BY <2>2, <2>3
<1> QED
  BY <1>6, <1>7, <1>8, <1>9 DEF OffsetInv

LEMMA BusPipe ==
  ASSUME VInv, BusEdge
  PROVE  PipeInv'
<1>0. /\ UNCHANGED <<hcount, vcount, scanena, de, valid, pixeladdr, ramaddr, q, rout>>
      /\ (Shown' <=> Shown) /\ TypeOK /\ PipeInv
  BY BusClocks DEF VInv, Shown, Row
<1>1. \A i \in {0, 1, 2, 3} : PixelOf(i)' = PixelOf(i)
  BY <1>0 DEF PixelOf
<1>2. hcount \in Nat /\ datacount \in Nat
  BY <1>0, Geometry DEF TypeOK
<1>3. ASSUME NEW i \in 1..3, valid[i]
      PROVE  /\ late' = late /\ addr' = addr /\ datacount' \in {datacount, datacount + 1}
  <2>1. hcount - i \in HStart..HEnd - 1
    BY <1>0, <1>3 DEF PipeInv
  <2>2. ~(hcount <= 2)
    BY <1>2, <2>1, Geometry
  <2>3. ~Linestart /\ ~Framestart
    BY <2>2, BusChain
  <2> QED
    BY <2>3, BusReader
<1>4. late' = "none" /\ valid[1] => datacount' > PixelOf(1)' \div 2
  <2> SUFFICES ASSUME late' = "none", valid[1] PROVE datacount' > PixelOf(1) \div 2
    BY <1>1
  <2>1. late = "none" /\ datacount' \in {datacount, datacount + 1}
    BY <1>3
  <2>2. datacount > PixelOf(1) \div 2 /\ ramaddr = PixelOf(1) /\ ramaddr \in Nat
    BY <1>0, <2>1 DEF PipeInv, TypeOK
  <2>3. PICK d \in Nat, x \in Nat : d = datacount /\ x = PixelOf(1) \div 2 /\ d > x
    BY <1>2, <2>2
  <2> QED
    BY <2>1, <2>3
<1>5. late' = "none" /\ valid[2] => q = <<addr' + PixelOf(2) \div 2, PixelOf(2) % 2>>
  BY <1>0, <1>3 DEF PipeInv
<1>6. late' = "none" /\ valid[3] => rout = <<addr' + PixelOf(3) \div 2, PixelOf(3) % 2>>
  BY <1>0, <1>3 DEF PipeInv
<1> QED
  BY <1>0, <1>1, <1>4, <1>5, <1>6 DEF PipeInv

LEMMA BusKeeps == VInv /\ BusEdge => VInv'
<1> SUFFICES ASSUME VInv, BusEdge PROVE VInv'
  OBVIOUS
<1>1. SyncInv'
  BY BusClocks DEF VInv, SyncInv, Visible
<1>2. ProgramInv'
  BY BusClocks DEF VInv, ProgramInv
<1> QED
  BY <1>1, <1>2, BusType, BusChain, BusOffset, BusPipe DEF VInv
------------------------------------------------------------------------------
(* An edge of the peripheral clock, at which the program has its turn: of  *)
(* the picture it changes only the framebuffer there will be next.         *)
LEMMA PeriRegisters ==
  ASSUME TypeOK, ProgramInv, PeriEdge
  PROVE  /\ ProgramInv'
         /\ ovr' \in Chain /\ ovrerr' \in BOOLEAN /\ scan_reg' \in BOOLEAN
         /\ framebuff' \in Pages \union {0} /\ pc' \in {"init", "off", "buffer", "on", "end", "done"}
         /\ status' \in [read : BOOLEAN, ovrerr : BOOLEAN, scan : BOOLEAN]
<1>1. /\ ovr \in Chain /\ overrun \in BOOLEAN /\ ovrerr \in BOOLEAN /\ scan_reg \in BOOLEAN
      /\ framebuff \in Pages \union {0} /\ pc \in {"init", "off", "buffer", "on", "end", "done"}
      /\ status \in [read : BOOLEAN, ovrerr : BOOLEAN, scan : BOOLEAN]
  BY DEF TypeOK
<1>2. ovr' \in Chain
  BY <1>1, NextChain DEF PeriEdge
<1>3. ASSUME NEW c \in BOOLEAN PROVE OvrErr(c) \in BOOLEAN
  BY DEF OvrErr
<1>4. status.ovrerr \in BOOLEAN /\ status.scan \in BOOLEAN
  BY <1>1
<1>5. ovrerr' \in BOOLEAN
  BY <1>3, <1>4 DEF PeriEdge
<1>6. pc # "done" => After[pc] \in {"init", "off", "buffer", "on", "end", "done"}
  BY <1>1 DEF After
<1>7. CASE None
  BY <1>1, <1>2, <1>5, <1>7 DEF None, ProgramInv
<1>8. CASE SetBuffer
  <2>1. After[pc] = "on"
    BY <1>8 DEF SetBuffer, After
  <2> QED
    BY <1>1, <1>2, <1>5, <1>8, <2>1 DEF SetBuffer, ProgramInv
<1>9. CASE ReadControl
  <2>1. pc \notin {"buffer", "done"} /\ UNCHANGED <<scan_reg, framebuff, pc>>
    BY <1>9 DEF ReadControl
  <2>2. status' \in [read : BOOLEAN, ovrerr : BOOLEAN, scan : BOOLEAN]
    BY <1>1, <1>9 DEF ReadControl
  <2> QED
    BY <1>1, <1>2, <1>5, <2>1, <2>2 DEF ProgramInv
<1>10. CASE WriteControl
  <2>1. pc \notin {"buffer", "done"} /\ scan_reg' = Written(pc) /\ pc' = After[pc]
    BY <1>10 DEF WriteControl, ProgramInv
  <2>2. Written(pc) \in BOOLEAN
    <3>1. pc \in {"init", "off", "on", "end"}
      BY <1>1, <2>1
    <3>2. pc = "init" => Written(pc) = status.scan
      BY DEF Written
    <3>3. pc \in {"off", "end"} => Written(pc) = FALSE
      BY DEF Written
    <3>4. pc = "on" => Written(pc) = TRUE
      BY DEF Written
    <3> QED
      BY <1>4, <3>1, <3>2, <3>3, <3>4 DEF Written
  <2>3. /\ status' = [read |-> FALSE, ovrerr |-> FALSE, scan |-> FALSE]
        /\ framebuff' = framebuff
    BY <1>10 DEF WriteControl
  <2>4. status'.read = FALSE
    BY <2>3
  <2> QED
    BY <1>1, <1>2, <1>5, <1>6, <2>1, <2>2, <2>3, <2>4 DEF ProgramInv
<1> QED
  BY <1>7, <1>8, <1>9, <1>10 DEF PeriEdge

LEMMA PeriKeeps == VInv /\ PeriEdge => VInv'
<1> SUFFICES ASSUME VInv, PeriEdge PROVE VInv'
  OBVIOUS
<1>0. /\ TypeOK /\ SyncInv /\ ChainInv /\ OffsetInv /\ RowInv /\ FillInv /\ PipeInv
      /\ ProgramInv
  BY DEF VInv
<1>1. /\ UNCHANGED <<hcount, vcount, scan_in, scanena, frame, line, hblank, vblank>>
      /\ UNCHANGED <<de, valid, pixeladdr, ramaddr, q, rout, pixelcount, overrun>>
      /\ UNCHANGED <<fs, ls, avm, datacount, addr, topaddr, lineoffs, buffer, was, late>>
  BY DEF PeriEdge, sync, readout, reader
<1>2. edges' \in [bus : Nat, peri : Nat] /\ EdgesHad' = EdgesHad
  <2>1. PICK b \in Nat, p \in Nat : b = edges.bus /\ edges = [bus |-> b, peri |-> p]
    BY <1>0 DEF TypeOK
  <2>2. edges' = [bus |-> b, peri |-> p + 1]
    BY <2>1 DEF PeriEdge
  <2>3. edges'.bus = b
    BY <2>2
  <2>4. edges' \in [bus : Nat, peri : Nat]
    BY <2>2
  <2> QED
    BY <1>1, <2>1, <2>3, <2>4 DEF EdgesHad
<1>3. TypeOK' /\ ProgramInv'
  BY <1>0, <1>1, <1>2, PeriRegisters DEF TypeOK
<1>4. (Visible' <=> Visible) /\ Row' = Row /\ (Shown' <=> Shown)
  BY <1>1 DEF Visible, Row, Shown
<1>5. SyncInv'
  BY <1>0, <1>1, <1>4 DEF SyncInv
<1>6. ChainInv'
  BY <1>0, <1>1, <1>2, <1>4 DEF ChainInv, Seen, Coming, Drains
<1>7. OffsetInv' /\ RowInv'
  BY <1>0, <1>1, <1>4 DEF OffsetInv, RowInv, RowsBegun, Begun, Seen
<1>8. FillInv' /\ PipeInv'
  BY <1>0, <1>1, <1>4 DEF FillInv, PipeInv, PixelOf
<1> QED
  BY <1>3, <1>5, <1>6, <1>7, <1>8 DEF VInv
------------------------------------------------------------------------------
LEMMA InitVga == Init => VInv
<1> SUFFICES ASSUME Init PROVE VInv
  OBVIOUS
<1>1. /\ hcount = HTotal - 1 /\ vcount = VTotal - 1
      /\ scanena = FALSE /\ frame = FALSE /\ line = FALSE /\ hblank = TRUE /\ vblank = TRUE
      /\ de = <<FALSE, FALSE, FALSE>> /\ valid = <<FALSE, FALSE, FALSE>>
      /\ fs = <<FALSE, FALSE, FALSE>> /\ ls = <<FALSE, FALSE, FALSE>>
  BY DEF Init
<1>2. hcount \in Nat /\ vcount \in Nat /\ hcount >= HEnd + 3 /\ hcount >= HSync
      /\ vcount >= VStart + VActive
  BY <1>1, Geometry
<1>3. <<FALSE, FALSE, FALSE>> \in Chain
  BY DEF Chain
<1>4. TypeOK
  <2>1. hcount \in 0..HTotal - 1 /\ vcount \in 0..VTotal - 1
    BY <1>1, <1>2, Geometry
  <2>2. Black \in Int \X Int
    BY DEF Black
  <2>3. buffer \in [0..BURSTCYCLE - 1 -> Int]
    BY DEF Init
  <2>4. 0 \in 0..BURSTCYCLE
    BY Geometry
  <2> QED
    <3>1. /\ hcount \in 0..HTotal - 1 /\ vcount \in 0..VTotal - 1
          /\ {scan_in, scanena, frame, line, hblank, vblank, overrun, ovrerr, scan_reg}
               \subseteq BOOLEAN
      BY <2>1 DEF Init
    <3>2. /\ de \in Chain /\ valid \in Chain /\ fs \in Chain /\ ls \in Chain /\ ovr \in Chain
          /\ q \in Int \X Int /\ rout \in Int \X Int
      BY <1>3, <2>2 DEF Init
    <3>3. /\ pixeladdr \in Nat /\ ramaddr \in Nat /\ pixelcount \in Nat
          /\ avm \in {"IDLE", "READ_ISSUE", "DATA_READ"} /\ datacount \in 0..BURSTCYCLE
          /\ was \in Nat /\ addr \in Int /\ lineoffs \in Int
      BY <2>4 DEF Init
    <3>4. /\ framebuff \in Pages \union {0} /\ topaddr \in Pages \union {0}
          /\ pc \in {"init", "off", "buffer", "on", "end", "done"}
          /\ status \in [read : BOOLEAN, ovrerr : BOOLEAN, scan : BOOLEAN]
          /\ edges \in [bus : Nat, peri : Nat] /\ late \in {"none", "word", "line"}
      BY DEF Init
    <3> QED
      BY <2>3, <3>1, <3>2, <3>3, <3>4 DEF TypeOK
<1>5. ~Visible
  BY <1>2, Geometry DEF Visible
<1>6. SyncInv
  <2>1. hcount \notin HStart..HEnd - 1
    BY <1>2, Geometry
  <2>2. ~(hcount < HSync)
    BY <1>2, Geometry
  <2> QED
    BY <1>1, <1>5, <2>1, <2>2 DEF SyncInv
<1>7. ChainInv
  BY <1>1 DEF ChainInv, Seen, Drains
<1>8. OffsetInv
  BY <1>1, <1>2 DEF OffsetInv, Init
<1>9. RowInv
  BY <1>1 DEF RowInv
<1>10. FillInv
  BY DEF FillInv, Init
<1>11. PipeInv
  <2>1. \A i \in 1..3 : hcount - i \notin HStart..HEnd - 1
    BY <1>2, Geometry
  <2> QED
    BY <1>1, <2>1 DEF PipeInv, Init
<1>12. ProgramInv
  BY DEF ProgramInv, Init
<1> QED
  BY <1>4, <1>6, <1>7, <1>8, <1>9, <1>10, <1>11, <1>12 DEF VInv

LEMMA NextKeeps == VInv /\ [Next]_vars => VInv'
<1> SUFFICES ASSUME VInv, [Next]_vars PROVE VInv'
  OBVIOUS
<1>1. CASE VideoEdge
  BY <1>1, VideoKeeps
<1>2. CASE BusEdge
  BY <1>2, BusKeeps
<1>3. CASE PeriEdge
  BY <1>3, PeriKeeps
<1>4. CASE UNCHANGED vars
  <2>1. /\ TypeOK /\ SyncInv /\ ChainInv /\ OffsetInv /\ RowInv /\ FillInv /\ PipeInv
        /\ ProgramInv
    BY DEF VInv
  <2>2. UNCHANGED <<sync, readout, reader, registers, edges, late>>
    BY <1>4 DEF vars
  <2>3. TypeOK' /\ ProgramInv'
    BY <2>1, <2>2 DEF TypeOK, ProgramInv, sync, readout, reader, registers
  <2>4. (Visible' <=> Visible) /\ Row' = Row /\ (Shown' <=> Shown) /\ EdgesHad' = EdgesHad
    BY <2>2 DEF Visible, Row, Shown, EdgesHad, sync
  <2>5. SyncInv' /\ ChainInv'
    BY <2>1, <2>2, <2>4 DEF SyncInv, ChainInv, Seen, Coming, Drains, sync, reader
  <2>6. OffsetInv' /\ RowInv'
    BY <2>1, <2>2, <2>4 DEF OffsetInv, RowInv, RowsBegun, Begun, Seen, sync, reader
  <2>7. FillInv' /\ PipeInv'
    BY <2>1, <2>2, <2>4 DEF FillInv, PipeInv, PixelOf, sync, readout, reader
  <2> QED
    BY <2>3, <2>5, <2>6, <2>7 DEF VInv
<1> QED
  BY <1>1, <1>2, <1>3, <1>4 DEF Next

(* The invariant of the three clocks (vga_syncgen.vhd, vga_avm.vhd,        *)
(* vga_component.vhd): blanking and pulses as the counters say, each pulse *)
(* on its way to the reader or seen by it, the reader's address at the row *)
(* of the line it was told of, the readout's registers a pixel apart.      *)
THEOREM VgaInvariance == Spec => []VInv
<1>1. Init => VInv
  BY InitVga
<1>2. VInv /\ [Next]_vars => VInv'
  BY NextKeeps
<1> QED
  BY <1>1, <1>2, PTL DEF Spec

(* The registers stay in the widths they are declared with.                *)
THEOREM TypeCorrect == Spec => []TypeOK
<1>1. VInv => TypeOK
  BY DEF VInv
<1> QED
  BY <1>1, VgaInvariance, PTL

LEMMA RowIsShown == VInv => PictureRight
<1> SUFFICES ASSUME VInv, de[3], late = "none" PROVE
      LET x == hcount - HStart - 3
          y == IF hcount >= HEnd THEN vcount - 1 - VStart ELSE vcount - VStart
      IN IF scanena
         THEN \E p \in Pages \union {0} :
                addr = p + y * Offset /\ rout = <<addr + x \div 2, x % 2>>
         ELSE rout = Black
  BY DEF PictureRight
<1>1. hcount - 3 \in HStart..HEnd - 1 /\ Shown /\ (valid[3] <=> scanena)
  BY DEF VInv, PipeInv
<1>2. hcount \in Nat
  BY Geometry DEF VInv, TypeOK
<1>3. ASSUME scanena PROVE Seen(line, ls)
  <2>1. ~(hcount <= 2)
    BY <1>1, <1>2, Geometry
  <2>2. ~Coming(line, ls)
    <3>1. TypeOK /\ ls \in Chain
      BY DEF VInv, TypeOK
    <3> QED
      BY <2>1, <3>1, ComingEarly
  <2> QED
    BY <2>2 DEF VInv, ChainInv
<1>4. PixelOf(3) = hcount - HStart - 3
  BY <1>2, Geometry DEF PixelOf
<1>5. CASE scanena
  <2>1. PICK p \in Pages \union {0} : addr = p + Row * Offset
    BY <1>1, <1>3, <1>5 DEF VInv, RowInv
  <2>2. rout = <<addr + PixelOf(3) \div 2, PixelOf(3) % 2>>
    BY <1>1, <1>5 DEF VInv, PipeInv
  <2> QED
    BY <1>4, <1>5, <2>1, <2>2 DEF Row
<1>6. CASE ~scanena
  BY <1>1, <1>6 DEF VInv, PipeInv
<1> QED
  BY <1>5, <1>6

(* Whatever the memory's lateness and the drift of the clocks, in a frame  *)
(* that lost no line a row whose words came in time is shown whole, from   *)
(* one framebuffer and at its place (vga_component.vhd:291-301, the sync   *)
(* signals delayed by as much as the pixels are).                          *)
THEOREM PictureCorrect == Spec => []PictureRight
<1>1. VInv => PictureRight
  BY RowIsShown
<1> QED
  BY <1>1, VgaInvariance, PTL
=============================================================================
