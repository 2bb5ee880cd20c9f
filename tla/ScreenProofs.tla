---------------------------- MODULE ScreenProofs -----------------------------
(* The wallpaper is on the screen as far as it could be read, and survives *)
(* the level display: for every window, bitmap and sound.                  *)
EXTENDS ScreenInv, TLAPS

LEMMA Geometry ==
  /\ XSize \in Nat /\ XSize > 0 /\ YSize \in Nat /\ Edge \in Nat /\ Half \in Nat /\ Half >= 2
  /\ RowDiv \in Nat /\ RowDiv > 0 /\ Glow \in Nat /\ Top \in Nat
  /\ YSize - Top = 2 * (Edge + Half)
BY EglAssumption, ScreenAssumption DEF Top

LEMMA Place ==
  ASSUME NEW p \in Window
  PROVE  p[1] \in 0..XSize - 1 /\ p[2] \in 0..YSize - 1 /\ p = <<p[1], p[2]>>
BY DEF Window

LEMMA Levels ==
  ASSUME NEW v \in Int
  PROVE  SetPixel(v) \in 0..31
<1>1. v % 256 \in 0..255
  OBVIOUS
<1>2. PICK m \in 0..255 : m = v % 256
  BY <1>1
<1>3. m \div 8 \in 0..31
  OBVIOUS
<1> QED
  BY <1>2, <1>3 DEF SetPixel

(* Quotient and remainder of an offset in rows of n bytes.                 *)
LEMMA InRow ==
  ASSUME NEW n \in Nat, NEW r \in Nat, NEW k \in 0..n - 1
  PROVE  (n * r + k) \div n = r /\ (n * r + k) % n = k
<1>1. n > 0 /\ k \in Nat /\ n * r \in Nat
  OBVIOUS
<1>2. PICK a \in Nat : a = n * r + k
  BY <1>1
<1>3. PICK q \in Int, m \in Int : q = a \div n /\ m = a % n /\ a = n * q + m /\ m \in 0..n - 1
  BY <1>1
<1>4. q = r
  <2>1. n * (q - r) = k - m
    BY <1>1, <1>2, <1>3
  <2>2. CASE q - r >= 1
    <3>1. n * (q - r) >= n
      BY <1>1, <2>2
    <3> QED
      BY <1>3, <2>1, <3>1
  <2>3. CASE q - r <= -1
    <3>1. n * (q - r) <= -n
      BY <1>1, <2>3
    <3> QED
      BY <1>3, <2>1, <3>1
  <2> QED
    BY <2>2, <2>3
<1>5. m = k
  BY <1>1, <1>2, <1>3, <1>4
<1> QED
  BY <1>2, <1>3, <1>4, <1>5
------------------------------------------------------------------------------
(* A row of a bitmap.                                                      *)
LEMMA Bitmaps ==
  ASSUME NEW f \in Bmps
  PROVE  /\ f.bpp \in Nat /\ f.xsize \in Nat /\ f.ysize \in Nat /\ f.len \in Nat
         /\ f.pixel \in [(0..f.xsize - 1) \X (0..f.ysize - 1) -> 0..255]
<1>1. Bitmap(f)
  BY ScreenAssumption
<1> QED
  BY <1>1 DEF Bitmap

LEMMA Strides ==
  ASSUME NEW f \in Bmps, f.bpp \in {16, 24, 32}
  PROVE  /\ Line(f.xsize, f.bpp) = Stride(f) /\ Stride(f) \in Nat
         /\ f.bpp \div 8 \in 2..4 /\ f.xsize * (f.bpp \div 8) <= Stride(f)
<1>1. f.xsize \in Nat
  BY Bitmaps
<1>2. PICK b \in 2..4 : f.bpp = 8 * b /\ f.bpp \div 8 = b
  <2>1. 16 \div 8 = 2 /\ 24 \div 8 = 3 /\ 32 \div 8 = 4
    OBVIOUS
  <2>2. CASE f.bpp = 16
    BY <2>1, <2>2
  <2>3. CASE f.bpp = 24
    BY <2>1, <2>3
  <2>4. CASE f.bpp = 32
    BY <2>1, <2>4
  <2> QED
    BY <2>2, <2>3, <2>4
<1>3. PICK w \in Nat : w = f.xsize
  BY <1>1
<1>4. PICK l \in Nat : l = w * b
  OBVIOUS
<1>5. (w * f.bpp) \div 8 = l
  <2>1. w * f.bpp = 8 * l
    BY <1>2, <1>4
  <2>2. (8 * l) \div 8 = l
    OBVIOUS
  <2> QED
    BY <2>1, <2>2
<1>6. (IF l % 4 # 0 THEN ((l \div 4) + 1) * 4 ELSE l) = ((l + 3) \div 4) * 4
  OBVIOUS
<1>7. ((l + 3) \div 4) * 4 >= l /\ ((l + 3) \div 4) * 4 \in Nat
  OBVIOUS
<1>8. Stride(f) = ((l + 3) \div 4) * 4
  BY <1>3, <1>5 DEF Stride
<1>9. Line(f.xsize, f.bpp) = (IF l % 4 # 0 THEN ((l \div 4) + 1) * 4 ELSE l)
  BY <1>3, <1>5 DEF Line
<1> QED
  BY <1>2, <1>3, <1>4, <1>6, <1>7, <1>8, <1>9

(* What loadbmp takes for pixel x of row y, when the file has all of the   *)
(* row, is what the picture has there.                                     *)
LEMMA RowRead ==
  ASSUME NEW f \in Bmps, f.bpp \in {16, 24, 32},
         NEW y \in Nat, y < f.ysize, 54 + Stride(f) * (f.ysize - y) <= f.len,
         NEW x \in Nat, x < Cut(f),
         NEW buf, DOMAIN buf = 0..4 * XSize - 1
  PROVE  Read(f, buf, y, Cut(f) * (f.bpp \div 8))[x * (f.bpp \div 8)] = f.pixel[<<x, y>>]
<1>1. PICK b \in 2..4, n \in Nat, w \in Nat, h \in Nat, l \in Nat :
        /\ b = f.bpp \div 8 /\ n = Stride(f) /\ w = f.xsize /\ h = f.ysize /\ l = f.len
        /\ Line(w, f.bpp) = n /\ w * b <= n
  BY Bitmaps, Strides
<1>2. PICK c \in Nat : c = Cut(f) /\ c <= w /\ c <= XSize
  <2>1. Cut(f) = Least(w, XSize)
    BY <1>1 DEF Cut
  <2>2. Least(w, XSize) \in Nat /\ Least(w, XSize) <= w /\ Least(w, XSize) <= XSize
    BY Geometry DEF Least
  <2> QED
    BY <2>1, <2>2
<1>20. y < h /\ 54 + n * (h - y) <= l /\ x < c
  BY <1>1, <1>2
<1>3. PICK r \in Nat : r = h - 1 - y
  BY <1>20
<1>4. RowOffset(f, y) = 54 + n * r
  <2>1. RowOffset(f, y) = 54 + n * (h - (y + 1))
    BY <1>1 DEF RowOffset
  <2>2. h - (y + 1) = r
    BY <1>3
  <2> QED
    BY <2>1, <2>2
<1>5. n * (h - y) = n * r + n
  BY <1>3
<1>6. PICK o \in Nat : o = 54 + n * r
  OBVIOUS
<1>7. o + n <= l
  BY <1>5, <1>6, <1>20
<1>8. Least(RowOffset(f, y), f.len) = o
  <2>1. Least(o, l) = o
    BY <1>7 DEF Least
  <2> QED
    BY <1>1, <1>4, <1>6, <2>1
<1>9. PICK k \in Nat : k = x * b
  OBVIOUS
<1>10. k < c * b /\ k < n /\ k \in 0..4 * XSize - 1
  <2>1. x + 1 <= c /\ x + 1 <= w /\ x + 1 <= XSize
    BY <1>2, <1>20, Geometry
  <2>2. (x + 1) * b <= c * b /\ (x + 1) * b <= w * b /\ (x + 1) * b <= XSize * b
    BY <2>1, Geometry
  <2>3. (x + 1) * b = k + b
    BY <1>9
  <2>4. XSize * b <= 4 * XSize
    BY Geometry
  <2>5. PICK cb \in Nat, wb \in Nat, xb \in Nat, z \in Nat :
          cb = c * b /\ wb = w * b /\ xb = XSize * b /\ z = (x + 1) * b
    <3>1. c * b \in Nat /\ w * b \in Nat /\ XSize * b \in Nat /\ (x + 1) * b \in Nat
      BY Geometry
    <3> QED
      BY <3>1
  <2>6. k + b <= cb /\ k + b <= wb /\ k + b <= xb /\ xb <= 4 * XSize /\ wb <= n /\ b >= 1
    <3>1. z <= cb /\ z <= wb /\ z <= xb /\ xb <= 4 * XSize /\ wb <= n
      BY <1>1, <2>2, <2>4, <2>5
    <3>2. z = k + b
      BY <2>3, <2>5
    <3> QED
      BY <3>1, <3>2
  <2>7. k < cb /\ k < n /\ k \in 0..4 * XSize - 1
    BY <2>6, Geometry
  <2> QED
    BY <2>5, <2>7
<1>11. Read(f, buf, y, c * b)[k] = Byte(f, o + k)
  <2>1. Read(f, buf, y, c * b) =
          [i \in 0..4 * XSize - 1 |-> IF i < Least(c * b, l - o) THEN Byte(f, o + i) ELSE buf[i]]
    BY <1>1, <1>8 DEF Read
  <2>2. k < Least(c * b, l - o)
    BY <1>1, <1>7, <1>10 DEF Least
  <2> QED
    BY <1>10, <2>1, <2>2
<1>12. (o + k - 54) \div n = r /\ (o + k - 54) % n = k
  <2>1. o + k - 54 = n * r + k
    BY <1>6
  <2>2. k \in 0..n - 1
    BY <1>10
  <2> QED
    BY <2>1, <2>2, InRow
<1>13. k % b = 0 /\ k \div b = x
  <2>1. k = b * x + 0 /\ 0 \in 0..b - 1
    BY <1>9
  <2> QED
    BY <2>1, InRow
<1>14. Byte(f, o + k) = f.pixel[<<x, h - 1 - r>>]
  <2>1. (((o + k) - 54) % Stride(f)) \div (f.bpp \div 8) = x
    BY <1>1, <1>12, <1>13
  <2>2. (((o + k) - 54) % Stride(f)) % (f.bpp \div 8) = 0
    BY <1>1, <1>12, <1>13
  <2>3. f.ysize - 1 - ((o + k - 54) \div Stride(f)) = h - 1 - r
    BY <1>1, <1>12
  <2>4. x < f.xsize
    BY <1>1, <1>2, <1>20
  <2> QED
    BY <2>1, <2>2, <2>3, <2>4 DEF Byte
<1>15. h - 1 - r = y
  BY <1>3
<1> QED
  BY <1>1, <1>2, <1>9, <1>11, <1>14, <1>15

LEMMA Heights ==
  ASSUME NEW f \in Bmps \union {NoBmp}
  PROVE  /\ Rows(f) \in Nat /\ Rows(f) <= YSize /\ Rows(f) <= f.ysize
         /\ f.xsize \in Nat /\ f.ysize \in Nat
         /\ Cut(f) \in Nat /\ Cut(f) <= XSize /\ Cut(f) <= f.xsize
         /\ Cut(f) = f.xsize \/ Cut(f) = XSize
<1>1. f.xsize \in Nat /\ f.ysize \in Nat
  <2>1. NoBmp.xsize = 0 /\ NoBmp.ysize = 0
    BY DEF NoBmp
  <2>2. CASE f \in Bmps
    BY <2>2, Bitmaps
  <2>3. CASE f = NoBmp
    BY <2>1, <2>3
  <2> QED
    BY <2>2, <2>3
<1>2. PICK w \in Nat, h \in Nat : w = f.xsize /\ h = f.ysize
  BY <1>1
<1>3. /\ Least(h, YSize) \in Nat /\ Least(h, YSize) <= YSize /\ Least(h, YSize) <= h
      /\ Least(w, XSize) \in Nat /\ Least(w, XSize) <= XSize /\ Least(w, XSize) <= w
      /\ Least(w, XSize) = w \/ Least(w, XSize) = XSize
  BY Geometry DEF Least
<1> QED
  BY <1>1, <1>2, <1>3 DEF Rows, Cut
------------------------------------------------------------------------------
(* What the wallpaper may be, and its shares.                              *)
LEMMA Painted ==
  ASSUME NEW f \in Bmps, NEW x \in 0..f.xsize - 1, NEW y \in 0..f.ysize - 1
  PROVE  Pixel(f, f.pixel[<<x, y>>]) \in 0..31
<1>1. f.pixel[<<x, y>>] \in 0..255
  BY Bitmaps
<1>2. PICK v \in 0..255 : v = f.pixel[<<x, y>>]
  BY <1>1
<1>3. SetPixel(v) \in 0..31 /\ v % 32 \in 0..31
  BY Levels
<1> QED
  BY <1>2, <1>3 DEF Pixel

LEMMA Papered ==
  ASSUME TypeOK, NEW p \in Window
  PROVE  Wallpaper(p) \in 0..31
<1>1. GRAY \in 0..31
  BY Levels DEF GRAY
<1>2. p[1] \in Nat /\ p[2] \in Nat /\ p = <<p[1], p[2]>>
  BY Place
<1>3. CASE p[1] < file.xsize /\ p[2] < rows
  <2>1. file \in Bmps
    <3>1. NoBmp.xsize = 0
      BY DEF NoBmp
    <3> QED
      BY <1>2, <1>3, <3>1 DEF TypeOK
  <2>2. p[1] \in 0..file.xsize - 1 /\ p[2] \in 0..file.ysize - 1
    <3>1. PICK w \in Nat, h \in Nat, r \in Int, m \in Nat :
            w = file.xsize /\ h = file.ysize /\ r = rows /\ r <= m /\ m <= h
      BY Heights DEF TypeOK
    <3> QED
      BY <1>2, <1>3, <3>1
  <2>3. Pixel(file, file.pixel[<<p[1], p[2]>>]) \in 0..31
    BY <2>1, <2>2, Painted
  <2> QED
    BY <1>2, <1>3, <2>3 DEF Wallpaper, Pixel
<1>4. CASE ~(p[1] < file.xsize /\ p[2] < rows)
  BY <1>1, <1>4 DEF Wallpaper
<1> QED
  BY <1>3, <1>4

LEMMA Shares ==
  ASSUME NEW y \in 0..2 * (Edge + Half) - 1
  PROVE  /\ FromEdge(y) \in Nat /\ Share(y) \in Int
         /\ FromEdge(y) >= Edge => Share(y) \in 0..256
<1>1. FromEdge(y) \in Nat /\ FromEdge(y) < Edge + Half
  BY Geometry DEF FromEdge, Least
<1>2. Half <= 128
  BY ScreenAssumption
<1> QED
  BY <1>1, <1>2, Geometry DEF Share

LEMMA Dims ==
  ASSUME NEW w \in 0..31, NEW c \in Int
  PROVE  Dim(w, c) \in 0..31 /\ (c \in 0..256 => Dim(w, c) <= w)
<1>1. PICK a \in Int : a = (Get(w) * c) \div 256
  BY DEF Get
<1>2. Dim(w, c) \in 0..31
  BY <1>1, Levels DEF Dim
<1>3. ASSUME c \in 0..256 PROVE Dim(w, c) <= w
  <2>1. PICK g \in Nat : g = Get(w) /\ g = 8 * w
    BY DEF Get
  <2>2. PICK b \in Nat : b = g * c /\ b <= g * 256
    BY <1>3, <2>1
  <2>3. a = b \div 256
    BY <1>1, <2>1, <2>2
  <2>4. a \in 0..g
    BY <2>2, <2>3
  <2>5. (a % 256) \div 8 <= w
    BY <2>1, <2>4
  <2> QED
    BY <1>1, <2>5 DEF Dim, SetPixel
<1> QED
  BY <1>2, <1>3

LEMMA Brightens ==
  ASSUME NEW w \in 0..31, NEW l \in 0..255
  PROVE  Brighter(w, l) >= w
<1>1. PICK v \in Nat : v = Get(w) + l /\ v >= 8 * w
  BY DEF Get
<1>2. PICK m \in 0..255 : m = (IF v > 255 THEN 255 ELSE v) /\ m >= 8 * w
  BY <1>1
<1>3. (m % 256) \div 8 >= w
  BY <1>2
<1> QED
  BY <1>1, <1>2, <1>3 DEF Brighter, SetPixel

(* The light stays a byte.                                                 *)
LEMMA Lights ==
  ASSUME TypeOK, NEW heard \in Heard
  PROVE  Spread(heard) \in [Lamps -> 0..255]
<1>1. ASSUME NEW s \in Int PROVE Light(s) \in 0..255 /\ Abs(s) \in Nat
  <2>1. PICK a \in Nat : a = Abs(s)
    BY DEF Abs
  <2>2. a \div RowDiv \in Nat
    BY Geometry
  <2>3. PICK v \in Nat : v = IF Abs(s) > 128 THEN Height(s) + Glow ELSE Abs(s)
    BY <2>1, <2>2, Geometry DEF Height
  <2>4. v % 256 \in 0..255
    OBVIOUS
  <2> QED
    BY <2>1, <2>3, <2>4 DEF Light
<1>2. ASSUME NEW d \in Int, NEW e \in Int PROVE Faded(d, e) \in 0..255
  BY DEF Faded
<1>3. ASSUME NEW p \in Lamps PROVE Fade(p[1], p[2]) \in 0..255
  <2>1. p[1] \in Cols /\ p[2] \in 0..2 * Half - 1
    BY <1>3 DEF Lamps
  <2>2. ASSUME NEW y \in 0..2 * Half - 1 PROVE dbuff[<<p[1], y>>] \in 0..255
    <3>1. <<p[1], y>> \in Lamps
      BY <2>1 DEF Lamps
    <3> QED
      BY <3>1 DEF TypeOK
  <2>3. PICK x \in Cols, y \in 0..2 * Half - 1 : x = p[1] /\ y = p[2]
    BY <2>1
  <2>4. CASE y < Half - 1
    <3>1. y + 1 \in 0..2 * Half - 1
      BY <2>4, Geometry
    <3>2. dbuff[<<x, y>>] \in Int /\ dbuff[<<x, y + 1>>] \in Int
      BY <2>2, <2>3, <3>1
    <3> QED
      BY <1>2, <2>3, <2>4, <3>2 DEF Fade
  <2>5. CASE y >= Half - 1
    <3>1. y - 1 \in 0..2 * Half - 1 /\ ~(y < Half - 1)
      BY <2>5, Geometry
    <3>2. dbuff[<<x, y>>] \in Int /\ dbuff[<<x, y - 1>>] \in Int
      BY <2>2, <2>3, <3>1
    <3>3. PICK d \in Int, e \in Int : d = dbuff[<<x, y - 1>>] /\ e = dbuff[<<x, y>>]
      BY <3>2
    <3>4. PICK g \in Int : g = Faded(d, e)
      BY <1>2
    <3>5. Faded(e, g) \in 0..255
      BY <1>2
    <3>6. Faded(e, d) \in 0..255
      BY <1>2
    <3> QED
      BY <2>3, <3>1, <3>3, <3>4, <3>5, <3>6 DEF Fade
  <2> QED
    BY <2>3, <2>4, <2>5, Geometry
<1>4. ASSUME NEW p \in Lamps
      PROVE  heard[p[1] \div 3][1] \in Int /\ heard[p[1] \div 3][2] \in Int
  <2>1. PICK x \in 0..XSize - 1 : x = p[1]
    BY DEF Lamps, Cols
  <2>2. x \div 3 \in 0..(XSize - 1) \div 3
    BY Geometry
  <2>3. heard \in [0..(XSize - 1) \div 3 -> Int \X Int]
    BY ScreenAssumption
  <2> QED
    BY <2>1, <2>2, <2>3
<1> QED
  BY <1>1, <1>3, <1>4 DEF Spread
------------------------------------------------------------------------------
(* The steps of main.                                                      *)
LEMMA InitScreen == Init => SInv
<1> SUFFICES ASSUME Init PROVE SInv
  OBVIOUS
<1>1. /\ phase \in {"boot", "library"} /\ file = NoBmp /\ rows = 0
      /\ dbuff = [p \in Lamps |-> 0]
  BY DEF Init
<1>2. TypeOK
  <2>1. Rows(NoBmp) \in Nat
    BY Heights
  <2> QED
    BY <1>1, <2>1 DEF TypeOK
<1> QED
  BY <1>1, <1>2 DEF SInv, GreyInv, RowsInv, BandInv, PictureKept

LEMMA BootKeeps == SInv /\ Boot => SInv'
<1> SUFFICES ASSUME SInv, Boot PROVE SInv'
  OBVIOUS
<1>1. /\ phase' = "load" /\ fb' = [p \in Window |-> GRAY] /\ file' = NoBmp /\ rows' = 0
      /\ dbuff' = dbuff
  BY DEF Boot, SInv, GreyInv
<1>2. TypeOK'
  <2>1. Rows(NoBmp) \in Nat
    BY Heights
  <2> QED
    BY <1>1, <2>1 DEF SInv, TypeOK
<1> QED
  BY <1>1, <1>2 DEF SInv, GreyInv, RowsInv, BandInv, PictureKept

LEMMA LoadKeeps == SInv /\ Load => SInv'
<1> SUFFICES ASSUME SInv, Load PROVE SInv'
  OBVIOUS
<1>1. /\ phase = "load" /\ file = NoBmp /\ rows = 0 /\ (\A p \in Window : fb[p] = GRAY)
      /\ dbuff' = dbuff /\ dbuff \in [Lamps -> 0..255]
  BY DEF Load, SInv, GreyInv, TypeOK
<1>2. NoBmp.xsize = 0
  BY DEF NoBmp
<1>3. \A p \in Window : ~(p[1] < 0) /\ ~(p[2] < 0)
  BY Place
<1>4. CASE NoPicture
  <2>1. /\ phase' = "init" /\ file' = NoBmp /\ fb' = fb /\ rows' = 0
    BY <1>1, <1>4 DEF NoPicture
  <2>2. \A p \in Window : fb'[p] = Wallpaper(p)'
    BY <1>1, <1>2, <1>3, <2>1 DEF Wallpaper
  <2>3. TypeOK'
    <3>1. Rows(NoBmp) \in Nat
      BY Heights
    <3> QED
      BY <1>1, <2>1, <3>1 DEF TypeOK
  <2> QED
    BY <2>1, <2>2, <2>3 DEF SInv, GreyInv, RowsInv, BandInv, PictureKept
<1>5. CASE \E f \in Bmps : Header(f)
  <2>1. PICK f \in Bmps : Header(f)
    BY <1>5
  <2>2. /\ phase' = "rows" /\ file' = f /\ f.bpp \in {16, 24, 32} /\ f.len >= 54
        /\ fb' = fb /\ rows' = 0 /\ DOMAIN bmp_pixel' = 0..4 * XSize - 1
    BY <1>1, <2>1 DEF Header
  <2>3. \A p \in Window : fb'[p] = Wallpaper(p)'
    BY <1>1, <1>3, <2>2 DEF Wallpaper
  <2>4. TypeOK'
    <3>1. Rows(f) \in Nat
      BY Heights
    <3> QED
      BY <1>1, <2>2, <3>1 DEF TypeOK
  <2> QED
    BY <2>2, <2>3, <2>4 DEF SInv, GreyInv, RowsInv, BandInv, PictureKept
<1>6. CASE Garbage
  <2>1. phase' = "init" /\ file' = NoBmp /\ rows' = -1
    BY <1>6 DEF Garbage
  <2>2. TypeOK'
    <3>1. Rows(NoBmp) \in Nat
      BY Heights
    <3> QED
      BY <1>1, <2>1, <3>1 DEF TypeOK
  <2> QED
    BY <2>1, <2>2 DEF SInv, GreyInv, RowsInv, BandInv, PictureKept
<1> QED
  BY <1>4, <1>5, <1>6 DEF Load

LEMMA LoadRowKeeps == SInv /\ LoadRow => SInv'
<1> SUFFICES ASSUME SInv, LoadRow PROVE SInv'
  OBVIOUS
<1>1. /\ phase = "rows" /\ phase' = "rows" /\ file' = file /\ dbuff' = dbuff
      /\ rows < Rows(file) /\ rows' = rows + 1
      /\ file \in Bmps /\ file.bpp \in {16, 24, 32} /\ file.len >= 54
      /\ DOMAIN bmp_pixel = 0..4 * XSize - 1
  BY DEF LoadRow, SInv, RowsInv
<1>2. PICK r \in Nat, m \in Nat : r = rows /\ rows' = r + 1 /\ m = Rows(file) /\ r < m /\ m <= file.ysize
  <2>1. rows \in Nat
    BY <1>1 DEF SInv, TypeOK, RowsInv
  <2> QED
    BY <1>1, <2>1, Heights
<1>3. PICK b : b = file.bpp \div 8
  OBVIOUS
<1>4. /\ bmp_pixel' = Read(file, bmp_pixel, r, Cut(file) * b)
      /\ fb' = [p \in Window |-> IF p[1] < Cut(file) /\ p[2] = r
                                 THEN Pixel(file, bmp_pixel'[p[1] * b]) ELSE fb[p]]
  BY <1>2, <1>3 DEF LoadRow
<1>5. DOMAIN bmp_pixel' = 0..4 * XSize - 1
  BY <1>1, <1>4 DEF Read
<1>6. TypeOK'
  <2>1. rows' <= Rows(file') /\ rows' \in Int
    <3>1. Rows(file') = m
      BY <1>1, <1>2
    <3> QED
      BY <1>2, <3>1
  <2> QED
    BY <1>1, <2>1 DEF SInv, TypeOK
<1>7. ASSUME NEW p \in Window, Whole(p)' PROVE fb'[p] = Wallpaper(p)'
  <2>1. /\ p[1] \in 0..XSize - 1 /\ p[2] \in 0..YSize - 1 /\ p = <<p[1], p[2]>>
    BY Place
  <2>2. PICK x \in Nat, y \in Nat : x = p[1] /\ y = p[2] /\ p = <<x, y>> /\ x < XSize
    BY <2>1, Geometry
  <2>3. CASE y = r /\ x < Cut(file)
    <3>1. y < file.ysize /\ x < file.xsize
      <4>1. PICK w \in Nat, h \in Nat, c \in Nat :
              w = file.xsize /\ h = file.ysize /\ c = Cut(file) /\ c <= w /\ m <= h
        BY <1>1, <1>2, Heights
      <4> QED
        BY <1>2, <2>3, <4>1
    <3>2. 54 + Stride(file) * (file.ysize - y) <= file.len
      BY <1>1, <1>2, <1>7, <2>2, <2>3 DEF Whole
    <3>3. bmp_pixel'[x * b] = file.pixel[p]
      BY <1>1, <1>3, <1>4, <2>2, <2>3, <3>1, <3>2, RowRead
    <3>4. fb'[p] = Pixel(file, file.pixel[p])
      BY <1>4, <2>2, <2>3, <3>3
    <3> QED
      BY <1>1, <1>2, <2>2, <2>3, <3>1, <3>4 DEF Wallpaper, Pixel
  <2>4. CASE ~(y = r /\ x < Cut(file))
    <3>1. fb'[p] = fb[p]
      BY <1>4, <2>2, <2>4
    <3>2. x < file.xsize => (y < r + 1 <=> y < r)
      <4>1. PICK w \in Nat, c \in Nat :
              w = file.xsize /\ c = Cut(file) /\ (c = w \/ c = XSize)
        BY <1>1, Heights
      <4> QED
        BY <2>2, <2>4, <4>1
    <3>3. Wallpaper(p)' = Wallpaper(p)
      BY <1>1, <1>2, <2>2, <3>2 DEF Wallpaper
    <3>4. Whole(p)
      BY <1>1, <1>2, <1>7, <2>2 DEF Whole
    <3>5. fb[p] = Wallpaper(p)
      BY <1>1, <1>2, <3>4 DEF SInv, PictureKept
    <3> QED
      BY <3>1, <3>3, <3>5
  <2> QED
    BY <2>3, <2>4
<1>8. PictureKept'
  BY <1>1, <1>7 DEF PictureKept
<1> QED
  BY <1>1, <1>2, <1>5, <1>6, <1>8 DEF SInv, GreyInv, RowsInv, BandInv

LEMMA LoadedKeeps == SInv /\ Loaded => SInv'
<1> SUFFICES ASSUME SInv, Loaded PROVE SInv'
  OBVIOUS
<1>1. /\ phase = "rows" /\ phase' = "init" /\ file' = file /\ rows' = rows
      /\ fb' = fb /\ dbuff' = dbuff
  BY DEF Loaded, eglVars
<1>2. TypeOK'
  BY <1>1 DEF SInv, TypeOK
<1>3. PictureKept'
  BY <1>1 DEF SInv, PictureKept, Whole, Wallpaper
<1> QED
  BY <1>1, <1>2, <1>3 DEF SInv, GreyInv, RowsInv, BandInv

LEMMA InBand ==
  ASSUME NEW p \in Window, p[2] >= Top
  PROVE  /\ p[2] - Top \in 0..2 * (Edge + Half) - 1
         /\ <<p[1], p[2] - Top>> \in Band
         /\ p = <<p[1], Top + (p[2] - Top)>>
<1>1. p[1] \in Cols /\ p[2] \in 0..YSize - 1 /\ p = <<p[1], p[2]>>
  BY Place DEF Cols
<1>2. PICK y \in Nat : y = p[2] /\ y >= Top /\ y < YSize
  BY <1>1, Geometry
<1>3. y - Top \in 0..2 * (Edge + Half) - 1 /\ Top + (y - Top) = y
  BY <1>2, Geometry
<1> QED
  BY <1>1, <1>2, <1>3 DEF Band

LEMMA DrawwaveInitKeeps == SInv /\ DrawwaveInit => SInv'
<1> SUFFICES ASSUME SInv, DrawwaveInit PROVE SInv'
  OBVIOUS
<1>1. /\ phase = "init" /\ phase' = "wait" /\ file' = file /\ rows' = rows
      /\ fb' = fb /\ dbuff' = dbuff
      /\ pbuff' = [p \in Band |-> Dim(fb[<<p[1], Top + p[2]>>], Share(p[2]))]
  BY DEF DrawwaveInit, eglVars
<1>2. TypeOK'
  BY <1>1 DEF SInv, TypeOK
<1>3. \A p \in Window : (Whole(p)' <=> Whole(p)) /\ Wallpaper(p)' = Wallpaper(p)
  BY <1>1 DEF Whole, Wallpaper
<1>4. ASSUME rows >= 0, NEW p \in Window, Whole(p) PROVE fb[p] = Wallpaper(p)
  BY <1>1, <1>4 DEF SInv, PictureKept
<1>5. BandInv'
  <2> SUFFICES ASSUME rows >= 0, NEW p \in Window, Whole(p), p[2] >= Top
               PROVE  pbuff'[<<p[1], p[2] - Top>>] = Dim(Wallpaper(p), Share(p[2] - Top))
    BY <1>1, <1>3 DEF BandInv
  <2>1. PICK q \in Band : q = <<p[1], p[2] - Top>> /\ q[1] = p[1] /\ q[2] = p[2] - Top
                          /\ p = <<q[1], Top + q[2]>>
    BY InBand
  <2>2. pbuff'[q] = Dim(fb[p], Share(q[2]))
    BY <1>1, <2>1
  <2> QED
    BY <1>4, <2>1, <2>2
<1>6. PictureKept'
  <2> SUFFICES ASSUME rows >= 0, NEW p \in Window, Whole(p)
               PROVE  IF p[2] < Top THEN fb[p] = Wallpaper(p)
                      ELSE IF FromEdge(p[2] - Top) < Edge
                      THEN fb[p] \in {Wallpaper(p), Dim(Wallpaper(p), Share(p[2] - Top))}
                      ELSE fb[p] >= Dim(Wallpaper(p), Share(p[2] - Top))
    BY <1>1, <1>3 DEF PictureKept
  <2>1. fb[p] = Wallpaper(p)
    BY <1>4
  <2>2. ASSUME ~(p[2] < Top), ~(FromEdge(p[2] - Top) < Edge)
        PROVE  Wallpaper(p) >= Dim(Wallpaper(p), Share(p[2] - Top))
    <3>1. p[2] >= Top
      BY <2>2, Place, Geometry
    <3>2. PICK y \in 0..2 * (Edge + Half) - 1 : y = p[2] - Top
      BY <3>1, InBand
    <3>3. Share(y) \in 0..256
      BY <2>2, <3>2, Shares, Geometry
    <3>4. PICK w \in 0..31 : w = Wallpaper(p)
      BY Papered DEF SInv
    <3>5. PICK d \in 0..31 : d = Dim(w, Share(y)) /\ d <= w
      <4>1. PICK c \in 0..256 : c = Share(y)
        BY <3>3
      <4>2. Dim(w, c) \in 0..31 /\ Dim(w, c) <= w
        BY Dims
      <4> QED
        BY <4>1, <4>2
    <3> QED
      BY <3>2, <3>4, <3>5
  <2> QED
    BY <2>1, <2>2
<1> QED
  BY <1>1, <1>2, <1>5, <1>6 DEF SInv, GreyInv, RowsInv

LEMMA FrameKeeps ==
  ASSUME SInv, NEW heard \in Heard, Frame(heard)
  PROVE  SInv'
<1>1. /\ phase = "wait" /\ phase' = "wait" /\ file' = file /\ rows' = rows /\ pbuff' = pbuff
      /\ dbuff' = Spread(heard) /\ fb' = Drawn(dbuff')
  BY DEF Frame
<1>2. dbuff' \in [Lamps -> 0..255]
  BY <1>1, Lights DEF SInv
<1>3. TypeOK'
  BY <1>1, <1>2 DEF SInv, TypeOK
<1>4. \A p \in Window : (Whole(p)' <=> Whole(p)) /\ Wallpaper(p)' = Wallpaper(p)
  BY <1>1 DEF Whole, Wallpaper
<1>5. BandInv'
  BY <1>1, <1>4 DEF SInv, BandInv
<1>6. PictureKept'
  <2> SUFFICES ASSUME rows >= 0, NEW p \in Window, Whole(p)
               PROVE  IF p[2] < Top THEN fb'[p] = Wallpaper(p)
                      ELSE IF FromEdge(p[2] - Top) < Edge
                      THEN fb'[p] \in {Wallpaper(p), Dim(Wallpaper(p), Share(p[2] - Top))}
                      ELSE fb'[p] >= Dim(Wallpaper(p), Share(p[2] - Top))
    BY <1>1, <1>4 DEF PictureKept
  <2>1. CASE p[2] < Top
    <3>1. fb'[p] = fb[p]
      BY <1>1, <2>1 DEF Drawn
    <3>2. fb[p] = Wallpaper(p)
      BY <1>1, <2>1 DEF SInv, PictureKept
    <3> QED
      BY <2>1, <3>1, <3>2
  <2>2. CASE ~(p[2] < Top)
    <3>1. p[2] >= Top
      BY <2>2, Place, Geometry
    <3>2. PICK y \in 0..2 * (Edge + Half) - 1 : y = p[2] - Top /\ <<p[1], y>> \in Band
      BY <3>1, InBand
    <3>3. PICK d \in 0..31 : d = pbuff[<<p[1], y>>] /\ d = Dim(Wallpaper(p), Share(y))
      <4>1. pbuff[<<p[1], y>>] = Dim(Wallpaper(p), Share(y))
        BY <1>1, <3>1, <3>2 DEF SInv, BandInv
      <4>2. Wallpaper(p) \in 0..31
        BY Papered DEF SInv
      <4> QED
        BY <4>1, <4>2, Dims, Shares
    <3>4. CASE FromEdge(y) < Edge
      <4>1. fb'[p] = d
        BY <1>1, <2>2, <3>2, <3>3, <3>4 DEF Drawn
      <4> QED
        BY <2>2, <3>2, <3>3, <3>4, <4>1
    <3>5. CASE ~(FromEdge(y) < Edge)
      <4>1. fb'[p] = Brighter(d, dbuff'[<<p[1], y - Edge>>])
        BY <1>1, <2>2, <3>2, <3>3, <3>5 DEF Drawn
      <4>2. <<p[1], y - Edge>> \in Lamps
        <5>1. y - Edge \in 0..2 * Half - 1
          BY <3>5, Geometry DEF FromEdge, Least
        <5> QED
          BY <5>1, Place DEF Lamps, Cols
      <4>3. dbuff'[<<p[1], y - Edge>>] \in 0..255
        BY <1>2, <4>2
      <4>4. fb'[p] >= d
        BY <4>1, <4>3, Brightens
      <4> QED
        BY <2>2, <3>2, <3>3, <3>5, <4>4
    <3> QED
      BY <3>4, <3>5
  <2> QED
    BY <2>1, <2>2
<1> QED
  BY <1>1, <1>3, <1>5, <1>6 DEF SInv, GreyInv, RowsInv

(* What the display does, and a program that uses the library alone, leave *)
(* the player's picture as it is.                                          *)
LEMMA VsyncKeeps ==
  ASSUME SInv, UNCHANGED <<fb, phase, file, rows, bmp_pixel, pbuff, dbuff>>
  PROVE  SInv'
<1>1. \A p \in Window : (Whole(p)' <=> Whole(p)) /\ Wallpaper(p)' = Wallpaper(p)
  BY DEF Whole, Wallpaper
<1>2. BandInv'
  BY <1>1 DEF SInv, BandInv
<1>3. PictureKept'
  BY <1>1 DEF SInv, PictureKept
<1>4. TypeOK' /\ GreyInv' /\ RowsInv'
  BY DEF SInv, TypeOK, GreyInv, RowsInv
<1> QED
  BY <1>2, <1>3, <1>4 DEF SInv

LEMMA LibraryKeeps ==
  ASSUME SInv, phase' \in {"call", "done"}, UNCHANGED <<file, rows, dbuff>>
  PROVE  SInv'
BY DEF SInv, TypeOK, GreyInv, RowsInv, BandInv, PictureKept

LEMMA NextKeeps == SInv /\ [Next]_vars => SInv'
<1> SUFFICES ASSUME SInv, [Next]_vars PROVE SInv'
  OBVIOUS
<1>1. CASE \E heard \in Heard : Frame(heard)
  BY <1>1, FrameKeeps
<1>2. CASE Vsync
  BY <1>2, VsyncKeeps DEF Vsync, eglVars
<1>3. CASE Pen
  BY <1>3, LibraryKeeps DEF Pen
<1>4. CASE Library
  BY <1>4, LibraryKeeps DEF Library
<1>5. CASE UNCHANGED vars
  BY <1>5, VsyncKeeps DEF vars, eglVars
<1> QED
  BY <1>1, <1>2, <1>3, <1>4, <1>5, BootKeeps, LoadKeeps, LoadRowKeeps, LoadedKeeps,
     DrawwaveInitKeeps DEF Next

(* The invariant of main's screen (wav_player.c:48-111, loadbmp.c,         *)
(* drawwave.c): grey, then as much of the wallpaper as was read, then its  *)
(* darkened copy behind a light that stays a byte.                         *)
THEOREM ScreenInvariance == Spec => []SInv
<1>1. Init => SInv
  BY InitScreen
<1>2. SInv /\ [Next]_vars => SInv'
  BY NextKeeps
<1> QED
  BY <1>1, <1>2, PTL DEF Spec

(* The phases, the wallpaper's rows and the light keep their ranges.       *)
THEOREM TypeCorrect == Spec => []TypeOK
<1>1. SInv => TypeOK
  BY DEF SInv
<1> QED
  BY <1>1, ScreenInvariance, PTL

(* Wherever the card failed and whatever is played, the rows of the        *)
(* wallpaper that the file has are on the screen above the band, and       *)
(* darkened behind its light (loadbmp.c:79-101, drawwave.c:37-132).        *)
THEOREM PictureCorrect == Spec => []PictureKept
<1>1. SInv => PictureKept
  BY DEF SInv
<1> QED
  BY <1>1, ScreenInvariance, PTL
=============================================================================
