------------------------------- MODULE Screen --------------------------------
(* The picture of the player: main (wav_player.c) paints the window grey,   *)
(* loadbmp puts the wallpaper on it, drawwave_init saves and darkens a band *)
(* at its lower end, and after each vertical sync drawwave lights the band  *)
(* where the samples are.  Or a program uses the drawing library alone.     *)
EXTENDS Egl, FiniteSets

CONSTANTS
  Edge, Half,   \* the band is Edge, 2 * Half and again Edge rows (8, 80)
  RowDiv, Glow, \* a sample is in row sample / RowDiv, with Glow added (512, 192)
  Bmps,         \* the files wall.bmp may be: bpp, xsize, ysize, len, pixel
  Junk,         \* what memory may hold that was never written
  Heard,        \* what play_getbuffdata may give for the window's columns
  MaxLoud,      \* bound: how many frames may have sound
  Broken,       \* bound: after how many rows the card may fail, or how many garbage makes
  Calls, Pens   \* calls of the library; colours and mixtures

Bitmap(f) ==
  /\ f.bpp \in Nat /\ f.xsize \in Nat /\ f.ysize \in Nat /\ f.len \in Nat
  /\ f.pixel \in [(0..f.xsize - 1) \X (0..f.ysize - 1) -> 0..255]
ASSUME ScreenAssumption ==
  /\ {Edge, Half, RowDiv, Glow} \subseteq Nat /\ Half \in 2..128 /\ 2 * (Edge + Half) <= YSize
  /\ RowDiv > 0 /\ Glow + 32768 \div RowDiv = 256 /\ 32768 \div RowDiv < Half
  /\ \A f \in Bmps : Bitmap(f)
  /\ \A heard \in Heard : heard \in [0..(XSize - 1) \div 3 -> Int \X Int]

VARIABLES
  phase,        \* where main is
  file, rows,   \* the wallpaper, how many rows of it were read (loadbmp's y)
  bmp_pixel,    \* loadbmp's buffer of a row
  pbuff,        \* g_pbuff: the band, darkened
  dbuff,        \* the light in the band, 2 * Half rows
  vsflag, seen, \* the flag that turns at every vertical sync; nd_GsVgaWaitVsync's copy
  silent, loud  \* not in the code: the latest frame was silence; how many were not

vars == <<eglVars, phase, file, rows, bmp_pixel, pbuff, dbuff, vsflag, seen, silent, loud>>
Cols == 0..XSize - 1
Band == Cols \X (0..2 * (Edge + Half) - 1)
Lamps == Cols \X (0..2 * Half - 1)
GRAY == SetPixel(128)
Top == YSize - 2 * (Edge + Half)        \* g_ypos
NoBmp == [bpp |-> 0, xsize |-> 0, ysize |-> 0, len |-> 0, pixel |-> <<>>]
------------------------------------------------------------------------------
(* A bitmap of len bytes.  The colour modelled is in the first of a pixel's *)
(* bytes; the rows, filled up to four bytes, go from the lowest to the top. *)
Stride(f) == ((((f.xsize * f.bpp) \div 8) + 3) \div 4) * 4
Byte(f, o) ==
  LET row == (o - 54) \div Stride(f)
      col == ((o - 54) % Stride(f)) \div (f.bpp \div 8)
  IN IF ((o - 54) % Stride(f)) % (f.bpp \div 8) = 0 /\ col < f.xsize
     THEN f.pixel[<<col, f.ysize - 1 - row>>] ELSE 255
Least(m, n) == IF m < n THEN m ELSE n

(* loadbmp: a row is read into bmp_pixel, behind what the file still has   *)
(* of it the buffer keeps what it held.                                    *)
Line(xsize, bpp) ==
  LET line == (xsize * bpp) \div 8
  IN IF line % 4 # 0 THEN ((line \div 4) + 1) * 4 ELSE line
RowOffset_down(f, y) == 54 + Line(f.xsize, f.bpp) * y  \* mutant: the rows are taken from the top
RowOffset(f, y) == 54 + Line(f.xsize, f.bpp) * (f.ysize - (y + 1))
Read(f, buf, y, n) ==                   \* f_lseek and f_read
  LET pos == Least(RowOffset(f, y), f.len)
  IN [k \in DOMAIN buf |-> IF k < Least(n, f.len - pos) THEN Byte(f, pos + k) ELSE buf[k]]
Pixel(f, b) == IF f.bpp = 16 THEN b % 32 ELSE SetPixel(b)
------------------------------------------------------------------------------
Boot ==
  /\ phase = "boot" /\ phase' = "load"
  /\ nd_color' = GRAY /\ nd_pastel' = 256
  /\ fb' = [p \in Window |-> GRAY]      \* nd_boxfill of all of the window
  /\ UNCHANGED <<call, file, rows, bmp_pixel, pbuff, dbuff, vsflag, seen, silent, loud>>

(* loadbmp finds no file, or one that is no bitmap or of other colours;    *)
(* has a header; or gets less than a header and goes on with a size and a  *)
(* colour nobody has set.                                                  *)
NoPicture == phase' = "init" /\ file' = NoBmp /\ UNCHANGED <<fb, rows, bmp_pixel>>
Header(f) ==
  /\ f.bpp \in {16, 24, 32} /\ f.len >= 54
  /\ phase' = "rows" /\ file' = f
  /\ \E junk \in Junk : bmp_pixel' = [k \in 0..4 * XSize - 1 |-> junk]
  /\ UNCHANGED <<fb, rows>>
Garbage ==
  /\ phase' = "init" /\ file' = NoBmp /\ rows' = -1
  /\ \E w \in {0, XSize}, h \in Broken, junk \in Junk :
       fb' = [p \in Window |-> IF p[1] < w /\ p[2] < h THEN SetPixel(junk) ELSE fb[p]]
  /\ UNCHANGED bmp_pixel
Load ==
  /\ phase = "load"
  /\ NoPicture \/ (\E f \in Bmps : Header(f)) \/ Garbage
  /\ UNCHANGED <<nd_color, nd_pastel, call, pbuff, dbuff, vsflag, seen, silent, loud>>

(* A row of the picture, and its end: at the window's or the picture's     *)
(* lower end, or where the card fails.                                     *)
Rows(f) == Least(f.ysize, YSize)
Cut(f) == Least(f.xsize, XSize)
LoadRow ==
  /\ phase = "rows" /\ rows < Rows(file)
  /\ LET bytes == file.bpp \div 8
     IN /\ bmp_pixel' = Read(file, bmp_pixel, rows, Cut(file) * bytes)
        /\ fb' = [p \in Window |->
                    IF p[1] < Cut(file) /\ p[2] = rows
                    THEN Pixel(file, bmp_pixel'[p[1] * bytes]) ELSE fb[p]]
  /\ rows' = rows + 1
  /\ UNCHANGED <<nd_color, nd_pastel, call, phase, file, pbuff, dbuff, vsflag, seen, silent, loud>>
Loaded ==
  /\ phase = "rows" /\ rows \in Broken \union {Rows(file)}
  /\ phase' = "init"
  /\ bmp_pixel' = [k \in 0..4 * XSize - 1 |-> 0]
  /\ UNCHANGED <<eglVars, file, rows, pbuff, dbuff, vsflag, seen, silent, loud>>

(* drawwave_init.  Rows are darkened in pairs from the edges to the middle. *)
Dim(p, c) == SetPixel((Get(p) * c) \div 256)
FromEdge(y) == Least(y, 2 * (Edge + Half) - 1 - y)
Share(y) == IF FromEdge(y) < Edge THEN 256 - 16 * FromEdge(y) ELSE 128 - (FromEdge(y) - Edge)
DrawwaveInit ==
  /\ phase = "init" /\ phase' = "wait"
  /\ pbuff' = [p \in Band |-> Dim(fb[<<p[1], Top + p[2]>>], Share(p[2]))]
  /\ seen' = vsflag                     \* nd_wait_vsync, first read
  /\ UNCHANGED <<eglVars, file, rows, bmp_pixel, dbuff, vsflag, silent, loud>>

(* drawwave.  The light spreads outwards and fades; the rows are updated   *)
(* in place, from the edges to the middle, and row Half - 1, the last one, *)
(* after the row above it.                                                 *)
Faded(d, e) ==
  LET a == (d \div 2) + (e \div 2) - 6
  IN IF a < 0 THEN 0 ELSE IF a > 255 THEN 255 ELSE a
Fade_upper(x, y) ==                    \* mutant: the second loop is left out
  IF y < Half - 1 THEN Faded(dbuff[<<x, y>>], dbuff[<<x, y + 1>>]) ELSE dbuff[<<x, y>>]
Fade(x, y) ==
  IF y < Half - 1 THEN Faded(dbuff[<<x, y>>], dbuff[<<x, y + 1>>])
  ELSE IF y > Half - 1 THEN Faded(dbuff[<<x, y>>], dbuff[<<x, y - 1>>])
  ELSE Faded(dbuff[<<x, y>>], Faded(dbuff[<<x, y - 1>>], dbuff[<<x, y>>]))
Height(sample) == Abs(sample) \div RowDiv
Light(sample) ==                        \* as an unsigned char
  (IF Abs(sample) > 128 THEN Height(sample) + Glow ELSE Abs(sample)) % 256
Spread(heard) ==
  [p \in Lamps |->
     LET s == heard[p[1] \div 3]
     IN IF p[2] = Half - 1 - Height(s[1]) THEN Light(s[1])
        ELSE IF p[2] = Half + Height(s[2]) THEN Light(s[2])
        ELSE Fade(p[1], p[2])]
Brighter(p, light) ==
  LET v == Get(p) + light IN SetPixel(IF v > 255 THEN 255 ELSE v)
Drawn(light) ==
  [p \in Window |->
     LET q == <<p[1], p[2] - Top>>
     IN IF p[2] < Top THEN fb[p]
        ELSE IF FromEdge(q[2]) < Edge THEN pbuff[q]
        ELSE Brighter(pbuff[q], light[<<q[1], q[2] - Edge>>])]
Frame(heard) ==
  /\ phase = "wait" /\ vsflag # seen /\ seen' = vsflag
  /\ dbuff' = Spread(heard)
  /\ fb' = Drawn(dbuff')
  /\ silent' = \A k \in DOMAIN heard : heard[k] = <<0, 0>>
  /\ loud' = loud + (IF silent' THEN 0 ELSE 1) /\ loud' <= MaxLoud
  /\ UNCHANGED <<nd_color, nd_pastel, call, phase, file, rows, bmp_pixel, pbuff, vsflag>>

(* The display's vertical sync: the flag turns.                            *)
Vsync ==
  /\ phase = "wait" /\ vsflag' = ~vsflag
  /\ UNCHANGED <<eglVars, phase, file, rows, bmp_pixel, pbuff, dbuff, seen, silent, loud>>
------------------------------------------------------------------------------
(* A program that uses the library alone: a pen, then a call.              *)
Pen ==
  /\ phase = "library" /\ \E p \in Pens : EglColor(p[1], p[2])
  /\ phase' = "call"
  /\ UNCHANGED <<file, rows, bmp_pixel, pbuff, dbuff, vsflag, seen, silent, loud>>
Call(c) ==
  LET a == c.args
  IN CASE c.op = "pset" -> EglPset(a[1], a[2])
       [] c.op = "boxfill" -> EglBoxfill(a[1], a[2], a[3], a[4])
       [] c.op = "box" -> EglBox(a[1], a[2], a[3], a[4])
       [] c.op = "line" -> EglLine(a[1], a[2], a[3], a[4])
       [] c.op = "circle" -> EglCircle(a[1], a[2], a[3])
       [] c.op = "symbol" -> EglPutstrFont(a[1], a[2], a[3])
       [] c.op = "str" -> EglPutstr(a[1], a[2], a[3])
       [] c.op = "dec" -> EglPutdec(a[1], a[2], a[3])
       [] c.op = "hex2" -> EglPuthex2(a[1], a[2], a[3])
       [] c.op = "hex8" -> EglPuthex8(a[1], a[2], a[3])
Library ==
  /\ phase = "call" /\ \E c \in Calls : Call(c)
  /\ phase' = "done"
  /\ UNCHANGED <<file, rows, bmp_pixel, pbuff, dbuff, vsflag, seen, silent, loud>>

Init ==
  /\ phase \in {"boot", "library"}
  /\ fb = [p \in Window |-> (p[1] + 5 * p[2]) % 32]  \* whatever the memory has
  /\ nd_color = 0 /\ nd_pastel = 0
  /\ call = [op |-> "none", args |-> <<>>]
  /\ file = NoBmp /\ rows = 0 /\ bmp_pixel = [k \in 0..4 * XSize - 1 |-> 0]
  /\ pbuff = [p \in Band |-> 0]
  /\ dbuff = [p \in Lamps |-> 0]
  /\ vsflag = FALSE /\ seen = FALSE /\ silent = FALSE /\ loud = 0

Next ==
  \/ Boot \/ Load \/ LoadRow \/ Loaded \/ DrawwaveInit \/ Vsync
  \/ \E heard \in Heard : Frame(heard)
  \/ Pen \/ Library
Spec == Init /\ [][Next]_vars
FairSpec ==
  /\ Spec /\ WF_vars(Boot) /\ WF_vars(Load) /\ WF_vars(LoadRow) /\ WF_vars(Loaded)
  /\ WF_vars(DrawwaveInit) /\ WF_vars(Vsync)
  /\ SF_vars(\E heard \in Heard : Frame(heard))
------------------------------------------------------------------------------
(* Whatever is played, and wherever the card failed while the wallpaper was *)
(* read, the picture above the band is the upper part of the wallpaper that *)
(* was read on grey; behind the band's light it is still there, darkened,  *)
(* and its two edges show it as it is.  Of a bitmap cut off these are the  *)
(* rows the file has; a header cut off is left out.                        *)
Wallpaper(p) ==
  IF p[1] < file.xsize /\ p[2] < rows
  THEN IF file.bpp = 16 THEN file.pixel[p] % 32 ELSE SetPixel(file.pixel[p]) ELSE GRAY
Whole(p) ==
  p[2] < rows => 54 + Stride(file) * (file.ysize - p[2]) <= file.len
PictureKept == phase \in {"rows", "init", "wait"} /\ rows >= 0 =>
  \A p \in Window : Whole(p) =>
    \A dim \in {Dim(Wallpaper(p), Share(p[2] - Top))} :
      IF phase # "wait" \/ p[2] < Top THEN fb[p] = Wallpaper(p)
      ELSE IF FromEdge(p[2] - Top) < Edge THEN fb[p] \in {Wallpaper(p), dim}
      ELSE fb[p] >= dim

(* When nothing but silence is played, the band becomes dark again and     *)
(* stays so.                                                               *)
Dark == \A p \in Band : fb[<<p[1], Top + p[2]>>] = pbuff[p]
FadesOut == <>[](silent) => <>[]Dark
=============================================================================
