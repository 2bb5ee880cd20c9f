--------------------------------- MODULE Egl ---------------------------------
(* The drawing library nd_lib/nd_egl.c on a frame buffer of one colour      *)
(* channel: the three are treated alike.  A pixel holds the upper five bits *)
(* of a value of eight (RGB555).                                            *)
EXTENDS Integers, Sequences, SequencesExt, TLC

CONSTANTS
  XSize, YSize, \* the window (640, 480)
  RomFont,      \* nd_GsEglRomFont: code -> eight rows of eight bits
  AsciiFont,    \* FONTX: width, height, the bytes of the glyphs
  KanjiFont,    \* FONTX: width, height, ranges of codes, the bytes
  IntMax        \* 2^31 - 1

ASSUME EglAssumption == XSize \in Nat \ {0} /\ YSize \in Nat \ {0} /\ IntMax \in Nat

VARIABLES
  fb,           \* the draw buffer: the levels of the window
  nd_color, nd_pastel,
  call          \* not in the code: the latest call of the library

eglVars == <<fb, nd_color, nd_pastel, call>>

Window == (0..XSize - 1) \X (0..YSize - 1)
Get(p) == p * 8
SetPixel(v) == (v % 256) \div 8
Abs(n) == IF n < 0 THEN -n ELSE n
------------------------------------------------------------------------------
(* nd_GsEglPset.  The picture f is the state of the buffer between calls.  *)
Blended(old) ==
  IF nd_pastel >= 256 THEN nd_color
  ELSE SetPixel(((Get(nd_color) - Get(old)) * nd_pastel + Get(old) * 256) \div 256)
Pset(f, p) ==
  IF nd_pastel # 0 /\ p \in Window THEN [f EXCEPT ![p] = Blended(@)] ELSE f
Plotted(points) == FoldLeft(Pset, fb, points)

Stamped(points) ==                      \* points that are plotted once each
  IF nd_pastel = 0 THEN fb ELSE [p \in points \intersect Window |-> Blended(fb[p])] @@ fb

Between(m, a, b) == (a <= m /\ m <= b) \/ (b <= m /\ m <= a)
Hull(x1, y1, x2, y2) == {p \in Window : Between(p[1], x1, x2) /\ Between(p[2], y1, y2)}
BoxFilled(x1, y1, x2, y2) == Stamped(Hull(x1, y1, x2, y2))

(* The offsets of the slower coordinate along Bresenham's n steps.         *)
Offsets(n, slow, i) ==
  LET c2 == 2 * slow
      Step(s, k) == IF s.d > 0
                    THEN [d |-> s.d + c2 - 2 * n, at |-> Append(s.at, s.at[k] + i)]
                    ELSE [d |-> s.d + c2, at |-> Append(s.at, s.at[k])]
  IN FoldLeft(Step, [d |-> c2 - n, at |-> <<0>>], [k \in 1..n |-> k]).at
Toward(a, b) == IF a < b THEN 1 ELSE -1
Onward(x1, y1, x2, y2) ==
  IF Abs(x2 - x1) > Abs(y2 - y1)
  THEN LET at == Offsets(x2 - x1, Abs(y2 - y1), Toward(y1, y2))
       IN [k \in 1..Len(at) |-> <<x1 + k - 1, y1 + at[k]>>]
  ELSE LET at == Offsets(y2 - y1, Abs(x2 - x1), Toward(x1, x2))
       IN [k \in 1..Len(at) |-> <<x1 + at[k], y1 + k - 1>>]
LinePoints_noswap(x1, y1, x2, y2) ==    \* mutant: lines to the left are not turned round
  Onward(x1, y1, x2, y2)
LinePoints(x1, y1, x2, y2) ==
  IF x2 - x1 + y2 - y1 <= 0 THEN Onward(x2, y2, x1, y1) ELSE Onward(x1, y1, x2, y2)

BoxPoints(x1, y1, x2, y2) ==
  LinePoints(x1, y1, x2, y1) \o LinePoints(x1, y2, x2, y2)
    \o LinePoints(x2, y1 + 1, x2, y2 - 1) \o LinePoints(x1, y1 + 1, x1, y2 - 1)

(* Michener's circle, an octant at a time.                                 *)
Quarters(xc, yc, x, y) ==
  << <<xc + x, yc + y>>, <<xc - x, yc + y>>, <<xc + x, yc - y>>, <<xc - x, yc - y>> >>
CirclePoints(xc, yc, r) ==
  LET octants[x \in Nat, y \in Int, d \in Int] ==
        IF x < y
        THEN Quarters(xc, yc, x, y) \o Quarters(xc, yc, y, x)
               \o (IF d < 0 THEN octants[x + 1, y, d + 4 * x + 6]
                   ELSE octants[x + 1, y - 1, d + 4 * (x - y) + 10])
        ELSE IF x = y THEN Quarters(xc, yc, x, y) ELSE <<>>
  IN octants[0, r, 3 - 2 * r]
------------------------------------------------------------------------------
(* Text.  A string is a sequence of bytes without the terminator.          *)
Bit(byte, i) == (byte \div 2^(7 - i)) % 2 = 1
Shifted(dots, x, y) == {<<x + d[1], y + d[2]>> : d \in dots}

(* nd_GsEglPutcharFont: the address of a glyph in its font, its points.    *)
RowBytes(font) == (font.width + 7) \div 8
CharSize(font) == RowBytes(font) * font.height
Offset(code) ==                         \* -1: the font has no such character
  LET from[i \in Nat, at \in Nat] ==
        IF i > Len(KanjiFont.codetable) THEN -1
        ELSE LET range == KanjiFont.codetable[i]
             IN IF range.begin <= code /\ code <= range.end
                THEN at + (code - range.begin) * CharSize(KanjiFont)
                ELSE from[i + 1, at + (range.end - range.begin + 1) * CharSize(KanjiFont)]
  IN from[1, 0]
Kanji(code) == IF Offset(code) = -1 THEN Offset(33184) ELSE Offset(code)
Font(c) == IF c <= 255 THEN AsciiFont ELSE KanjiFont
Glyph(c) == IF c <= 255 THEN c * CharSize(AsciiFont) ELSE Kanji(c)
FontPoints(x, y, c) ==
  Shifted({d \in (0..Font(c).width - 1) \X (0..Font(c).height - 1) :
             Bit(Font(c).bytes[Glyph(c) + d[2] * RowBytes(Font(c)) + (d[1] \div 8)], d[1] % 8)},
          x, y)

(* nd_GsEglPutstrFont: two bytes of a Shift-JIS character are one code.    *)
Lead(c) == c \in 129..159 \union 224..255
StrPoints(x0, y, s) ==
  LET from[k \in Nat, x \in Int] ==
        IF k > Len(s) THEN {}
        ELSE LET c == IF Lead(s[k]) THEN s[k] * 256 + s[k + 1] ELSE s[k]
                 next == x + Font(c).width
             IN FontPoints(x, y, c) \union
                  (IF next > XSize - 1 THEN {}
                   ELSE from[IF Lead(s[k]) THEN k + 2 ELSE k + 1, next])
  IN from[1, x0]

(* nd_GsEglPutchar and nd_GsEglPutstr with the font of eight dots.         *)
CharPoints(x, y, c) ==
  Shifted({d \in (0..7) \X (0..7) : Bit(RomFont[c % 128][d[2] + 1], d[1])}, x, y)
TextPoints(x, y, s) == UNION {CharPoints(x + 8 * (k - 1), y, s[k]) : k \in 1..Len(s)}

(* nd_GsEglPutdec.  The most negative number is its own negative.          *)
Digits[num \in Nat] ==
  IF num > 0 THEN Append(Digits[num \div 10], 48 + (num % 10)) ELSE <<>>
Decimal(c) ==
  IF c = -IntMax - 1 THEN <<45>>
  ELSE IF c < 0 THEN <<45>> \o Digits[-c]
  ELSE IF c = 0 THEN <<48>> ELSE Digits[c]

(* nd_GsEglPuthex2: the font has the hexadecimal digits at 0 to 15 too.    *)
Hex2(c) == <<(c \div 16) % 16, c % 16>>
Hex8(c) == [k \in 1..8 |-> (c \div 16^(8 - k)) % 16]
------------------------------------------------------------------------------
(* The calls.                                                              *)
EglColor(color, pastel) ==
  nd_color' = color /\ nd_pastel' = pastel /\ UNCHANGED <<fb, call>>
Called(op, args, picture) ==
  /\ fb' = picture /\ call' = [op |-> op, args |-> args]
  /\ UNCHANGED <<nd_color, nd_pastel>>
EglPset(x, y) == Called("pset", <<x, y>>, Pset(fb, <<x, y>>))
EglBoxfill(x1, y1, x2, y2) ==
  Called("boxfill", <<x1, y1, x2, y2>>, BoxFilled(x1, y1, x2, y2))
EglBox(x1, y1, x2, y2) ==
  Called("box", <<x1, y1, x2, y2>>, Plotted(BoxPoints(x1, y1, x2, y2)))
EglLine(x1, y1, x2, y2) ==
  Called("line", <<x1, y1, x2, y2>>, Plotted(LinePoints(x1, y1, x2, y2)))
EglCircle(xc, yc, r) == Called("circle", <<xc, yc, r>>, Plotted(CirclePoints(xc, yc, r)))
EglPutstrFont(x, y, s) == Called("symbol", <<x, y, s>>, Stamped(StrPoints(x, y, s)))
EglPutstr(x, y, s) == Called("str", <<x, y, s>>, Stamped(TextPoints(x, y, s)))
EglPutdec(x, y, c) == Called("dec", <<x, y, c>>, Stamped(TextPoints(x, y, Decimal(c))))
EglPuthex2(x, y, c) == Called("hex", <<x, y, 2, c>>, Stamped(TextPoints(x, y, Hex2(c))))
EglPuthex8(x, y, c) == Called("hex", <<x, y, 8, c>>, Stamped(TextPoints(x, y, Hex8(c))))
------------------------------------------------------------------------------
(* What the calls should light, by geometry and by a character's place in  *)
(* the list of the font's codes.                                           *)
Off(p, x1, y1, x2, y2) == Abs((p[1] - x1) * (y2 - y1) - (p[2] - y1) * (x2 - x1))
Longer(x1, y1, x2, y2) ==
  IF Abs(x2 - x1) > Abs(y2 - y1) THEN Abs(x2 - x1) ELSE Abs(y2 - y1)
NextToLine(x1, y1, x2, y2) ==           \* the points next to it in their row or column
  {p \in Hull(x1, y1, x2, y2) : 2 * Off(p, x1, y1, x2, y2) <= Longer(x1, y1, x2, y2)}
Ties(x1, y1, x2, y2) ==                 \* where there are two such points
  {p \in NextToLine(x1, y1, x2, y2) :
     2 * Off(p, x1, y1, x2, y2) = Longer(x1, y1, x2, y2) /\ <<x1, y1>> # <<x2, y2>>}
Outline(x1, y1, x2, y2) ==
  {p \in Hull(x1, y1, x2, y2) : p[1] \in {x1, x2} \/ p[2] \in {y1, y2}}
Ring(xc, yc, r) ==                      \* next to the circle in their row or column
  {p \in Window : LET x == Abs(p[1] - xc)    y == Abs(p[2] - yc)
                  IN Abs(4 * (x * x + y * y - r * r) + 1) <= (IF x > y THEN 4 * x ELSE 4 * y)
                       \/ (r = 0 /\ x + y = 0)}

Codes == FlattenSeq([i \in 1..Len(KanjiFont.codetable) |->
           LET range == KanjiFont.codetable[i]
           IN [k \in 1..range.end - range.begin + 1 |-> range.begin + k - 1]])
Number(c) ==                            \* of the glyph; a character that is missing is a box
  IF c <= 255 THEN c
  ELSE (CHOOSE k \in 1..Len(Codes) : Codes[k] = IF Contains(Codes, c) THEN c ELSE 33184) - 1
Dot(c, i, j) ==
  /\ i \in 0..Font(c).width - 1 /\ j \in 0..Font(c).height - 1
  /\ Bit(Font(c).bytes[(Number(c) * Font(c).height + j) * RowBytes(Font(c)) + (i \div 8)], i % 8)
Chars(s) ==
  LET from[k \in Nat] ==
        IF k > Len(s) THEN <<>>
        ELSE IF Lead(s[k]) THEN <<s[k] * 256 + s[k + 1]>> \o from[k + 2]
        ELSE <<s[k]>> \o from[k + 1]
  IN from[1]
Width(cs) == FoldLeft(LAMBDA w, c : w + Font(c).width, 0, cs)
Symbols(x, y, cs) == {p \in Window : \E k \in 1..Len(cs) :
  Dot(cs[k], p[1] - x - Width(SubSeq(cs, 1, k - 1)), p[2] - y)}
Printed(x, y, s) == {p \in Window : \E k \in 1..Len(s) :
  LET i == p[1] - x - 8 * (k - 1)    j == p[2] - y
  IN i \in 0..7 /\ j \in 0..7 /\ Bit(RomFont[s[k]][j + 1], i)}
Numeral(c) ==
  LET n == CHOOSE n \in 1..10 : 10^(n - 1) <= Abs(c) /\ (n = 10 \/ Abs(c) < 10^n)
      digits == [k \in 1..n |-> 48 + ((Abs(c) \div 10^(n - k)) % 10)]
  IN IF c = 0 THEN <<48>> ELSE IF c < 0 THEN <<45>> \o digits ELSE digits

Figure(op, a) ==
  CASE op = "pset" -> Window \intersect {a}
    [] op = "boxfill" -> Hull(a[1], a[2], a[3], a[4])
    [] op = "box" -> Outline(a[1], a[2], a[3], a[4])
    [] op = "line" -> NextToLine(a[1], a[2], a[3], a[4]) \ Ties(a[1], a[2], a[3], a[4])
    [] op = "circle" -> Ring(a[1], a[2], a[3])
    [] op = "symbol" -> Symbols(a[1], a[2], Chars(a[3]))
    [] op = "str" -> Printed(a[1], a[2], a[3])
    [] op = "dec" -> Printed(a[1], a[2], Numeral(a[3]))
    [] op = "hex" -> Printed(a[1], a[2], [k \in 1..a[3] |-> (a[4] \div 16^(a[3] - k)) % 16])
Either(op, a) == IF op = "line" THEN Ties(a[1], a[2], a[3], a[4]) ELSE {}

(* The library draws what it is asked to, whatever of it is outside of the *)
(* window: a call changes no point but those of the figure, each of them   *)
(* to the colour or from the old level towards it, and of two points that  *)
(* are as close to a line it changes one.  Left out are lines that rise at *)
(* 45 degrees, of which the code draws one point, boxes whose corners are  *)
(* not given from top to bottom, which it draws with sides too long, and   *)
(* the number -2^31, of which it draws the sign.                           *)
Odd(op, a) ==
  \/ op = "line" /\ a[3] - a[1] = a[2] - a[4] /\ a[1] # a[3]
  \/ op = "box" /\ a[2] >= a[4]
  \/ op = "dec" /\ a[3] = -IntMax - 1
Coloured(p) ==
  CASE nd_pastel = 0 -> fb'[p] = fb[p]
    [] nd_pastel >= 256 -> fb'[p] = nd_color
    [] OTHER -> /\ Between(fb'[p], fb[p], nd_color)
                /\ Abs(nd_color - fb[p]) * nd_pastel >= 256 => fb'[p] # fb[p]
Kept(p) == fb'[p] = fb[p]
Twins(p, ties, a) ==                    \* the points as close as p in its row or column
  {q \in ties : q # p /\ IF Abs(a[3] - a[1]) > Abs(a[4] - a[2]) THEN q[1] = p[1] ELSE q[2] = p[2]}
DrawsShape == [][call' # call /\ ~Odd(call'.op, call'.args) =>
  \A lit \in {Figure(call'.op, call'.args)}, ties \in {Either(call'.op, call'.args)} :
    \A p \in Window :
      IF p \in lit THEN Coloured(p)
      ELSE IF p \notin ties THEN Kept(p)
      ELSE /\ Kept(p) \/ Coloured(p)
           /\ \A q \in Twins(p, ties, call'.args) :
                (Kept(p) /\ Coloured(q)) \/ (Kept(q) /\ Coloured(p))]_eglVars
=============================================================================
