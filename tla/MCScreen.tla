------------------------------ MODULE MCScreen ------------------------------
(* An instance of Screen for TLC: a window of 6 by 11 points, whose band is *)
(* ten rows high.  Heights and lights are scaled so that full scale is two  *)
(* rows from the middle and, at -32768, the light is again 256.            *)
EXTENDS Screen

(* Fonts whose glyphs differ.  The FONTX fonts have two bytes in a row; the *)
(* kanji font has two ranges of codes, and the box in the second one.      *)
MCRomFont == [c \in 0..127 |-> [j \in 1..8 |-> (c * 37 + j * 91 + c * j) % 256]]
MCAscii == [width |-> 3, height |-> 2, bytes |-> [o \in 0..511 |-> (o * 83 + 32) % 256]]
MCKanji == [width |-> 9, height |-> 2, bytes |-> [o \in 0..31 |-> (o * 151 + 64) % 256],
            codetable |-> << [begin |-> 33088, end |-> 33090],
                             [begin |-> 33183, end |-> 33185] >>]

(* Bitmaps smaller and larger than the window, with rows that are filled up *)
(* to four bytes, one cut off in its fourth row, one of a colour refused.  *)
Picture(w, h) == [p \in (0..w - 1) \X (0..h - 1) |-> (p[1] * 53 + p[2] * 29 + 7) % 256]
Bmp(bpp, w, h, len) ==
  [bpp |-> bpp, xsize |-> w, ysize |-> h, len |-> len, pixel |-> Picture(w, h)]
MCBmps == {Bmp(32, 6, 11, 318), Bmp(24, 3, 13, 210), Bmp(24, 7, 4, 150), Bmp(16, 5, 6, 126),
           Bmp(24, 6, 5, 110), Bmp(8, 4, 4, 70)}
MCJunk == {0, 170}

MCHeard == {[k \in 0..1 |-> <<0, 0>>],
            [k \in 0..1 |-> IF k = 0 THEN <<-32768, 100>> ELSE <<700, 32767>>],
            [k \in 0..1 |-> IF k = 0 THEN <<17000, -128>> ELSE <<-129, 1>>]}

MCPens == {<<31, 256>>, <<0, 256>>, <<20, 100>>, <<9, 0>>}
At == {-1, 0, 2, 5, 6}
Corners == (At \X At) \X ({-2, 0, 1, 4, 7} \X {-1, 0, 3, 5, 12})
Four(op) == {[op |-> op, args |-> <<c[1][1], c[1][2], c[2][1], c[2][2]>>] : c \in Corners}
Text == {<<72>>, <<72, 105>>, <<65, 46, 57>>}
Symbol == {<<65>>, <<65, 129, 64, 66>>, <<129, 160>>, <<136, 159, 65>>, <<66, 65, 67, 68>>}
MCCalls ==
  Four("line") \union Four("box") \union Four("boxfill")
    \union {[op |-> "pset", args |-> p] : p \in At \X At}
    \union {[op |-> "circle", args |-> <<p[1], p[2], r>>] : p \in At \X {0, 5}, r \in 0..6}
    \union {[op |-> "str", args |-> <<p[1], p[2], s>>] : p \in At \X {-3, 4}, s \in Text}
    \union {[op |-> "symbol", args |-> <<p[1], p[2], s>>] : p \in At \X {-1, 4}, s \in Symbol}
    \union {[op |-> "dec", args |-> <<x, 1, c>>] :
              x \in {0, -8, -32}, c \in {0, 7, -20, 1030, 2147483647, -2147483647, -2147483647 - 1}}
    \union {[op |-> op, args |-> <<x, 1, c>>] :
              op \in {"hex2", "hex8"}, x \in {0, -8, -24, -53}, c \in {0, 31, 195, 2147483647}}
=============================================================================
