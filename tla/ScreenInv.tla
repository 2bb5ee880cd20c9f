------------------------------ MODULE ScreenInv ------------------------------
(* What the wallpaper, its darkened copy and the light have to do with each *)
(* other at each moment of main: the invariant behind PictureKept, which   *)
(* ScreenProofs shows to be inductive.                                     *)
EXTENDS Screen

TypeOK ==
  /\ phase \in {"boot", "load", "rows", "init", "wait", "library", "call", "done"}
  /\ file \in Bmps \union {NoBmp} /\ rows \in Int /\ rows <= Rows(file)
  /\ dbuff \in [Lamps -> 0..255]

(* Before loadbmp there is no picture, then grey.                          *)
GreyInv ==
  /\ phase \in {"boot", "load"} => file = NoBmp /\ rows = 0
  /\ phase = "load" => \A p \in Window : fb[p] = GRAY

(* While loadbmp reads, its buffer is a row of the window's and the header *)
(* is one it reads rows of.                                                *)
RowsInv == phase = "rows" =>
  /\ file \in Bmps /\ file.bpp \in {16, 24, 32} /\ file.len >= 54
  /\ rows >= 0
  /\ DOMAIN bmp_pixel = 0..4 * XSize - 1

(* What drawwave takes the band from is the wallpaper darkened, however    *)
(* often the band has been drawn over.                                     *)
BandInv == phase = "wait" /\ rows >= 0 =>
  \A p \in Window : Whole(p) /\ p[2] >= Top =>
    pbuff[<<p[1], p[2] - Top>>] = Dim(Wallpaper(p), Share(p[2] - Top))

SInv == TypeOK /\ GreyInv /\ RowsInv /\ BandInv /\ PictureKept
=============================================================================
