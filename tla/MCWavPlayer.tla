---------------------------- MODULE MCWavPlayer ----------------------------
(* Instances of WavPlayer for TLC.                                         *)
EXTENDS WavPlayerInv, TLC

CONSTANTS A, B, C, D

(* Four files: A, three bursts of two words, is longer than the FIFO, ends  *)
(* with a part of a word and is followed by other data; B is one burst, D  *)
(* one that is not full; C is refused.  In MCDataShort A is cut off behind *)
(* its third word.                                                         *)
MCWord == ({A, B, C, D} \X (0..28)) \union {Silence}
MCListing == <<C, A, B, D>>
MCWavSize == (A :> 26) @@ (B :> 8) @@ (C :> 0) @@ (D :> 6)
MCDataLen == (A :> 28) @@ (B :> 8) @@ (C :> 0) @@ (D :> 8)
MCDataShort == (A :> 12) @@ (B :> 8) @@ (C :> 0) @@ (D :> 6)
=============================================================================
