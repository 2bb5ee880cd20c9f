------------------------------ MODULE Playback ------------------------------
(***************************************************************************)
(* What the player promises the listener, seen at the DAC: tracks begin,   *)
(* and the samples of the track that began last come out one by one, in    *)
(* the order of its file, none twice, none left out, none from elsewhere,  *)
(* with silence allowed between them.  A track may be left unfinished.     *)
(***************************************************************************)
EXTENDS Integers

CONSTANTS
  Files,
  NoFile,
  Length,    \* [Files -> words of the track]
  Silence

VARIABLES
  track,     \* the track that began last
  heard,     \* words of it that have come out
  out        \* what came out last

vars == <<track, heard, out>>

Init ==
  /\ track = NoFile
  /\ heard = 0
  /\ out = Silence

Begin ==
  /\ track' \in Files
  /\ heard' = 0
  /\ UNCHANGED out

Sound ==
  /\ track # NoFile
  /\ heard < Length[track]
  /\ out' = <<track, heard>>
  /\ heard' = heard + 1
  /\ UNCHANGED track

Quiet ==
  /\ out' = Silence
  /\ UNCHANGED <<track, heard>>

Next == Begin \/ Sound \/ Quiet

Spec == Init /\ [][Next]_vars
=============================================================================
