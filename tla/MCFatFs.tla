------------------------------ MODULE MCFatFs ------------------------------
(* Instances of FatFs for TLC: a file with a short name, one with a long   *)
(* one, a folder with a file of the same long name.                        *)
EXTENDS FatFsInv, TLC

MCNames == {"a", "b", "long", "longer", "d"}
MCSlots == [n \in MCNames |-> IF n \in {"long", "longer"} THEN 2 ELSE 1]
MCStem == [n \in MCNames |-> IF n \in {"long", "longer"} THEN "lo" ELSE n]
MCPath == {<<"a">>, <<"long">>, <<"d", "longer">>}
MCFolder == {<<"d">>}
MCRoot == {<<>>}
MCTwo == {<<"a">>, <<"b">>}
MCSymmetry == Permutations(Handle)
=============================================================================
