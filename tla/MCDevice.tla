------------------------------ MODULE MCDevice ------------------------------
(***************************************************************************)
(* Instance of Device for TLC: an R820T board and the two kinds of FC0012  *)
(* boards.                                                                 *)
(***************************************************************************)
EXTENDS Device

AllBoards == {[tuner |-> "R820T", pin |-> 4], [tuner |-> "FC0012", pin |-> 4], [tuner |-> "FC0012", pin |-> 7]}

\* Auto, a gain of the table, one between two of it and one above all; three of the FC0012's
SomeGains == {-1, 71, 144, 481, 600}
=============================================================================
