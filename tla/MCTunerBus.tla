----------------------------- MODULE MCTunerBus -----------------------------
(***************************************************************************)
(* Instances of TunerBus for TLC: two frequencies and gains, one rate      *)
(* below 2 MS/s and one above.                                             *)
(***************************************************************************)
EXTENDS TunerBus, TLC

CONSTANTS t1, t2

TwoThreads == {t1, t2}
NarrowAndWide == <<0, 2>>

Alike == Permutations(TwoThreads)
=============================================================================
