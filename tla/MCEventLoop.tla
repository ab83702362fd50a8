----------------------------- MODULE MCEventLoop -----------------------------
(***************************************************************************)
(* Instances of EventLoop for TLC: two devices that share the loop, and    *)
(* two ids for loop threads, so that a new loop need not be the old one.   *)
(***************************************************************************)
EXTENDS EventLoop

CONSTANTS d1, d2, t1, t2

TwoDevices == {d1, d2}
TwoLoops == {t1, t2}
=============================================================================
