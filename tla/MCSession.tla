------------------------------ MODULE MCSession ------------------------------
(***************************************************************************)
(* Instances of Session for TLC: two USB devices and two slots, with one   *)
(* thread more than either.                                                *)
(***************************************************************************)
EXTENDS Session, TLC

CONSTANTS p1, p2, s1, s2, s3

TwoPaths == {p1, p2}
ThreeSessions == {s1, s2, s3}

\* Neither devices nor threads are told apart.
Interchangeable == Permutations(TwoPaths) \cup Permutations(ThreeSessions)
=============================================================================
