------------------------------ MODULE MCIqRing ------------------------------
(***************************************************************************)
(* Instance of IqRing for TLC: a ring of two segments, positions that wrap *)
(* after two rings, and a stream that is longer than that.  The writer     *)
(* publishes less than a segment or a whole one at a time.                 *)
(***************************************************************************)
EXTENDS IqRing

CONSTANTS c1

OneConsumer == {c1}
PartOrSegment == {1, 2}
TwoSegments == 4
TwoRings == 8
PastTheWrap == 11
=============================================================================
