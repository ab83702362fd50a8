---------------------------- MODULE MCStreaming ----------------------------
(***************************************************************************)
(* Instances of Streaming for TLC: two application threads that compete    *)
(* for the slot that start's own subscription leaves, and a thread id more *)
(* than slots, so that a new thread need not get the id of the last one.   *)
(***************************************************************************)
EXTENDS Streaming

CONSTANTS u1, u2, x1, x2, x3

TwoCallers == {u1, u2}
ThreeThreads == {x1, x2, x3}

\* Subscribers come and go independently; start and stop are made by an
\* application that knows that no other call is running.
IndependentSubscribers == SUBSET {"subscribe", "unsubscribe"}
=============================================================================
