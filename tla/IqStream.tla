------------------------------ MODULE IqStream ------------------------------
(***************************************************************************)
(* What the streaming engine promises its subscribers, without a ring, a   *)
(* buffer or a thread: samples are published in order, and each subscriber *)
(* is handed segments of consecutive published samples, in order, starting *)
(* where it subscribed.  It skips samples only when it is more than Lag    *)
(* samples behind ("If a consumer falls behind and the writer laps it,     *)
(* that consumer loses samples", src/sdrgg_internal.h).                    *)
(***************************************************************************)
EXTENDS Integers

CONSTANTS
    Subscribers,
    Segment,       \* samples per callback
    Lag,           \* how far behind a subscriber may be without losing any
    Lengths        \* how many samples are published at a time

VARIABLES
    published,     \* samples published so far
    state,         \* "off", "on" (waiting), or "in" (its callback runs)
    cursor,        \* the next sample of each subscriber
    piece          \* first sample of the segment its callback has

vars == <<published, state, cursor, piece>>

Init ==
    /\ published = 0
    /\ state = [s \in Subscribers |-> "off"]
    /\ cursor = [s \in Subscribers |-> 0]
    /\ piece = [s \in Subscribers |-> 0]

Acquire ==
    \E len \in Lengths :
        /\ published' = published + len
        /\ UNCHANGED <<state, cursor, piece>>

Enter(s) ==
    /\ state[s] = "off"
    /\ state' = [state EXCEPT ![s] = "on"]
    /\ cursor' = [cursor EXCEPT ![s] = published]
    /\ UNCHANGED <<published, piece>>

\* The segment lies beyond what s has had and within what is published.
HandOver(s) ==
    \E p \in cursor[s]..published-Segment :
        /\ state[s] = "on"
        /\ p = cursor[s] \/ published - cursor[s] > Lag
        /\ state' = [state EXCEPT ![s] = "in"]
        /\ piece' = [piece EXCEPT ![s] = p]
        /\ UNCHANGED <<published, cursor>>

TakeBack(s) ==
    /\ state[s] = "in"
    /\ state' = [state EXCEPT ![s] = "on"]
    /\ cursor' = [cursor EXCEPT ![s] = piece[s] + Segment]
    /\ piece' = [piece EXCEPT ![s] = 0]
    /\ UNCHANGED published

Leave(s) ==
    /\ state[s] = "on"
    /\ state' = [state EXCEPT ![s] = "off"]
    /\ UNCHANGED <<published, cursor, piece>>

Next ==
    \/ Acquire
    \/ \E s \in Subscribers : Enter(s) \/ HandOver(s) \/ TakeBack(s) \/ Leave(s)

Spec == Init /\ [][Next]_vars
=============================================================================
