--------------------------- MODULE StreamingProofs ---------------------------
(***************************************************************************)
(* The invariants of Streaming, proved for any number of callers, thread   *)
(* ids and slots, when the application does what the calls need of it:     *)
(* start and stop run alone (StartStopAlone).  Subscribers may come and go *)
(* side by side.                                                           *)
(*                                                                         *)
(* The four hold together or not at all: that a thread is joined once      *)
(* needs its slot to be its own, that needs to know whose each slot is,    *)
(* and that the memory outlives the threads needs to know which step of    *)
(* start and stop leaves which of them behind.                             *)
(***************************************************************************)
EXTENDS Streaming, FiniteSetTheorems, TLAPS

\* No other call is under way during start and stop: the two look at active and change it
\* without a lock (src/sdrgg_ring.cpp 231-320).
StartStopAlone == \A pair \in MayOverlap : "start" \notin pair /\ "stop" \notin pair

Unsubscribing == {"un_lock", "un_cancel", "un_join", "un_joining", "un_lock2", "un_release"}

Alone(t) == call[t].op \in {"start", "stop"}

\* Each call is at one of its steps, and start and stop are the only call there is.
CallsFit ==
    /\ \A t \in Callers :
           LET op == call[t].op
               pc == call[t].pc
           IN  /\ op = "none" <=> pc = "idle"
               /\ op = "start" => pc \in {"init", "create_reader", "sub_check", "sub_lock",
                                         "sub_pick", "sub_create", "undo", "undo_join", "destroy"}
               /\ op = "stop" => pc \in {"scan", "join_reader", "down", "destroy"}
                                        \cup Unsubscribing
               /\ op = "subscribe" => pc \in {"sub_lock", "sub_pick", "sub_create"}
               /\ op = "unsubscribe" => pc \in Unsubscribing
    /\ \A t, u \in Callers : Alone(t) /\ t # u => At(u, "idle")

\* Everywhere between lock and unlock
Locking == {"sub_pick", "sub_create", "un_cancel", "un_release"}

LockHeld == \A t \in Callers : call[t].pc \in Locking <=> sub_lock = t

Serving(x) == thread[x].pc # "free"

\* A thread has its slot ...
ThreadFits(x) ==
    Serving(x) =>
        LET i == thread[x].slot
        IN  i \in Slots /\ subs[i].active /\ subs[i].thread_started /\ subs[i].thread = x

\* ... and a slot whose thread was started its thread.
SlotFits(i) ==
    subs[i].thread_started =>
        LET x == subs[i].thread
        IN  subs[i].active /\ x # None /\ Serving(x) /\ thread[x].slot = i

SlotsFit == (\A x \in Threads : ThreadFits(x)) /\ (\A i \in Slots : SlotFits(i))

Ends(t) == call[t].pc \in Unsubscribing

\* Whose a slot is: of the subscribe that fills it, the unsubscribe that ends it or the
\* handle it was given out as, and of only one of them.
PickedIsFree ==
    \A t \in Callers : At(t, "sub_create") => call[t].h \in Slots /\ ~subs[call[t].h].active

EndedIsActive ==
    \A t \in Callers :
        Ends(t) =>
            LET i == call[t].h
            IN  /\ i \in Slots /\ subs[i].active
                /\ subs[i].thread_started <=> call[t].pc \notin {"un_lock2", "un_release"}

\* A slot without a thread is free, or about to be.
Served(i) ==
    subs[i].active => subs[i].thread_started \/ \E t \in Callers : Ends(t) /\ call[t].h = i

ActiveIsServed == \A i \in Slots : Served(i)

EndedByOne == \A t, u \in Callers : Ends(t) /\ Ends(u) /\ t # u => call[t].h # call[u].h

NoneAlone == \A t \in Callers : ~Alone(t)

HandleFits(t, h) ==
    /\ subs[h].thread_started
    /\ \A u \in Callers : Ends(u) => call[u].h # h
    /\ \A u \in Callers \ {t} : h \notin handles[u]

HandlesFit == NoneAlone => \A t \in Callers : \A h \in handles[t] : HandleFits(t, h)

\* No consumer and no subscription.
Empty ==
    /\ \A x \in Threads : ~Serving(x)
    /\ \A i \in Slots : ~subs[i].active

Nothing == ~active /\ reader = "none" /\ Empty /\ ring # "live"
Whole == active /\ reader # "none" /\ reader_started /\ ring = "live"

\* What there is of ring, reader and subscriptions outside of start and stop ...
Resting ==
    NoneAlone =>
        IF active THEN Whole
        ELSE Nothing /\ \A t \in Callers : At(t, "idle") /\ handles[t] = {}

\* ... and at each step of theirs.
Starts ==
    \A t \in Callers :
        call[t].op = "start" =>
            /\ Empty
            /\ \A u \in Callers : handles[u] = {}
            /\ At(t, "init") => Nothing
            /\ At(t, "create_reader") => active /\ reader = "none" /\ ring = "live"
            /\ At(t, "destroy") => ~active /\ reader = "none" /\ ring = "live"
            /\ call[t].pc \notin {"init", "create_reader", "destroy"} => Whole

Stops ==
    \A t \in Callers :
        call[t].op = "stop" =>
            /\ At(t, "scan") \/ At(t, "join_reader") \/ Ends(t) => Whole
            /\ At(t, "scan") => \A i \in Slots : i <= call[t].h => ~subs[i].active
            /\ Ends(t) => \A i \in Slots : i < call[t].h => ~subs[i].active
            /\ call[t].pc \in {"join_reader", "down", "destroy"} => Empty
            /\ At(t, "down") => reader = "none" /\ ring = "live"
            /\ At(t, "destroy") => ~active /\ reader = "none" /\ ring = "live"

Inv ==
    /\ TypeOK /\ CallsFit /\ LockHeld /\ SlotsFit
    /\ PickedIsFree /\ EndedIsActive /\ EndedByOne /\ ActiveIsServed /\ HandlesFit
    /\ Resting /\ Starts /\ Stops

-----------------------------------------------------------------------------
(* Lemmas about single steps.                                              *)

(* A set of slots has a least element, found by the well-founded order of  *)
(* the finite sets of the numbers below each.                              *)
LEMMA LeastElement ==
    ASSUME NEW n \in Nat, NEW S \in SUBSET (0..n), S # {}
    PROVE  \E x \in S : \A y \in S : x <= y
<1> DEFINE Below(x) == {z \in 0..n : z <= x}
           Belows == {Below(x) : x \in S}
<1>1. IsWellFoundedOn(StrictSubsetOrdering(0..n), SUBSET (0..n))
    <2>1. IsFiniteSet(0..n)
        BY FS_Interval
    <2> QED BY <2>1, FS_FiniteSubsetsOfFinite, FS_StrictSubsetOrderingWellFounded
<1>2. Belows \subseteq SUBSET (0..n) /\ Belows # {}
    OBVIOUS
<1>3. \E T \in Belows : \A U \in Belows : <<U, T>> \notin StrictSubsetOrdering(0..n)
    <2> HIDE DEF Belows
    <2> QED BY <1>1, <1>2, WFMin
<1>4. PICK x \in S : \A y \in S : <<Below(y), Below(x)>> \notin StrictSubsetOrdering(0..n)
    BY <1>3
<1>5. ASSUME NEW y \in S PROVE x <= y
    <2>1. SUFFICES ASSUME y < x PROVE FALSE
        OBVIOUS
    <2>2. Below(y) \subseteq Below(x) /\ x \in Below(x) /\ x \notin Below(y)
        BY <2>1
    <2>3. Below(y) \in SUBSET (0..n) /\ Below(x) \in SUBSET (0..n) /\ Below(y) # Below(x)
        BY <2>2
    <2> QED BY <1>4, <2>2, <2>3 DEF StrictSubsetOrdering
<1> QED BY <1>5

(* subscribe takes the first slot that is not active                       *)
(* (src/sdrgg_ring.cpp 262-273).                                           *)
LEMMA FirstInactiveIsInactive ==
    ASSUME Inactive # {}
    PROVE  FirstInactive \in Slots /\ ~subs[FirstInactive].active
<1>1. Inactive \in SUBSET (0..NSlots) /\ NSlots \in Nat
    BY StreamingAssumption DEF Inactive, Slots
<1>2. \E i \in Inactive : \A j \in Inactive : i <= j
    BY <1>1, LeastElement
<1> QED BY <1>2 DEF FirstInactive, Inactive

\* After the step t is at pc of op, with slot h; the other callers are where they were.
Moves(t, op, pc, h) ==
    /\ call' \in [Callers -> [op : {"none"} \cup Ops, pc : PCs, h : 0..NSlots]]
    /\ call'[t].op = op /\ call'[t].pc = pc /\ call'[t].h = h
    /\ \A u \in Callers \ {t} : call'[u] = call[u]

(* A step of a call changes that call only ...                             *)
LEMMA BeginMoves ==
    ASSUME TypeOK, NEW t \in Callers, NEW op \in {"none"} \cup Ops, NEW pc \in PCs,
           NEW h \in 0..NSlots, call' = [call EXCEPT ![t] = [op |-> op, pc |-> pc, h |-> h]]
    PROVE  Moves(t, op, pc, h)
<1> DEFINE Call == [op : {"none"} \cup Ops, pc : PCs, h : 0..NSlots]
           c == [op |-> op, pc |-> pc, h |-> h]
<1>1. c \in Call /\ c.op = op /\ c.pc = pc /\ c.h = h
    OBVIOUS
<1>2. call \in [Callers -> Call] /\ call' = [call EXCEPT ![t] = c]
    BY DEF TypeOK
<1> HIDE DEF c
<1> QED BY <1>1, <1>2 DEF Moves

(* ... to another place,                                                   *)
LEMMA GotoMoves ==
    ASSUME TypeOK, NEW t \in Callers, NEW pc \in PCs,
           Goto(t, pc)
    PROVE  Moves(t, call[t].op, pc, call[t].h)
<1> DEFINE Call == [op : {"none"} \cup Ops, pc : PCs, h : 0..NSlots]
           c == [call[t] EXCEPT !.pc = pc]
<1>1. call \in [Callers -> Call] /\ call[t] \in Call
    BY DEF TypeOK
<1>2. c \in Call /\ c.op = call[t].op /\ c.pc = pc /\ c.h = call[t].h
    BY <1>1
<1>3. call' = [call EXCEPT ![t] = c]
    BY <1>1 DEF Goto
<1> HIDE DEF c
<1> QED BY <1>1, <1>2, <1>3 DEF Moves

(* ... with another slot,                                                  *)
LEMMA PickMoves ==
    ASSUME TypeOK, NEW t \in Callers, NEW pc \in PCs, NEW h \in 0..NSlots,
           call' = [call EXCEPT ![t] = [@ EXCEPT !.pc = pc, !.h = h]]
    PROVE  Moves(t, call[t].op, pc, h)
<1> DEFINE Call == [op : {"none"} \cup Ops, pc : PCs, h : 0..NSlots]
           c == [call[t] EXCEPT !.pc = pc, !.h = h]
<1>1. call \in [Callers -> Call] /\ call[t] \in Call
    BY DEF TypeOK
<1>2. c \in Call /\ c.op = call[t].op /\ c.pc = pc /\ c.h = h
    BY <1>1
<1>3. call' = [call EXCEPT ![t] = c]
    BY <1>1 DEF Goto
<1> HIDE DEF c
<1> QED BY <1>1, <1>2, <1>3 DEF Moves

(* ... or out of the call.                                                 *)
LEMMA ReturnMoves ==
    ASSUME TypeOK, NEW t \in Callers, Return(t)
    PROVE  Moves(t, "none", "idle", 0)
<1>1. "idle" \in PCs /\ 0 \in 0..NSlots
    BY StreamingAssumption DEF PCs
<1> QED BY <1>1, BeginMoves DEF Return, Idle

\* After the step slot i has the values given, and the other slots those they had.
Becomes(i, act, can, started, x) ==
    /\ subs' \in [Slots -> [active : BOOLEAN, cancel : BOOLEAN, thread_started : BOOLEAN,
                            thread : Threads \cup {None}]]
    /\ subs'[i].active = act /\ subs'[i].cancel = can
    /\ subs'[i].thread_started = started /\ subs'[i].thread = x
    /\ \A j \in Slots \ {i} : subs'[j] = subs[j]

(* What the steps under sub_lock write to a slot.                          *)
LEMMA SlotBecomes ==
    ASSUME TypeOK, NEW i \in Slots, NEW act \in BOOLEAN, NEW can \in BOOLEAN,
           NEW started \in BOOLEAN, NEW x \in Threads \cup {None},
           subs' = [subs EXCEPT ![i] = [active |-> act, cancel |-> can,
                                        thread_started |-> started, thread |-> x]]
    PROVE  Becomes(i, act, can, started, x)
<1> DEFINE Sub == [active : BOOLEAN, cancel : BOOLEAN, thread_started : BOOLEAN,
                   thread : Threads \cup {None}]
           c == [active |-> act, cancel |-> can, thread_started |-> started, thread |-> x]
<1>1. /\ c \in Sub
      /\ c.active = act
      /\ c.cancel = can
      /\ c.thread_started = started
      /\ c.thread = x
    OBVIOUS
<1>2. subs \in [Slots -> Sub] /\ subs' = [subs EXCEPT ![i] = c]
    BY DEF TypeOK
<1> HIDE DEF c
<1> QED BY <1>1, <1>2 DEF Becomes

LEMMA SlotCancelled ==
    ASSUME TypeOK, NEW i \in Slots, subs' = [subs EXCEPT ![i].cancel = TRUE]
    PROVE  Becomes(i, subs[i].active, TRUE, subs[i].thread_started, subs[i].thread)
<1> DEFINE Sub == [active : BOOLEAN, cancel : BOOLEAN, thread_started : BOOLEAN,
                   thread : Threads \cup {None}]
           c == [subs[i] EXCEPT !.cancel = TRUE]
<1>1. subs \in [Slots -> Sub] /\ subs[i] \in Sub
    BY DEF TypeOK
<1>2. c \in Sub /\ c.active = subs[i].active /\ c.cancel = TRUE
      /\ c.thread_started = subs[i].thread_started /\ c.thread = subs[i].thread
    BY <1>1
<1>3. subs' = [subs EXCEPT ![i] = c]
    BY <1>1
<1> HIDE DEF c
<1> QED BY <1>1, <1>2, <1>3 DEF Becomes

LEMMA SlotJoined ==
    ASSUME TypeOK, NEW i \in Slots, subs' = [subs EXCEPT ![i].thread_started = FALSE]
    PROVE  Becomes(i, subs[i].active, subs[i].cancel, FALSE, subs[i].thread)
<1> DEFINE Sub == [active : BOOLEAN, cancel : BOOLEAN, thread_started : BOOLEAN,
                   thread : Threads \cup {None}]
           c == [subs[i] EXCEPT !.thread_started = FALSE]
<1>1. subs \in [Slots -> Sub] /\ subs[i] \in Sub
    BY DEF TypeOK
<1>2. c \in Sub /\ c.active = subs[i].active /\ c.cancel = subs[i].cancel
      /\ c.thread_started = FALSE /\ c.thread = subs[i].thread
    BY <1>1
<1>3. subs' = [subs EXCEPT ![i] = c]
    BY <1>1
<1> HIDE DEF c
<1> QED BY <1>1, <1>2, <1>3 DEF Becomes

LEMMA SlotReleased ==
    ASSUME TypeOK, NEW i \in Slots, subs' = [subs EXCEPT ![i].active = FALSE]
    PROVE  Becomes(i, FALSE, subs[i].cancel, subs[i].thread_started, subs[i].thread)
<1> DEFINE Sub == [active : BOOLEAN, cancel : BOOLEAN, thread_started : BOOLEAN,
                   thread : Threads \cup {None}]
           c == [subs[i] EXCEPT !.active = FALSE]
<1>1. subs \in [Slots -> Sub] /\ subs[i] \in Sub
    BY DEF TypeOK
<1>2. c \in Sub /\ c.active = FALSE /\ c.cancel = subs[i].cancel
      /\ c.thread_started = subs[i].thread_started /\ c.thread = subs[i].thread
    BY <1>1
<1>3. subs' = [subs EXCEPT ![i] = c]
    BY <1>1
<1> HIDE DEF c
<1> QED BY <1>1, <1>2, <1>3 DEF Becomes

LEMMA SlotTakenBack ==
    ASSUME TypeOK, NEW i \in Slots,
           subs' = [subs EXCEPT ![i] = [@ EXCEPT !.active = FALSE, !.cancel = FALSE]]
    PROVE  Becomes(i, FALSE, FALSE, subs[i].thread_started, subs[i].thread)
<1> DEFINE Sub == [active : BOOLEAN, cancel : BOOLEAN, thread_started : BOOLEAN,
                   thread : Threads \cup {None}]
           c == [subs[i] EXCEPT !.active = FALSE, !.cancel = FALSE]
<1>1. subs \in [Slots -> Sub] /\ subs[i] \in Sub
    BY DEF TypeOK
<1>2. c \in Sub /\ c.active = FALSE /\ c.cancel = FALSE
      /\ c.thread_started = subs[i].thread_started /\ c.thread = subs[i].thread
    BY <1>1
<1>3. subs' = [subs EXCEPT ![i] = c]
    BY <1>1
<1> HIDE DEF c
<1> QED BY <1>1, <1>2, <1>3 DEF Becomes

(* Which call a step belongs to.                                           *)
LEMMA StepTellsCall ==
    ASSUME TypeOK, CallsFit, NEW t \in Callers
    PROVE  /\ call[t].pc \in {"init", "create_reader", "sub_check", "undo", "undo_join"}
                  => call[t].op = "start"
           /\ call[t].pc \in {"scan", "join_reader", "down"} => call[t].op = "stop"
           /\ call[t].pc = "destroy" => call[t].op \in {"start", "stop"}
           /\ call[t].pc \in {"sub_lock", "sub_pick", "sub_create"}
                  => call[t].op \in {"start", "subscribe"}
           /\ call[t].pc \in Unsubscribing => call[t].op \in {"stop", "unsubscribe"}
<1>1. call[t].op \in {"none", "start", "stop", "subscribe", "unsubscribe"}
    BY DEF TypeOK, Ops
<1> QED BY <1>1 DEF CallsFit, Unsubscribing

\* If t is in start or stop the others are idle, and none of them is in one.
AloneAmong(t) ==
    \A u \in Callers \ {t} : ~Alone(u) /\ (Alone(t) => call[u].pc = "idle" /\ call[u].op = "none")

(* While a call is under way, no other caller is in start or stop.         *)
LEMMA OneIsAlone ==
    ASSUME CallsFit, NEW t \in Callers, ~At(t, "idle")
    PROVE  AloneAmong(t)
<1>1. \A u \in Callers \ {t} : ~Alone(u)
    BY DEF CallsFit, At
<1>2. ASSUME NEW u \in Callers \ {t}, Alone(t) PROVE call[u].pc = "idle" /\ call[u].op = "none"
    BY <1>2 DEF CallsFit, At
<1> QED BY <1>1, <1>2 DEF AloneAmong

(* A call begins beside calls other than start and stop, and if it is one  *)
(* of these beside none.                                                   *)
LEMMA CallBegins ==
    ASSUME CallsFit, StartStopAlone, NEW t \in Callers, NEW op \in Ops, MayCall(t, op)
    PROVE  /\ call[t].pc = "idle" /\ call[t].op = "none"
           /\ \A u \in Callers \ {t} :
                  /\ ~Alone(u)
                  /\ op \in {"start", "stop"} => call[u].pc = "idle" /\ call[u].op = "none"
<1>1. call[t].pc = "idle" /\ call[t].op = "none"
    BY DEF MayCall, At, CallsFit
<1>2. ASSUME NEW u \in Callers \ {t}, Alone(u) PROVE FALSE
    <2>1. ~At(u, "idle") /\ {op, call[u].op} \in MayOverlap
        BY <1>2 DEF MayCall, At, CallsFit, Alone
    <2> QED BY <1>2, <2>1 DEF StartStopAlone, Alone
<1>3. ASSUME NEW u \in Callers \ {t}, op \in {"start", "stop"}
      PROVE  call[u].pc = "idle" /\ call[u].op = "none"
    <2>1. At(u, "idle")
        BY <1>3 DEF MayCall, StartStopAlone
    <2> QED BY <2>1 DEF At, CallsFit
<1> QED BY <1>1, <1>2, <1>3

-----------------------------------------------------------------------------
(* Every step keeps the invariant.                                         *)

(* The steps of subscribe.                                                 *)
LEMMA SubscribingKeepsInv ==
    ASSUME Inv, StartStopAlone, NEW t \in Callers,
           StartSubscribes(t) \/ LockToSubscribe(t) \/ PickSlot(t)
           \/ NoSlot(t) \/ CreateConsumer(t) \/ CreateConsumerFails(t)
    PROVE  Inv'
<1> USE DEF At, stream, reading
<1>1. CASE StartSubscribes(t)
    <2> USE DEF Inv
    <2>1. /\ At(t, "sub_check")
          /\ UNCHANGED <<stream, reading, health, ring, sub_lock, subs, thread, handles>>
        BY <1>1 DEF StartSubscribes
    <2>2. /\ active => Moves(t, call[t].op, "sub_lock", call[t].h)
          /\ ~active => Moves(t, call[t].op, "undo", call[t].h)
        BY <1>1, GotoMoves DEF PCs, Ops, StartSubscribes
    <2>3. call[t].op = "start" /\ AloneAmong(t)
        BY <2>1, StepTellsCall, OneIsAlone DEF Unsubscribing
    <2>4. TypeOK'
        BY <2>1, <2>2, <2>3 DEF TypeOK, Moves, Becomes
    <2>5. CallsFit'
        BY <2>1, <2>2, <2>3
        DEF CallsFit, AloneAmong, Alone, Idle, StartStopAlone, Unsubscribing, Moves
    <2>6. LockHeld'
        BY <2>1, <2>2, <2>3, StreamingAssumption DEF LockHeld, Locking, Alone, Moves, AloneAmong
    <2>7. SlotsFit'
        BY <2>1, <2>2, <2>3 DEF SlotsFit, ThreadFits, SlotFits, Serving, Becomes
    <2>8. PickedIsFree'
        BY <2>1, <2>2, <2>3 DEF PickedIsFree, Moves, Becomes
    <2>9. EndedIsActive'
        BY <2>1, <2>2, <2>3 DEF EndedIsActive, Ends, Unsubscribing, Moves, Becomes
    <2>10. EndedByOne'
        BY <2>1, <2>2, <2>3 DEF EndedByOne, Ends, Unsubscribing, Moves
    <2>11. ActiveIsServed'
        BY <2>1, <2>2, <2>3 DEF ActiveIsServed, Served, Ends, Unsubscribing, Moves, Becomes
    <2>12. HandlesFit'
        BY <2>1, <2>2, <2>3
        DEF HandlesFit, HandleFits, NoneAlone, Alone, Ends, Unsubscribing, Moves, Becomes
    <2>13. Resting'
        BY <2>1, <2>2, <2>3 DEF Resting, NoneAlone, Alone, Moves, Whole
    <2>14. Starts'
        BY <2>1, <2>2, <2>3 DEF Starts, Alone, AloneAmong, Moves, Empty, Serving, Nothing, Whole
    <2>15. Stops'
        BY <2>1, <2>2, <2>3 DEF Stops, Alone, AloneAmong, Moves
    <2> QED BY <2>4, <2>5, <2>6, <2>7, <2>8, <2>9, <2>10, <2>11, <2>12, <2>13, <2>14, <2>15
<1>2. CASE LockToSubscribe(t)
    <2> USE DEF Inv
    <2>1. /\ At(t, "sub_lock") /\ sub_lock = None /\ sub_lock' = t
          /\ UNCHANGED <<stream, reading, health, ring, subs, thread, handles>>
        BY <1>2 DEF LockToSubscribe, LockSub
    <2>2. Moves(t, call[t].op, "sub_pick", call[t].h)
        BY <1>2, GotoMoves DEF PCs, Ops, LockToSubscribe, LockSub
    <2>3. call[t].op \in {"start", "subscribe"} /\ AloneAmong(t)
        BY <2>1, StepTellsCall, OneIsAlone DEF Unsubscribing
    <2>4. TypeOK'
        BY <2>1, <2>2, <2>3 DEF TypeOK, Moves, Becomes
    <2>5. CallsFit'
        BY <2>1, <2>2, <2>3
        DEF CallsFit, AloneAmong, Alone, Idle, StartStopAlone, Unsubscribing, Moves
    <2>6. LockHeld'
        BY <2>1, <2>2, <2>3, StreamingAssumption DEF LockHeld, Locking, Alone, Moves, AloneAmong
    <2>7. SlotsFit'
        BY <2>1, <2>2, <2>3 DEF SlotsFit, ThreadFits, SlotFits, Serving, Becomes
    <2>8. PickedIsFree'
        BY <2>1, <2>2, <2>3 DEF PickedIsFree, Moves, Becomes
    <2>9. EndedIsActive'
        BY <2>1, <2>2, <2>3 DEF EndedIsActive, Ends, Unsubscribing, Moves, Becomes
    <2>10. EndedByOne'
        BY <2>1, <2>2, <2>3 DEF EndedByOne, Ends, Unsubscribing, Moves
    <2>11. ActiveIsServed'
        BY <2>1, <2>2, <2>3 DEF ActiveIsServed, Served, Ends, Unsubscribing, Moves, Becomes
    <2>12. HandlesFit'
        BY <2>1, <2>2, <2>3
        DEF HandlesFit, HandleFits, NoneAlone, Alone, Ends, Unsubscribing, Moves, Becomes
    <2>13. Resting'
        BY <2>1, <2>2, <2>3 DEF Resting, NoneAlone, Alone, Moves, Whole
    <2>14. Starts'
        BY <2>1, <2>2, <2>3 DEF Starts, Alone, AloneAmong, Moves, Empty, Serving, Nothing, Whole
    <2>15. Stops'
        BY <2>1, <2>2, <2>3 DEF Stops, Alone, AloneAmong, Moves
    <2> QED BY <2>4, <2>5, <2>6, <2>7, <2>8, <2>9, <2>10, <2>11, <2>12, <2>13, <2>14, <2>15
<1>3. CASE PickSlot(t)
    <2> USE DEF Inv
    <2>1. /\ At(t, "sub_pick")
          /\ UNCHANGED <<stream, reading, health, ring, sub_lock, subs, thread, handles>>
        BY <1>3 DEF PickSlot
    <2>2. Moves(t, call[t].op, "sub_create", FirstInactive)
        <3>1. FirstInactive \in Slots /\ ~subs[FirstInactive].active
            BY <1>3, FirstInactiveIsInactive DEF PickSlot
        <3>2. call' = [call EXCEPT ![t] = [@ EXCEPT !.pc = "sub_create", !.h = FirstInactive]]
            BY <1>3 DEF PickSlot
        <3>3. "sub_create" \in PCs
            BY DEF PCs
        <3>4. FirstInactive \in 0..NSlots
            BY <3>1, StreamingAssumption DEF Slots
        <3> HIDE DEF FirstInactive
        <3> QED BY <3>2, <3>3, <3>4, PickMoves
    <2>3. call[t].op \in {"start", "subscribe"} /\ AloneAmong(t)
        BY <2>1, StepTellsCall, OneIsAlone DEF Unsubscribing
    <2>4. FirstInactive \in Slots /\ ~subs[FirstInactive].active
        BY <1>3, FirstInactiveIsInactive DEF PickSlot
    <2>5. TypeOK'
        BY <2>1, <2>2, <2>3, <2>4 DEF TypeOK, Moves, Becomes
    <2>6. CallsFit'
        BY <2>1, <2>2, <2>3, <2>4
        DEF CallsFit, AloneAmong, Alone, Idle, StartStopAlone, Unsubscribing, Moves
    <2>7. LockHeld'
        BY <2>1, <2>2, <2>3, <2>4, StreamingAssumption
        DEF LockHeld, Locking, Alone, Moves, AloneAmong
    <2>8. SlotsFit'
        BY <2>1, <2>2, <2>3, <2>4 DEF SlotsFit, ThreadFits, SlotFits, Serving, Becomes, Moves
    <2>9. PickedIsFree'
        BY <2>1, <2>2, <2>3, <2>4 DEF PickedIsFree, Moves, Becomes
    <2>10. EndedIsActive'
        BY <2>1, <2>2, <2>3, <2>4 DEF EndedIsActive, Ends, Unsubscribing, Moves, Becomes
    <2>11. EndedByOne'
        BY <2>1, <2>2, <2>3, <2>4 DEF EndedByOne, Ends, Unsubscribing, Moves
    <2>12. ActiveIsServed'
        BY <2>1, <2>2, <2>3, <2>4
        DEF ActiveIsServed, Served, Ends, Unsubscribing, Moves, Becomes
    <2>13. HandlesFit'
        BY <2>1, <2>2, <2>3, <2>4
        DEF HandlesFit, HandleFits, NoneAlone, Alone, Ends, Unsubscribing, Moves, Becomes
    <2>14. Resting'
        BY <2>1, <2>2, <2>3, <2>4 DEF Resting, NoneAlone, Alone, Moves, Whole
    <2>15. Starts'
        BY <2>1, <2>2, <2>3, <2>4
        DEF Starts, Alone, AloneAmong, Moves, Empty, Serving, Nothing, Whole
    <2>16. Stops'
        BY <2>1, <2>2, <2>3, <2>4 DEF Stops, Alone, AloneAmong, Moves
    <2> QED BY <2>5, <2>6, <2>7, <2>8, <2>9, <2>10, <2>11, <2>12, <2>13, <2>14, <2>15, <2>16
<1>4. CASE NoSlot(t)
    <2> USE DEF Inv
    <2>1. /\ At(t, "sub_pick") /\ sub_lock' = None
          /\ \A i \in Slots : subs[i].active
          /\ UNCHANGED <<stream, reading, health, ring, subs, thread, handles>>
        BY <1>4 DEF NoSlot, FailSubscribe, Inactive, Inactive
    <2>2. /\ call[t].op = "start" => Moves(t, call[t].op, "undo", call[t].h)
          /\ call[t].op # "start" => Moves(t, "none", "idle", 0)
        BY <1>4, GotoMoves, ReturnMoves DEF PCs, Ops, NoSlot, FailSubscribe, Inactive
    <2>3. call[t].op \in {"start", "subscribe"} /\ AloneAmong(t)
        BY <2>1, StepTellsCall, OneIsAlone DEF Unsubscribing
    <2>4. TypeOK'
        BY <2>1, <2>2, <2>3 DEF TypeOK, Moves, Becomes
    <2>5. CallsFit'
        BY <2>1, <2>2, <2>3
        DEF CallsFit, AloneAmong, Alone, Idle, StartStopAlone, Unsubscribing, Moves
    <2>6. LockHeld'
        BY <2>1, <2>2, <2>3, StreamingAssumption DEF LockHeld, Locking, Alone, Moves, AloneAmong
    <2>7. SlotsFit'
        BY <2>1, <2>2, <2>3 DEF SlotsFit, ThreadFits, SlotFits, Serving, Becomes
    <2>8. PickedIsFree'
        BY <2>1, <2>2, <2>3 DEF PickedIsFree, Moves, Becomes
    <2>9. EndedIsActive'
        BY <2>1, <2>2, <2>3 DEF EndedIsActive, Ends, Unsubscribing, Moves, Becomes
    <2>10. EndedByOne'
        BY <2>1, <2>2, <2>3 DEF EndedByOne, Ends, Unsubscribing, Moves
    <2>11. ActiveIsServed'
        BY <2>1, <2>2, <2>3 DEF ActiveIsServed, Served, Ends, Unsubscribing, Moves, Becomes
    <2>12. HandlesFit'
        BY <2>1, <2>2, <2>3
        DEF HandlesFit, HandleFits, NoneAlone, Alone, Ends, Unsubscribing, Moves, Becomes
    <2>13. Resting'
        BY <2>1, <2>2, <2>3 DEF Resting, NoneAlone, Alone, Moves, Whole
    <2>14. Starts'
        BY <2>1, <2>2, <2>3 DEF Starts, Alone, AloneAmong, Moves, Empty, Serving, Nothing, Whole
    <2>15. Stops'
        BY <2>1, <2>2, <2>3 DEF Stops, Alone, AloneAmong, Moves
    <2> QED BY <2>4, <2>5, <2>6, <2>7, <2>8, <2>9, <2>10, <2>11, <2>12, <2>13, <2>14, <2>15
<1>5. CASE CreateConsumer(t)
    <2> USE DEF Inv
    <2>1. /\ handles \in [Callers -> SUBSET Slots]
          /\ At(t, "sub_create") /\ sub_lock' = None
          /\ handles' = IF call[t].op = "start" THEN handles
                        ELSE [handles EXCEPT ![t] = @ \cup {call[t].h}]
          /\ UNCHANGED <<stream, reading, health, ring>>
        BY <1>5 DEF CreateConsumer, FreeThread, TypeOK
    <2>2. Moves(t, "none", "idle", 0)
        BY <1>5, ReturnMoves DEF PCs, Ops, CreateConsumer, FreeThread
    <2>3. call[t].op \in {"start", "subscribe"} /\ AloneAmong(t)
        BY <2>1, StepTellsCall, OneIsAlone DEF Unsubscribing
    <2>4. /\ call[t].h \in Slots /\ ~subs[call[t].h].active /\ ~subs[call[t].h].thread_started
          /\ \A u \in Callers : Ends(u) => call[u].h # call[t].h
          /\ \A u \in Callers : NoneAlone => call[t].h \notin handles[u]
        BY <2>1 DEF PickedIsFree, SlotsFit, SlotFits, EndedIsActive, HandlesFit, HandleFits
    <2>5. PICK x \in Threads, begins \in Begins :
              /\ ~Serving(x)
              /\ thread' = [thread EXCEPT ![x] = [pc |-> begins, slot |-> call[t].h]]
              /\ Serving(x)' /\ thread'[x].slot = call[t].h
              /\ \A y \in Threads \ {x} : thread'[y] = thread[y]
              /\ Becomes(call[t].h, TRUE, FALSE, TRUE, x)
        <3>1. PICK x \in Threads, begins \in Begins :
                  /\ ~Serving(x)
                  /\ thread' = [thread EXCEPT ![x] = [pc |-> begins, slot |-> call[t].h]]
                  /\ subs' = [subs EXCEPT ![call[t].h] = [active |-> TRUE, cancel |-> FALSE,
                                                        thread_started |-> TRUE, thread |-> x]]
            BY <1>5 DEF Serving, CreateConsumer, FreeThread
        <3>2. /\ Serving(x)' /\ thread'[x].slot = call[t].h
              /\ \A y \in Threads \ {x} : thread'[y] = thread[y]
            BY <3>1 DEF TypeOK, Begins, Serving
        <3>3. Becomes(call[t].h, TRUE, FALSE, TRUE, x)
            BY <2>4, <3>1, SlotBecomes
        <3> QED BY <3>1, <3>2, <3>3
    <2>6. TypeOK'
        <3> DEFINE T == [pc : {"free", "top", "callback", "done"},
                         slot : 0..NSlots]
                   c == [pc |-> begins, slot |-> call[t].h]
        <3>1. c \in T /\ thread' = [thread EXCEPT ![x] = c] /\ thread \in [Threads -> T]
            BY <2>1, <2>4, <2>5, StreamingAssumption DEF TypeOK, FreeThread, Slots, Begins
        <3> HIDE DEF c
        <3>2. thread' \in [Threads -> T]
            BY <3>1
        <3>3. handles' \in [Callers -> SUBSET Slots]
            BY <2>1, <2>4
        <3> QED BY <2>1, <2>2, <2>5, <3>2, <3>3 DEF TypeOK, Moves, Becomes
    <2>7. CallsFit'
        BY <2>1, <2>2, <2>3, <2>4, <2>5
        DEF CallsFit, AloneAmong, Alone, Idle, StartStopAlone, Unsubscribing, Moves
    <2>8. LockHeld'
        BY <2>1, <2>2, <2>3, <2>4, <2>5, StreamingAssumption
        DEF LockHeld, Locking, Alone, Moves, AloneAmong
    <2>9. SlotsFit'
        <3>1. ASSUME NEW y \in Threads PROVE ThreadFits(y)'
            <4>1. CASE y = x
                BY <2>4, <2>5, <4>1 DEF ThreadFits, Becomes
            <4>2. CASE y # x
                BY <2>4, <2>5, <4>2 DEF SlotsFit, ThreadFits, Serving, Becomes
            <4> QED BY <4>1, <4>2
        <3>2. ASSUME NEW i \in Slots PROVE SlotFits(i)'
            <4>1. CASE i = call[t].h
                BY <2>4, <2>5, <4>1, StreamingAssumption DEF SlotFits, Serving, Becomes
            <4>2. CASE i # call[t].h
                <5>1. subs'[i] = subs[i] /\ SlotFits(i)
                    BY <2>5, <4>2 DEF Becomes, SlotsFit
                <5> QED BY <2>5, <5>1 DEF SlotFits, Serving, TypeOK
            <4> QED BY <4>1, <4>2
        <3> QED BY <3>1, <3>2 DEF SlotsFit
    <2>10. PickedIsFree'
        BY <2>1, <2>2, <2>3, <2>4, <2>5 DEF PickedIsFree, Moves, Becomes, LockHeld, Locking
    <2>11. EndedIsActive'
        BY <2>1, <2>2, <2>3, <2>4, <2>5 DEF EndedIsActive, Ends, Unsubscribing, Moves, Becomes
    <2>12. EndedByOne'
        BY <2>1, <2>2, <2>3, <2>4, <2>5 DEF EndedByOne, Ends, Unsubscribing, Moves
    <2>13. ActiveIsServed'
        <3> SUFFICES ASSUME NEW i \in Slots PROVE Served(i)'
            BY DEF ActiveIsServed
        <3>1. CASE i = call[t].h
            BY <2>2, <2>4, <2>5, <3>1 DEF Served, Becomes, Moves, Ends, Unsubscribing
        <3>2. CASE i # call[t].h
            <4>1. subs'[i] = subs[i]
                BY <2>5, <3>2 DEF Becomes
            <4>2. /\ Served(i)
                  /\ \A u \in Callers \ {t} : Ends(u) => Ends(u)' /\ call'[u].h = call[u].h
                BY <2>2 DEF ActiveIsServed, Moves, Ends
            <4>3. ~(Ends(t) /\ call[t].h = i)
                BY <3>2
            <4> QED BY <4>1, <4>2, <4>3 DEF Served
        <3> QED BY <3>1, <3>2
    <2>14. HandlesFit'
        <3> SUFFICES ASSUME NoneAlone', NEW u \in Callers, NEW h \in handles'[u]
                     PROVE  HandleFits(u, h)'
            BY DEF HandlesFit
        <3>1. CASE call[t].op = "start"
            BY <2>1, <3>1 DEF Starts
        <3>2. CASE call[t].op = "subscribe"
            <4>1. NoneAlone
                BY <2>2, <2>3, <3>2 DEF NoneAlone, Alone, AloneAmong, Moves
            <4>2. \A v \in Callers : handles'[v] = IF v = t THEN handles[v] \cup {call[t].h}
                                                  ELSE handles[v]
                BY <2>1, <3>2
            <4>3. \A v \in Callers : Ends(v)' => Ends(v) /\ call'[v].h = call[v].h
                BY <2>1, <2>2 DEF Moves, Ends, Unsubscribing
            <4>4. CASE h \in handles[u]
                <5>1. HandleFits(u, h) /\ h \in Slots /\ h # call[t].h
                    BY <2>1, <2>4, <4>1, <4>4 DEF HandlesFit
                <5>2. subs'[h] = subs[h]
                    BY <2>5, <5>1 DEF Becomes
                <5> QED BY <4>2, <4>3, <5>1, <5>2 DEF HandleFits
            <4>5. CASE h \notin handles[u]
                <5>1. u = t /\ h = call[t].h
                    BY <4>2, <4>5
                <5>2. subs'[h].thread_started
                    BY <2>5, <5>1 DEF Becomes
                <5> QED BY <2>4, <4>1, <4>2, <4>3, <5>1, <5>2 DEF HandleFits
            <4> QED BY <4>4, <4>5
        <3> QED BY <2>3, <3>1, <3>2
    <2>15. Resting'
        BY <2>1, <2>2, <2>3, <2>4, <2>5 DEF Resting, NoneAlone, Alone, Moves, Whole, Starts
    <2>16. Starts'
        BY <2>1, <2>2, <2>3, <2>4, <2>5 DEF Starts, Alone, AloneAmong, Moves
    <2>17. Stops'
        BY <2>1, <2>2, <2>3, <2>4, <2>5 DEF Stops, Alone, AloneAmong, Moves
    <2> QED BY <2>6, <2>7, <2>8, <2>9, <2>10, <2>11, <2>12, <2>13, <2>14, <2>15, <2>16, <2>17
<1>6. CASE CreateConsumerFails(t)
    <2> USE DEF Inv
    <2>1. /\ handles \in [Callers -> SUBSET Slots]
          /\ At(t, "sub_create") /\ sub_lock' = None
          /\ UNCHANGED <<stream, reading, health, ring, thread, handles>>
        BY <1>6 DEF CreateConsumerFails, FailSubscribe, TypeOK
    <2>2. /\ call[t].op = "start" => Moves(t, call[t].op, "undo", call[t].h)
          /\ call[t].op # "start" => Moves(t, "none", "idle", 0)
        BY <1>6, GotoMoves, ReturnMoves DEF PCs, Ops, CreateConsumerFails, FailSubscribe
    <2>3. call[t].op \in {"start", "subscribe"} /\ AloneAmong(t)
        BY <2>1, StepTellsCall, OneIsAlone DEF Unsubscribing
    <2>4. /\ call[t].h \in Slots /\ ~subs[call[t].h].active /\ ~subs[call[t].h].thread_started
          /\ \A u \in Callers : Ends(u) => call[u].h # call[t].h
          /\ \A u \in Callers : NoneAlone => call[t].h \notin handles[u]
        BY <2>1 DEF PickedIsFree, SlotsFit, SlotFits, EndedIsActive, HandlesFit, HandleFits
    <2>5. Becomes(call[t].h, FALSE, FALSE, subs[call[t].h].thread_started, subs[call[t].h].thread)
        BY <1>6, <2>4, SlotTakenBack DEF CreateConsumerFails, FailSubscribe
    <2>6. TypeOK'
        BY <2>1, <2>2, <2>3, <2>4, <2>5 DEF TypeOK, Moves, Becomes
    <2>7. CallsFit'
        BY <2>1, <2>2, <2>3, <2>4, <2>5
        DEF CallsFit, AloneAmong, Alone, Idle, StartStopAlone, Unsubscribing, Moves
    <2>8. LockHeld'
        BY <2>1, <2>2, <2>3, <2>4, <2>5, StreamingAssumption
        DEF LockHeld, Locking, Alone, Moves, AloneAmong
    <2>9. SlotsFit'
        <3>1. ASSUME NEW y \in Threads PROVE ThreadFits(y)'
            <4>1. ThreadFits(y)
                BY DEF SlotsFit
            <4>2. CASE thread[y].slot = call[t].h
                BY <2>1, <2>4, <2>5, <4>1, <4>2 DEF ThreadFits, Serving, Becomes
            <4>3. CASE thread[y].slot # call[t].h
                BY <2>1, <2>5, <4>1, <4>3 DEF ThreadFits, Serving, Becomes
            <4> QED BY <4>2, <4>3
        <3>2. ASSUME NEW i \in Slots PROVE SlotFits(i)'
            <4>1. SlotFits(i)
                BY DEF SlotsFit
            <4>2. CASE i = call[t].h
                BY <2>1, <2>4, <2>5, <4>1, <4>2 DEF SlotFits, Serving, Becomes
            <4>3. CASE i # call[t].h
                BY <2>1, <2>5, <4>1, <4>3 DEF SlotFits, Serving, Becomes
            <4> QED BY <4>2, <4>3
        <3> QED BY <3>1, <3>2 DEF SlotsFit
    <2>10. PickedIsFree'
        BY <2>1, <2>2, <2>3, <2>4, <2>5 DEF PickedIsFree, Moves, Becomes, LockHeld, Locking
    <2>11. EndedIsActive'
        BY <2>1, <2>2, <2>3, <2>4, <2>5 DEF EndedIsActive, Ends, Unsubscribing, Moves, Becomes
    <2>12. EndedByOne'
        BY <2>1, <2>2, <2>3, <2>4, <2>5 DEF EndedByOne, Ends, Unsubscribing, Moves
    <2>13. ActiveIsServed'
        <3> SUFFICES ASSUME NEW i \in Slots PROVE Served(i)'
            BY DEF ActiveIsServed
        <3>1. CASE i = call[t].h
            BY <2>2, <2>4, <2>5, <3>1 DEF Served, Becomes, Moves, Ends, Unsubscribing
        <3>2. CASE i # call[t].h
            <4>1. subs'[i] = subs[i]
                BY <2>5, <3>2 DEF Becomes
            <4>2. /\ Served(i)
                  /\ \A u \in Callers \ {t} : Ends(u) => Ends(u)' /\ call'[u].h = call[u].h
                BY <2>2 DEF ActiveIsServed, Moves, Ends
            <4>3. ~(Ends(t) /\ call[t].h = i)
                BY <3>2
            <4> QED BY <4>1, <4>2, <4>3 DEF Served
        <3> QED BY <3>1, <3>2
    <2>14. HandlesFit'
        <3> SUFFICES ASSUME NoneAlone', NEW u \in Callers, NEW h \in handles'[u]
                     PROVE  HandleFits(u, h)'
            BY DEF HandlesFit
        <3>1. NoneAlone
            BY <2>2, <2>3 DEF NoneAlone, Alone, AloneAmong, Moves
        <3>2. h \in handles[u] /\ HandleFits(u, h) /\ h \in Slots /\ h # call[t].h
            BY <2>1, <2>4, <3>1 DEF HandlesFit
        <3>3. subs'[h] = subs[h]
            BY <2>5, <3>2 DEF Becomes
        <3>4. \A v \in Callers : Ends(v)' => Ends(v) /\ call'[v].h = call[v].h
            BY <2>1, <2>2 DEF Moves, Ends, Unsubscribing
        <3> QED BY <2>1, <3>2, <3>3, <3>4 DEF HandleFits
    <2>15. Resting'
        BY <2>1, <2>2, <2>3, <2>4, <2>5 DEF Resting, NoneAlone, Alone, Moves, Whole
    <2>16. Starts'
        <3>1. ASSUME call[t].op = "start" PROVE Starts'
            <4>1. At(t, "undo")' /\ Whole /\ Empty /\ \A u \in Callers : handles[u] = {}
                BY <2>1, <2>2, <3>1 DEF Starts, Moves
            <4>2. Empty' /\ Whole'
                BY <2>1, <2>5, <4>1 DEF Empty, Whole, Serving, Becomes
            <4>3. \A u \in Callers \ {t} : call'[u].op # "start"
                BY <2>2, <2>3, <3>1 DEF Moves, AloneAmong, Alone
            <4> QED BY <2>1, <4>1, <4>2, <4>3 DEF Starts
        <3>2. ASSUME call[t].op # "start" PROVE Starts'
            BY <2>2, <2>3, <3>2 DEF Starts, Moves, AloneAmong, Alone
        <3> QED BY <3>1, <3>2
    <2>17. Stops'
        BY <2>1, <2>2, <2>3, <2>4, <2>5 DEF Stops, Alone, AloneAmong, Moves
    <2> QED BY <2>6, <2>7, <2>8, <2>9, <2>10, <2>11, <2>12, <2>13, <2>14, <2>15, <2>16, <2>17
<1> QED BY <1>1, <1>2, <1>3, <1>4, <1>5, <1>6

(* The steps of unsubscribe.                                               *)
LEMMA UnsubscribingKeepsInv ==
    ASSUME Inv, StartStopAlone, NEW t \in Callers,
           LockToCancel(t) \/ CancelSub(t) \/ BeginJoin(t)
           \/ EndJoin(t) \/ LockToRelease(t) \/ ReleaseSub(t)
    PROVE  Inv'
<1> USE DEF At, stream, reading
<1>1. CASE LockToCancel(t)
    <2> USE DEF Inv
    <2>1. /\ At(t, "un_lock") /\ sub_lock = None /\ sub_lock' = t
          /\ UNCHANGED <<stream, reading, health, ring, subs, thread, handles>>
        BY <1>1 DEF LockToCancel, LockSub
    <2>2. Moves(t, call[t].op, "un_cancel", call[t].h)
        BY <1>1, GotoMoves DEF PCs, Ops, LockToCancel, LockSub
    <2>3. call[t].op \in {"stop", "unsubscribe"} /\ AloneAmong(t)
        BY <2>1, StepTellsCall, OneIsAlone DEF Unsubscribing
    <2>4. TypeOK'
        BY <2>1, <2>2, <2>3 DEF TypeOK, Moves, Becomes
    <2>5. CallsFit'
        BY <2>1, <2>2, <2>3
        DEF CallsFit, AloneAmong, Alone, Idle, StartStopAlone, Unsubscribing, Moves
    <2>6. LockHeld'
        BY <2>1, <2>2, <2>3, StreamingAssumption DEF LockHeld, Locking, Alone, Moves, AloneAmong
    <2>7. SlotsFit'
        BY <2>1, <2>2, <2>3 DEF SlotsFit, ThreadFits, SlotFits, Serving, Becomes
    <2>8. PickedIsFree'
        BY <2>1, <2>2, <2>3 DEF PickedIsFree, Moves, Becomes
    <2>9. EndedIsActive'
        BY <2>1, <2>2, <2>3 DEF EndedIsActive, Ends, Unsubscribing, Moves, Becomes
    <2>10. EndedByOne'
        BY <2>1, <2>2, <2>3 DEF EndedByOne, Ends, Unsubscribing, Moves
    <2>11. ActiveIsServed'
        BY <2>1, <2>2, <2>3 DEF ActiveIsServed, Served, Ends, Unsubscribing, Moves, Becomes
    <2>12. HandlesFit'
        BY <2>1, <2>2, <2>3
        DEF HandlesFit, HandleFits, NoneAlone, Alone, Ends, Unsubscribing, Moves, Becomes
    <2>13. Resting'
        BY <2>1, <2>2, <2>3 DEF Resting, NoneAlone, Alone, Moves, Whole
    <2>14. Starts'
        BY <2>1, <2>2, <2>3 DEF Starts, Alone, AloneAmong, Moves
    <2>15. Stops'
        BY <2>1, <2>2, <2>3
        DEF Stops, Alone, AloneAmong, Moves, Empty, Serving, Whole, Ends, Unsubscribing, Becomes
    <2> QED BY <2>4, <2>5, <2>6, <2>7, <2>8, <2>9, <2>10, <2>11, <2>12, <2>13, <2>14, <2>15
<1>2. CASE CancelSub(t)
    <2> USE DEF Inv
    <2>1. /\ call[t].h \in 0..NSlots
          /\ handles \in [Callers -> SUBSET Slots]
          /\ At(t, "un_cancel") /\ sub_lock' = None
          /\ UNCHANGED <<stream, reading, health, ring, thread, handles>>
        BY <1>2 DEF CancelSub, EndUnsubscribe, TypeOK
    <2>2. Moves(t, call[t].op, "un_join", call[t].h)
        BY <1>2, GotoMoves
        DEF PCs, EndedIsActive, Ends, Unsubscribing, CancelSub, EndUnsubscribe
    <2>3. call[t].op \in {"stop", "unsubscribe"} /\ AloneAmong(t)
        BY <2>1, StepTellsCall, OneIsAlone DEF Unsubscribing
    <2>4. call[t].h \in Slots /\ subs[call[t].h].active
        BY <2>1 DEF EndedIsActive, Ends, Unsubscribing
    <2>5. Becomes(call[t].h, TRUE, TRUE, subs[call[t].h].thread_started, subs[call[t].h].thread)
        BY <1>2, <2>4, SlotCancelled DEF CancelSub, EndUnsubscribe
    <2>6. TypeOK'
        BY <2>1, <2>2, <2>3, <2>4, <2>5 DEF TypeOK, Moves, Becomes
    <2>7. CallsFit'
        BY <2>1, <2>2, <2>3, <2>4, <2>5
        DEF CallsFit, AloneAmong, Alone, Idle, StartStopAlone, Unsubscribing, Moves
    <2>8. LockHeld'
        BY <2>1, <2>2, <2>3, <2>4, <2>5, StreamingAssumption
        DEF LockHeld, Locking, Alone, Moves, AloneAmong
    <2>9. SlotsFit'
        <3>1. ASSUME NEW y \in Threads PROVE ThreadFits(y)'
            <4>1. ThreadFits(y)
                BY DEF SlotsFit
            <4>2. CASE thread[y].slot = call[t].h
                BY <2>1, <2>4, <2>5, <4>1, <4>2 DEF ThreadFits, Serving, Becomes
            <4>3. CASE thread[y].slot # call[t].h
                BY <2>1, <2>5, <4>1, <4>3 DEF ThreadFits, Serving, Becomes
            <4> QED BY <4>2, <4>3
        <3>2. ASSUME NEW i \in Slots PROVE SlotFits(i)'
            <4>1. SlotFits(i)
                BY DEF SlotsFit
            <4>2. CASE i = call[t].h
                BY <2>1, <2>4, <2>5, <4>1, <4>2 DEF SlotFits, Serving, Becomes
            <4>3. CASE i # call[t].h
                BY <2>1, <2>5, <4>1, <4>3 DEF SlotFits, Serving, Becomes
            <4> QED BY <4>2, <4>3
        <3> QED BY <3>1, <3>2 DEF SlotsFit
    <2>10. PickedIsFree'
        BY <2>1, <2>2, <2>3, <2>4, <2>5 DEF PickedIsFree, Moves, Becomes, LockHeld, Locking
    <2>11. EndedIsActive'
        BY <2>1, <2>2, <2>3, <2>4, <2>5
        DEF EndedIsActive, Ends, Unsubscribing, Moves, Becomes, EndedByOne
    <2>12. EndedByOne'
        BY <2>1, <2>2, <2>3, <2>4, <2>5 DEF EndedByOne, Ends, Unsubscribing, Moves
    <2>13. ActiveIsServed'
        <3> SUFFICES ASSUME NEW i \in Slots PROVE Served(i)'
            BY DEF ActiveIsServed
        <3>1. CASE i = call[t].h
            BY <2>2, <2>4, <2>5, <3>1 DEF Served, Becomes, Moves, Ends, Unsubscribing
        <3>2. CASE i # call[t].h
            <4>1. subs'[i] = subs[i]
                BY <2>5, <3>2 DEF Becomes
            <4>2. /\ Served(i)
                  /\ \A u \in Callers \ {t} : Ends(u) => Ends(u)' /\ call'[u].h = call[u].h
                BY <2>2 DEF ActiveIsServed, Moves, Ends
            <4>3. ~(Ends(t) /\ call[t].h = i)
                BY <3>2
            <4> QED BY <4>1, <4>2, <4>3 DEF Served
        <3> QED BY <3>1, <3>2
    <2>14. HandlesFit'
        <3> SUFFICES ASSUME NoneAlone', NEW u \in Callers, NEW h \in handles'[u]
                     PROVE  HandleFits(u, h)'
            BY DEF HandlesFit
        <3>1. NoneAlone
            BY <2>2, <2>3 DEF NoneAlone, Alone, AloneAmong, Moves
        <3>2. h \in handles[u] /\ HandleFits(u, h) /\ h \in Slots 
            BY <2>1, <2>4, <3>1 DEF HandlesFit
        <3>3. subs'[h].thread_started = subs[h].thread_started
            BY <2>5, <3>2 DEF Becomes
        <3>4. \A v \in Callers : Ends(v)' => Ends(v) /\ call'[v].h = call[v].h
            BY <2>1, <2>2 DEF Moves, Ends, Unsubscribing
        <3> QED BY <2>1, <3>2, <3>3, <3>4 DEF HandleFits
    <2>15. Resting'
        BY <2>1, <2>2, <2>3, <2>4, <2>5 DEF Resting, NoneAlone, Alone, Moves, Whole
    <2>16. Starts'
        BY <2>1, <2>2, <2>3, <2>4, <2>5 DEF Starts, Alone, AloneAmong, Moves
    <2>17. Stops'
        <3>1. ASSUME call'[t].op = "stop" PROVE Stops'
            <4>1. At(t, "un_join")' /\ call'[t].h = call[t].h
                BY <2>2 DEF Moves
            <4>2. Whole'
                BY <2>1, <2>2, <2>3, <3>1 DEF Stops, Whole, Ends, Unsubscribing, Moves
            <4>3. \A i \in Slots : i < call[t].h => ~subs'[i].active
                <5>1. \A i \in Slots : i < call[t].h => ~subs[i].active
                    BY <2>1, <2>2, <3>1 DEF Stops, Moves, Ends, Unsubscribing
                <5>2. \A i \in Slots : i < call[t].h => subs'[i] = subs[i]
                    BY <2>1, <2>5, StreamingAssumption DEF Becomes, Slots
                <5> QED BY <5>1, <5>2
            <4>4. \A u \in Callers \ {t} : call'[u].op # "stop"
                BY <2>2, <2>3, <3>1 DEF Moves, AloneAmong, Alone
            <4> QED BY <2>2, <4>1, <4>2, <4>3, <4>4 DEF Stops, Moves, Unsubscribing
        <3>2. ASSUME call'[t].op # "stop" PROVE Stops'
            BY <2>2, <2>3, <3>2 DEF Stops, Moves, AloneAmong, Alone
        <3> QED BY <3>1, <3>2
    <2> QED BY <2>6, <2>7, <2>8, <2>9, <2>10, <2>11, <2>12, <2>13, <2>14, <2>15, <2>16, <2>17
<1>3. CASE BeginJoin(t)
    <2> USE DEF Inv
    <2>1. /\ At(t, "un_join")
          /\ UNCHANGED <<stream, reading, health, ring, sub_lock, subs, thread, handles>>
        BY <1>3 DEF BeginJoin
    <2>2. Moves(t, call[t].op, "un_joining", call[t].h)
        BY <1>3, GotoMoves DEF PCs, EndedIsActive, Ends, Unsubscribing, BeginJoin
    <2>3. call[t].op \in {"stop", "unsubscribe"} /\ AloneAmong(t)
        BY <2>1, StepTellsCall, OneIsAlone DEF Unsubscribing
    <2>4. TypeOK'
        BY <2>1, <2>2, <2>3 DEF TypeOK, Moves, Becomes
    <2>5. CallsFit'
        BY <2>1, <2>2, <2>3
        DEF CallsFit, AloneAmong, Alone, Idle, StartStopAlone, Unsubscribing, Moves
    <2>6. LockHeld'
        BY <2>1, <2>2, <2>3, StreamingAssumption DEF LockHeld, Locking, Alone, Moves, AloneAmong
    <2>7. SlotsFit'
        BY <2>1, <2>2, <2>3 DEF SlotsFit, ThreadFits, SlotFits, Serving, Becomes
    <2>8. PickedIsFree'
        BY <2>1, <2>2, <2>3 DEF PickedIsFree, Moves, Becomes
    <2>9. EndedIsActive'
        BY <2>1, <2>2, <2>3 DEF EndedIsActive, Ends, Unsubscribing, Moves, Becomes
    <2>10. EndedByOne'
        BY <2>1, <2>2, <2>3 DEF EndedByOne, Ends, Unsubscribing, Moves
    <2>11. ActiveIsServed'
        BY <2>1, <2>2, <2>3 DEF ActiveIsServed, Served, Ends, Unsubscribing, Moves, Becomes
    <2>12. HandlesFit'
        BY <2>1, <2>2, <2>3
        DEF HandlesFit, HandleFits, NoneAlone, Alone, Ends, Unsubscribing, Moves, Becomes
    <2>13. Resting'
        BY <2>1, <2>2, <2>3 DEF Resting, NoneAlone, Alone, Moves, Whole
    <2>14. Starts'
        BY <2>1, <2>2, <2>3 DEF Starts, Alone, AloneAmong, Moves
    <2>15. Stops'
        BY <2>1, <2>2, <2>3
        DEF Stops, Alone, AloneAmong, Moves, Empty, Serving, Whole, Ends, Unsubscribing, Becomes
    <2> QED BY <2>4, <2>5, <2>6, <2>7, <2>8, <2>9, <2>10, <2>11, <2>12, <2>13, <2>14, <2>15
<1>4. CASE EndJoin(t)
    <2> USE DEF Inv
    <2>1. /\ handles \in [Callers -> SUBSET Slots]
          /\ At(t, "un_joining")
          /\ thread' = [thread EXCEPT ![subs[call[t].h].thread] = FreeThread]
          /\ UNCHANGED <<stream, reading, health, ring, sub_lock, handles>>
        BY <1>4 DEF EndJoin, FreeThread, TypeOK
    <2>2. Moves(t, call[t].op, "un_lock2", call[t].h)
        BY <1>4, GotoMoves DEF PCs, Ops, EndJoin, FreeThread
    <2>3. call[t].op \in {"stop", "unsubscribe"} /\ AloneAmong(t)
        BY <2>1, StepTellsCall, OneIsAlone DEF Unsubscribing
    <2>4. /\ Ends(t) /\ call[t].h \in Slots
          /\ subs[call[t].h].active /\ subs[call[t].h].thread_started
          /\ \A u \in Callers \ {t} : Ends(u) => call[u].h # call[t].h
          /\ \A u \in Callers : NoneAlone => call[t].h \notin handles[u]
        BY <2>1 DEF EndedIsActive, EndedByOne, Ends, Unsubscribing, HandlesFit, HandleFits
    <2>5. PICK x \in Threads :
              /\ subs[call[t].h].thread = x /\ thread[x].slot = call[t].h
              /\ thread' = [thread EXCEPT ![x] = FreeThread]
              /\ thread'[x].pc = "free" /\ \A y \in Threads \ {x} : thread'[y] = thread[y]
              /\ Becomes(call[t].h, TRUE, subs[call[t].h].cancel, FALSE, x)
        <3>1. PICK x \in Threads : subs[call[t].h].thread = x /\ thread[x].slot = call[t].h
            BY <2>4 DEF SlotsFit, SlotFits, TypeOK
        <3>2. thread' = [thread EXCEPT ![x] = FreeThread]
            BY <2>1, <3>1
        <3>3. thread'[x].pc = "free" /\ \A y \in Threads \ {x} : thread'[y] = thread[y]
            BY <3>2 DEF TypeOK, FreeThread
        <3>4. Becomes(call[t].h, TRUE, subs[call[t].h].cancel, FALSE, x)
            BY <1>4, <2>4, <3>1, SlotJoined DEF TypeOK, EndJoin, FreeThread
        <3> QED BY <3>1, <3>2, <3>3, <3>4
    <2>6. TypeOK'
        <3> DEFINE T == [pc : {"free", "top", "callback", "done"},
                         slot : 0..NSlots]
                   c == FreeThread
        <3>1. c \in T /\ thread' = [thread EXCEPT ![x] = c] /\ thread \in [Threads -> T]
            BY <2>1, <2>4, <2>5, StreamingAssumption DEF TypeOK, FreeThread, Slots
        <3> HIDE DEF c
        <3>2. thread' \in [Threads -> T]
            BY <3>1
        <3>3. handles' \in [Callers -> SUBSET Slots]
            BY <2>1, <2>4
        <3> QED BY <2>1, <2>2, <2>5, <3>2, <3>3 DEF TypeOK, Moves, Becomes
    <2>7. CallsFit'
        BY <2>1, <2>2, <2>3, <2>4, <2>5
        DEF CallsFit, AloneAmong, Alone, Idle, StartStopAlone, Unsubscribing, Moves
    <2>8. LockHeld'
        BY <2>1, <2>2, <2>3, <2>4, <2>5, StreamingAssumption
        DEF LockHeld, Locking, Alone, Moves, AloneAmong
    <2>9. SlotsFit'
        <3>1. ASSUME NEW y \in Threads PROVE ThreadFits(y)'
            BY <2>3, <2>4, <2>5 DEF SlotsFit, ThreadFits, SlotFits, Serving, Becomes, TypeOK
        <3>2. ASSUME NEW i \in Slots PROVE SlotFits(i)'
            BY <2>3, <2>4, <2>5 DEF SlotsFit, ThreadFits, SlotFits, Serving, Becomes, TypeOK
        <3> QED BY <3>1, <3>2 DEF SlotsFit
    <2>10. PickedIsFree'
        BY <2>1, <2>2, <2>3, <2>4, <2>5 DEF PickedIsFree, Moves, Becomes
    <2>11. EndedIsActive'
        BY <2>1, <2>2, <2>3, <2>4, <2>5 DEF EndedIsActive, Ends, Unsubscribing, Moves, Becomes
    <2>12. EndedByOne'
        BY <2>1, <2>2, <2>3, <2>4, <2>5 DEF EndedByOne, Ends, Unsubscribing, Moves
    <2>13. ActiveIsServed'
        <3> SUFFICES ASSUME NEW i \in Slots PROVE Served(i)'
            BY DEF ActiveIsServed
        <3>1. CASE i = call[t].h
            BY <2>2, <2>4, <2>5, <3>1 DEF Served, Becomes, Moves, Ends, Unsubscribing
        <3>2. CASE i # call[t].h
            <4>1. subs'[i] = subs[i]
                BY <2>5, <3>2 DEF Becomes
            <4>2. /\ Served(i)
                  /\ \A u \in Callers \ {t} : Ends(u) => Ends(u)' /\ call'[u].h = call[u].h
                BY <2>2 DEF ActiveIsServed, Moves, Ends
            <4>3. ~(Ends(t) /\ call[t].h = i)
                BY <3>2
            <4> QED BY <4>1, <4>2, <4>3 DEF Served
        <3> QED BY <3>1, <3>2
    <2>14. HandlesFit'
        <3> SUFFICES ASSUME NoneAlone', NEW u \in Callers, NEW h \in handles'[u]
                     PROVE  HandleFits(u, h)'
            BY DEF HandlesFit
        <3>1. NoneAlone
            BY <2>2, <2>3 DEF NoneAlone, Alone, AloneAmong, Moves
        <3>2. h \in handles[u] /\ HandleFits(u, h) /\ h \in Slots /\ h # call[t].h
            BY <2>1, <2>4, <3>1 DEF HandlesFit
        <3>3. subs'[h] = subs[h]
            BY <2>5, <3>2 DEF Becomes
        <3>4. \A v \in Callers : Ends(v)' => Ends(v) /\ call'[v].h = call[v].h
            BY <2>1, <2>2 DEF Moves, Ends, Unsubscribing
        <3> QED BY <2>1, <3>2, <3>3, <3>4 DEF HandleFits
    <2>15. Resting'
        BY <2>1, <2>2, <2>3, <2>4, <2>5 DEF Resting, NoneAlone, Alone, Moves, Whole
    <2>16. Starts'
        BY <2>1, <2>2, <2>3, <2>4, <2>5 DEF Starts, Alone, AloneAmong, Moves
    <2>17. Stops'
        <3>1. ASSUME call'[t].op = "stop" PROVE Stops'
            <4>1. At(t, "un_lock2")' /\ call'[t].h = call[t].h
                BY <2>2 DEF Moves
            <4>2. Whole'
                BY <2>1, <2>2, <2>3, <3>1 DEF Stops, Whole, Ends, Unsubscribing, Moves
            <4>3. \A i \in Slots : i < call[t].h => ~subs'[i].active
                <5>1. \A i \in Slots : i < call[t].h => ~subs[i].active
                    BY <2>1, <2>2, <3>1 DEF Stops, Moves, Ends, Unsubscribing
                <5>2. \A i \in Slots : i < call[t].h => subs'[i] = subs[i]
                    BY <2>1, <2>5, StreamingAssumption DEF Becomes, Slots
                <5> QED BY <5>1, <5>2
            <4>4. \A u \in Callers \ {t} : call'[u].op # "stop"
                BY <2>2, <2>3, <3>1 DEF Moves, AloneAmong, Alone
            <4> QED BY <2>2, <4>1, <4>2, <4>3, <4>4 DEF Stops, Moves, Unsubscribing
        <3>2. ASSUME call'[t].op # "stop" PROVE Stops'
            BY <2>2, <2>3, <3>2 DEF Stops, Moves, AloneAmong, Alone
        <3> QED BY <3>1, <3>2
    <2> QED BY <2>6, <2>7, <2>8, <2>9, <2>10, <2>11, <2>12, <2>13, <2>14, <2>15, <2>16, <2>17
<1>5. CASE LockToRelease(t)
    <2> USE DEF Inv
    <2>1. /\ At(t, "un_lock2") /\ sub_lock = None /\ sub_lock' = t
          /\ UNCHANGED <<stream, reading, health, ring, subs, thread, handles>>
        BY <1>5 DEF LockToRelease, LockSub
    <2>2. Moves(t, call[t].op, "un_release", call[t].h)
        BY <1>5, GotoMoves DEF PCs, Ops, LockToRelease, LockSub
    <2>3. call[t].op \in {"stop", "unsubscribe"} /\ AloneAmong(t)
        BY <2>1, StepTellsCall, OneIsAlone DEF Unsubscribing
    <2>4. TypeOK'
        BY <2>1, <2>2, <2>3 DEF TypeOK, Moves, Becomes
    <2>5. CallsFit'
        BY <2>1, <2>2, <2>3
        DEF CallsFit, AloneAmong, Alone, Idle, StartStopAlone, Unsubscribing, Moves
    <2>6. LockHeld'
        BY <2>1, <2>2, <2>3, StreamingAssumption DEF LockHeld, Locking, Alone, Moves, AloneAmong
    <2>7. SlotsFit'
        BY <2>1, <2>2, <2>3 DEF SlotsFit, ThreadFits, SlotFits, Serving, Becomes
    <2>8. PickedIsFree'
        BY <2>1, <2>2, <2>3 DEF PickedIsFree, Moves, Becomes
    <2>9. EndedIsActive'
        BY <2>1, <2>2, <2>3 DEF EndedIsActive, Ends, Unsubscribing, Moves, Becomes
    <2>10. EndedByOne'
        BY <2>1, <2>2, <2>3 DEF EndedByOne, Ends, Unsubscribing, Moves
    <2>11. ActiveIsServed'
        BY <2>1, <2>2, <2>3 DEF ActiveIsServed, Served, Ends, Unsubscribing, Moves, Becomes
    <2>12. HandlesFit'
        BY <2>1, <2>2, <2>3
        DEF HandlesFit, HandleFits, NoneAlone, Alone, Ends, Unsubscribing, Moves, Becomes
    <2>13. Resting'
        BY <2>1, <2>2, <2>3 DEF Resting, NoneAlone, Alone, Moves, Whole
    <2>14. Starts'
        BY <2>1, <2>2, <2>3 DEF Starts, Alone, AloneAmong, Moves
    <2>15. Stops'
        BY <2>1, <2>2, <2>3
        DEF Stops, Alone, AloneAmong, Moves, Empty, Serving, Whole, Ends, Unsubscribing, Becomes
    <2> QED BY <2>4, <2>5, <2>6, <2>7, <2>8, <2>9, <2>10, <2>11, <2>12, <2>13, <2>14, <2>15
<1>6. CASE ReleaseSub(t)
    <2> USE DEF Inv
    <2>1. /\ call[t].h \in 0..NSlots
          /\ handles \in [Callers -> SUBSET Slots]
          /\ At(t, "un_release") /\ sub_lock' = None
          /\ UNCHANGED <<stream, reading, health, ring, thread, handles>>
        BY <1>6 DEF ReleaseSub, EndUnsubscribe, TypeOK
    <2>2. /\ call[t].op = "stop" => Moves(t, call[t].op, "scan", call[t].h)
          /\ call[t].op # "stop" => Moves(t, "none", "idle", 0)
        BY <1>6, GotoMoves, ReturnMoves DEF PCs, Ops, ReleaseSub, EndUnsubscribe
    <2>3. call[t].op \in {"stop", "unsubscribe"} /\ AloneAmong(t)
        BY <2>1, StepTellsCall, OneIsAlone DEF Unsubscribing
    <2>4. /\ Ends(t) /\ call[t].h \in Slots
          /\ ~subs[call[t].h].thread_started
          /\ \A u \in Callers \ {t} : Ends(u) => call[u].h # call[t].h
          /\ \A u \in Callers : NoneAlone => call[t].h \notin handles[u]
          /\ NoneAlone' => NoneAlone
        BY <2>1, <2>2, <2>3
        DEF EndedIsActive, EndedByOne, Ends, Unsubscribing, HandlesFit, HandleFits,
            NoneAlone, Alone, AloneAmong, Moves
    <2>5. Becomes(call[t].h, FALSE, subs[call[t].h].cancel, FALSE, subs[call[t].h].thread)
        <3>1. Becomes(call[t].h, FALSE, subs[call[t].h].cancel,
                      subs[call[t].h].thread_started, subs[call[t].h].thread)
            BY <1>6, <2>4, SlotReleased DEF ReleaseSub, EndUnsubscribe
        <3>2. subs[call[t].h].thread_started = FALSE
            BY <2>4 DEF TypeOK
        <3> QED BY <3>1, <3>2
    <2>6. TypeOK'
        BY <2>1, <2>2, <2>3, <2>4, <2>5 DEF TypeOK, Moves, Becomes
    <2>7. CallsFit'
        BY <2>1, <2>2, <2>3, <2>4, <2>5
        DEF CallsFit, AloneAmong, Alone, Idle, StartStopAlone, Unsubscribing, Moves
    <2>8. LockHeld'
        BY <2>1, <2>2, <2>3, <2>4, <2>5, StreamingAssumption
        DEF LockHeld, Locking, Alone, Moves, AloneAmong
    <2>9. SlotsFit'
        <3>1. ASSUME NEW y \in Threads PROVE ThreadFits(y)'
            BY <2>3, <2>4, <2>5, <2>1
            DEF SlotsFit, ThreadFits, SlotFits, Serving, Becomes, TypeOK
        <3>2. ASSUME NEW i \in Slots PROVE SlotFits(i)'
            BY <2>3, <2>4, <2>5, <2>1
            DEF SlotsFit, ThreadFits, SlotFits, Serving, Becomes, TypeOK
        <3> QED BY <3>1, <3>2 DEF SlotsFit
    <2>10. PickedIsFree'
        BY <2>1, <2>2, <2>3, <2>4, <2>5 DEF PickedIsFree, Moves, Becomes
    <2>11. EndedIsActive'
        BY <2>1, <2>2, <2>3, <2>4, <2>5 DEF EndedIsActive, Ends, Unsubscribing, Moves, Becomes
    <2>12. EndedByOne'
        BY <2>1, <2>2, <2>3, <2>4, <2>5 DEF EndedByOne, Ends, Unsubscribing, Moves
    <2>13. ActiveIsServed'
        <3> SUFFICES ASSUME NEW i \in Slots PROVE Served(i)'
            BY DEF ActiveIsServed
        <3>1. CASE i = call[t].h
            BY <2>2, <2>4, <2>5, <3>1 DEF Served, Becomes, Moves, Ends, Unsubscribing
        <3>2. CASE i # call[t].h
            <4>1. subs'[i] = subs[i]
                BY <2>5, <3>2 DEF Becomes
            <4>2. /\ Served(i)
                  /\ \A u \in Callers \ {t} : Ends(u) => Ends(u)' /\ call'[u].h = call[u].h
                BY <2>2 DEF ActiveIsServed, Moves, Ends
            <4>3. ~(Ends(t) /\ call[t].h = i)
                BY <3>2
            <4> QED BY <4>1, <4>2, <4>3 DEF Served
        <3> QED BY <3>1, <3>2
    <2>14. HandlesFit'
        <3> SUFFICES ASSUME NoneAlone', NEW u \in Callers, NEW h \in handles'[u]
                     PROVE  HandleFits(u, h)'
            BY DEF HandlesFit
        <3>1. NoneAlone
            BY <2>2, <2>3 DEF NoneAlone, Alone, AloneAmong, Moves
        <3>2. h \in handles[u] /\ HandleFits(u, h) /\ h \in Slots /\ h # call[t].h
            BY <2>1, <2>4, <3>1 DEF HandlesFit
        <3>3. subs'[h] = subs[h]
            BY <2>5, <3>2 DEF Becomes
        <3>4. \A v \in Callers : Ends(v)' => Ends(v) /\ call'[v].h = call[v].h
            BY <2>1, <2>2 DEF Moves, Ends, Unsubscribing
        <3> QED BY <2>1, <3>2, <3>3, <3>4 DEF HandleFits
    <2>15. Resting'
        BY <2>1, <2>2, <2>3, <2>4, <2>5 DEF Resting, NoneAlone, Alone, Moves, Whole, Stops
    <2>16. Starts'
        BY <2>1, <2>2, <2>3, <2>4, <2>5 DEF Starts, Alone, AloneAmong, Moves
    <2>17. Stops'
        BY <2>1, <2>2, <2>3, <2>4, <2>5, StreamingAssumption
        DEF Stops, Alone, AloneAmong, Moves, Empty, Serving, Whole, Ends, Unsubscribing,
            Becomes, Slots
    <2> QED BY <2>6, <2>7, <2>8, <2>9, <2>10, <2>11, <2>12, <2>13, <2>14, <2>15, <2>16, <2>17
<1> QED BY <1>1, <1>2, <1>3, <1>4, <1>5, <1>6

(* The steps of start.                                                     *)
LEMMA StartingKeepsInv ==
    ASSUME Inv, StartStopAlone, NEW t \in Callers,
           InitRing(t) \/ InitRingFails(t) \/ CreateReader(t)
           \/ CreateReaderFails(t) \/ Undo(t) \/ UndoJoin(t)
    PROVE  Inv'
<1> USE DEF At, stream, reading
<1>1. CASE InitRing(t)
    <2> USE DEF Inv
    <2>1. /\ At(t, "init") /\ ring' = "live" /\ sub_lock' = None
          /\ subs' = [i \in Slots |-> FreeSub]
          /\ cancel_requested' = FALSE /\ active' = TRUE
          /\ UNCHANGED <<reader_started, reading, health, thread, handles>>
        BY <1>1 DEF InitRing, FreeSub
    <2>2. Moves(t, call[t].op, "create_reader", call[t].h)
        BY <1>1, GotoMoves DEF PCs, Ops, InitRing, FreeSub
    <2>3. call[t].op = "start" /\ AloneAmong(t)
        BY <2>1, StepTellsCall, OneIsAlone DEF Unsubscribing
    <2>4. TypeOK'
        BY <2>1, <2>2, <2>3 DEF TypeOK, Moves, Becomes, FreeSub
    <2>5. CallsFit'
        BY <2>1, <2>2, <2>3
        DEF CallsFit, AloneAmong, Alone, Idle, StartStopAlone, Unsubscribing, Moves
    <2>6. LockHeld'
        BY <2>1, <2>2, <2>3, StreamingAssumption DEF LockHeld, Locking, Alone, Moves, AloneAmong
    <2>7. SlotsFit'
        BY <2>1, <2>2, <2>3
        DEF SlotsFit, ThreadFits, SlotFits, Serving, Becomes, Starts, Empty, FreeSub
    <2>8. PickedIsFree'
        BY <2>1, <2>2, <2>3 DEF PickedIsFree, Moves, Becomes, Alone, AloneAmong, Moves
    <2>9. EndedIsActive'
        BY <2>1, <2>2, <2>3
        DEF EndedIsActive, Ends, Unsubscribing, Moves, Becomes, Alone, AloneAmong, Moves
    <2>10. EndedByOne'
        BY <2>1, <2>2, <2>3 DEF EndedByOne, Ends, Unsubscribing, Moves
    <2>11. ActiveIsServed'
        BY <2>1, <2>2, <2>3
        DEF ActiveIsServed, Served, Ends, Unsubscribing, Moves, Becomes, FreeSub
    <2>12. HandlesFit'
        BY <2>1, <2>2, <2>3
        DEF HandlesFit, HandleFits, NoneAlone, Alone, Ends, Unsubscribing, Moves, Becomes,
            Alone, AloneAmong, Moves
    <2>13. Resting'
        BY <2>1, <2>2, <2>3 DEF Resting, NoneAlone, Alone, Moves, Whole
    <2>14. Starts'
        BY <2>1, <2>2, <2>3
        DEF Starts, Alone, AloneAmong, Moves, Empty, Serving, Nothing, Whole, FreeSub
    <2>15. Stops'
        BY <2>1, <2>2, <2>3 DEF Stops, Alone, AloneAmong, Moves
    <2> QED BY <2>4, <2>5, <2>6, <2>7, <2>8, <2>9, <2>10, <2>11, <2>12, <2>13, <2>14, <2>15
<1>2. CASE InitRingFails(t)
    <2> USE DEF Inv
    <2>1. /\ At(t, "init")
          /\ UNCHANGED <<stream, reading, health, ring, sub_lock, subs, thread, handles>>
        BY <1>2 DEF InitRingFails
    <2>2. Moves(t, "none", "idle", 0)
        BY <1>2, ReturnMoves DEF PCs, Ops, InitRingFails
    <2>3. call[t].op = "start" /\ AloneAmong(t)
        BY <2>1, StepTellsCall, OneIsAlone DEF Unsubscribing
    <2>4. TypeOK'
        BY <2>1, <2>2, <2>3 DEF TypeOK, Moves, Becomes
    <2>5. CallsFit'
        BY <2>1, <2>2, <2>3
        DEF CallsFit, AloneAmong, Alone, Idle, StartStopAlone, Unsubscribing, Moves
    <2>6. LockHeld'
        BY <2>1, <2>2, <2>3, StreamingAssumption DEF LockHeld, Locking, Alone, Moves, AloneAmong
    <2>7. SlotsFit'
        BY <2>1, <2>2, <2>3 DEF SlotsFit, ThreadFits, SlotFits, Serving, Becomes
    <2>8. PickedIsFree'
        BY <2>1, <2>2, <2>3 DEF PickedIsFree, Moves, Becomes
    <2>9. EndedIsActive'
        BY <2>1, <2>2, <2>3 DEF EndedIsActive, Ends, Unsubscribing, Moves, Becomes
    <2>10. EndedByOne'
        BY <2>1, <2>2, <2>3 DEF EndedByOne, Ends, Unsubscribing, Moves
    <2>11. ActiveIsServed'
        BY <2>1, <2>2, <2>3 DEF ActiveIsServed, Served, Ends, Unsubscribing, Moves, Becomes
    <2>12. HandlesFit'
        BY <2>1, <2>2, <2>3
        DEF HandlesFit, HandleFits, NoneAlone, Alone, Ends, Unsubscribing, Moves, Becomes,
            Starts, Alone, AloneAmong, Moves
    <2>13. Resting'
        BY <2>1, <2>2, <2>3
        DEF Resting, NoneAlone, Alone, Moves, Whole, Starts, Stops, Empty, AloneAmong, Nothing,
            Serving
    <2>14. Starts'
        BY <2>1, <2>2, <2>3 DEF Starts, Alone, AloneAmong, Moves, Empty, Serving, Nothing, Whole
    <2>15. Stops'
        BY <2>1, <2>2, <2>3 DEF Stops, Alone, AloneAmong, Moves
    <2> QED BY <2>4, <2>5, <2>6, <2>7, <2>8, <2>9, <2>10, <2>11, <2>12, <2>13, <2>14, <2>15
<1>3. CASE CreateReader(t)
    <2> USE DEF Inv
    <2>1. /\ At(t, "create_reader")
          /\ reader' = "setup" /\ reader_started' = TRUE
          /\ UNCHANGED <<active, cancel_requested, loop, use_sync, health, ring, sub_lock, subs,
                         thread, handles>>
        BY <1>3 DEF CreateReader
    <2>2. Moves(t, call[t].op, "sub_check", call[t].h)
        BY <1>3, GotoMoves DEF PCs, Ops, CreateReader
    <2>3. call[t].op = "start" /\ AloneAmong(t)
        BY <2>1, StepTellsCall, OneIsAlone DEF Unsubscribing
    <2>4. TypeOK'
        BY <2>1, <2>2, <2>3 DEF TypeOK, Moves, Becomes
    <2>5. CallsFit'
        BY <2>1, <2>2, <2>3
        DEF CallsFit, AloneAmong, Alone, Idle, StartStopAlone, Unsubscribing, Moves
    <2>6. LockHeld'
        BY <2>1, <2>2, <2>3, StreamingAssumption DEF LockHeld, Locking, Alone, Moves, AloneAmong
    <2>7. SlotsFit'
        BY <2>1, <2>2, <2>3 DEF SlotsFit, ThreadFits, SlotFits, Serving, Becomes
    <2>8. PickedIsFree'
        BY <2>1, <2>2, <2>3 DEF PickedIsFree, Moves, Becomes
    <2>9. EndedIsActive'
        BY <2>1, <2>2, <2>3 DEF EndedIsActive, Ends, Unsubscribing, Moves, Becomes
    <2>10. EndedByOne'
        BY <2>1, <2>2, <2>3 DEF EndedByOne, Ends, Unsubscribing, Moves
    <2>11. ActiveIsServed'
        BY <2>1, <2>2, <2>3 DEF ActiveIsServed, Served, Ends, Unsubscribing, Moves, Becomes
    <2>12. HandlesFit'
        BY <2>1, <2>2, <2>3
        DEF HandlesFit, HandleFits, NoneAlone, Alone, Ends, Unsubscribing, Moves, Becomes
    <2>13. Resting'
        BY <2>1, <2>2, <2>3 DEF Resting, NoneAlone, Alone, Moves, Whole
    <2>14. Starts'
        BY <2>1, <2>2, <2>3 DEF Starts, Alone, AloneAmong, Moves, Empty, Serving, Nothing, Whole
    <2>15. Stops'
        BY <2>1, <2>2, <2>3 DEF Stops, Alone, AloneAmong, Moves
    <2> QED BY <2>4, <2>5, <2>6, <2>7, <2>8, <2>9, <2>10, <2>11, <2>12, <2>13, <2>14, <2>15
<1>4. CASE CreateReaderFails(t)
    <2> USE DEF Inv
    <2>1. /\ At(t, "create_reader") /\ active' = FALSE
          /\ UNCHANGED <<cancel_requested, reader_started, reading, health, ring, sub_lock, subs,
                         thread, handles>>
        BY <1>4 DEF CreateReaderFails
    <2>2. Moves(t, call[t].op, "destroy", call[t].h)
        BY <1>4, GotoMoves DEF PCs, Ops, CreateReaderFails
    <2>3. call[t].op = "start" /\ AloneAmong(t)
        BY <2>1, StepTellsCall, OneIsAlone DEF Unsubscribing
    <2>4. TypeOK'
        BY <2>1, <2>2, <2>3 DEF TypeOK, Moves, Becomes
    <2>5. CallsFit'
        BY <2>1, <2>2, <2>3
        DEF CallsFit, AloneAmong, Alone, Idle, StartStopAlone, Unsubscribing, Moves
    <2>6. LockHeld'
        BY <2>1, <2>2, <2>3, StreamingAssumption DEF LockHeld, Locking, Alone, Moves, AloneAmong
    <2>7. SlotsFit'
        BY <2>1, <2>2, <2>3 DEF SlotsFit, ThreadFits, SlotFits, Serving, Becomes
    <2>8. PickedIsFree'
        BY <2>1, <2>2, <2>3 DEF PickedIsFree, Moves, Becomes
    <2>9. EndedIsActive'
        BY <2>1, <2>2, <2>3 DEF EndedIsActive, Ends, Unsubscribing, Moves, Becomes
    <2>10. EndedByOne'
        BY <2>1, <2>2, <2>3 DEF EndedByOne, Ends, Unsubscribing, Moves
    <2>11. ActiveIsServed'
        BY <2>1, <2>2, <2>3 DEF ActiveIsServed, Served, Ends, Unsubscribing, Moves, Becomes
    <2>12. HandlesFit'
        BY <2>1, <2>2, <2>3
        DEF HandlesFit, HandleFits, NoneAlone, Alone, Ends, Unsubscribing, Moves, Becomes
    <2>13. Resting'
        BY <2>1, <2>2, <2>3 DEF Resting, NoneAlone, Alone, Moves, Whole
    <2>14. Starts'
        BY <2>1, <2>2, <2>3 DEF Starts, Alone, AloneAmong, Moves, Empty, Serving, Nothing, Whole
    <2>15. Stops'
        BY <2>1, <2>2, <2>3 DEF Stops, Alone, AloneAmong, Moves
    <2> QED BY <2>4, <2>5, <2>6, <2>7, <2>8, <2>9, <2>10, <2>11, <2>12, <2>13, <2>14, <2>15
<1>5. CASE Undo(t)
    <2> USE DEF Inv
    <2>1. /\ At(t, "undo") /\ cancel_requested' = TRUE
          /\ UNCHANGED <<active, reader_started, reading, health, ring, sub_lock, subs,
                         thread, handles>>
        BY <1>5 DEF Undo
    <2>2. Moves(t, call[t].op, "undo_join", call[t].h)
        BY <1>5, GotoMoves DEF PCs, Ops, Undo
    <2>3. call[t].op = "start" /\ AloneAmong(t)
        BY <2>1, StepTellsCall, OneIsAlone DEF Unsubscribing
    <2>4. TypeOK'
        BY <2>1, <2>2, <2>3 DEF TypeOK, Moves, Becomes
    <2>5. CallsFit'
        BY <2>1, <2>2, <2>3
        DEF CallsFit, AloneAmong, Alone, Idle, StartStopAlone, Unsubscribing, Moves
    <2>6. LockHeld'
        BY <2>1, <2>2, <2>3, StreamingAssumption DEF LockHeld, Locking, Alone, Moves, AloneAmong
    <2>7. SlotsFit'
        BY <2>1, <2>2, <2>3 DEF SlotsFit, ThreadFits, SlotFits, Serving, Becomes
    <2>8. PickedIsFree'
        BY <2>1, <2>2, <2>3 DEF PickedIsFree, Moves, Becomes
    <2>9. EndedIsActive'
        BY <2>1, <2>2, <2>3 DEF EndedIsActive, Ends, Unsubscribing, Moves, Becomes
    <2>10. EndedByOne'
        BY <2>1, <2>2, <2>3 DEF EndedByOne, Ends, Unsubscribing, Moves
    <2>11. ActiveIsServed'
        BY <2>1, <2>2, <2>3 DEF ActiveIsServed, Served, Ends, Unsubscribing, Moves, Becomes
    <2>12. HandlesFit'
        BY <2>1, <2>2, <2>3
        DEF HandlesFit, HandleFits, NoneAlone, Alone, Ends, Unsubscribing, Moves, Becomes
    <2>13. Resting'
        BY <2>1, <2>2, <2>3 DEF Resting, NoneAlone, Alone, Moves, Whole
    <2>14. Starts'
        BY <2>1, <2>2, <2>3 DEF Starts, Alone, AloneAmong, Moves, Empty, Serving, Nothing, Whole
    <2>15. Stops'
        BY <2>1, <2>2, <2>3 DEF Stops, Alone, AloneAmong, Moves
    <2> QED BY <2>4, <2>5, <2>6, <2>7, <2>8, <2>9, <2>10, <2>11, <2>12, <2>13, <2>14, <2>15
<1>6. CASE UndoJoin(t)
    <2> USE DEF Inv
    <2>1. /\ At(t, "undo_join")
          /\ reader' = "none" /\ active' = FALSE
          /\ UNCHANGED <<cancel_requested, reader_started, loop, use_sync, health, ring, sub_lock,
                         subs, thread, handles>>
        BY <1>6 DEF UndoJoin
    <2>2. Moves(t, call[t].op, "destroy", call[t].h)
        BY <1>6, GotoMoves DEF PCs, Ops, UndoJoin
    <2>3. call[t].op = "start" /\ AloneAmong(t)
        BY <2>1, StepTellsCall, OneIsAlone DEF Unsubscribing
    <2>4. TypeOK'
        BY <2>1, <2>2, <2>3 DEF TypeOK, Moves, Becomes
    <2>5. CallsFit'
        BY <2>1, <2>2, <2>3
        DEF CallsFit, AloneAmong, Alone, Idle, StartStopAlone, Unsubscribing, Moves
    <2>6. LockHeld'
        BY <2>1, <2>2, <2>3, StreamingAssumption DEF LockHeld, Locking, Alone, Moves, AloneAmong
    <2>7. SlotsFit'
        BY <2>1, <2>2, <2>3 DEF SlotsFit, ThreadFits, SlotFits, Serving, Becomes
    <2>8. PickedIsFree'
        BY <2>1, <2>2, <2>3 DEF PickedIsFree, Moves, Becomes
    <2>9. EndedIsActive'
        BY <2>1, <2>2, <2>3 DEF EndedIsActive, Ends, Unsubscribing, Moves, Becomes
    <2>10. EndedByOne'
        BY <2>1, <2>2, <2>3 DEF EndedByOne, Ends, Unsubscribing, Moves
    <2>11. ActiveIsServed'
        BY <2>1, <2>2, <2>3 DEF ActiveIsServed, Served, Ends, Unsubscribing, Moves, Becomes
    <2>12. HandlesFit'
        BY <2>1, <2>2, <2>3
        DEF HandlesFit, HandleFits, NoneAlone, Alone, Ends, Unsubscribing, Moves, Becomes,
            Starts
    <2>13. Resting'
        BY <2>1, <2>2, <2>3 DEF Resting, NoneAlone, Alone, Moves, Whole
    <2>14. Starts'
        BY <2>1, <2>2, <2>3 DEF Starts, Alone, AloneAmong, Moves, Empty, Serving, Nothing, Whole
    <2>15. Stops'
        BY <2>1, <2>2, <2>3 DEF Stops, Alone, AloneAmong, Moves
    <2> QED BY <2>4, <2>5, <2>6, <2>7, <2>8, <2>9, <2>10, <2>11, <2>12, <2>13, <2>14, <2>15
<1> QED BY <1>1, <1>2, <1>3, <1>4, <1>5, <1>6

(* The steps of stop.                                                      *)
LEMMA StoppingKeepsInv ==
    ASSUME Inv, StartStopAlone, NEW t \in Callers,
           ScanActive(t) \/ ScanDone(t) \/ JoinReader(t) \/ Deactivate(t) \/ DestroyRing(t)
    PROVE  Inv'
<1> USE DEF At, stream, reading
<1>1. CASE ScanActive(t)
    <2> USE DEF Inv
    <2>1. /\ call[t].h \in 0..NSlots
          /\ At(t, "scan")
          /\ UNCHANGED <<stream, reading, health, ring, sub_lock, subs, thread, handles>>
        BY <1>1 DEF ScanActive, TypeOK
    <2>2. \E h \in Slots :
              /\ subs[h].active
              /\ h > call[t].h
              /\ (\A i \in Slots : i > call[t].h /\ subs[i].active => h <= i)
              /\ Moves(t, call[t].op, "un_lock", h)
        <3> DEFINE rest == {i \in Slots : i > call[t].h /\ subs[i].active}
                   first == CHOOSE i \in rest : \A j \in rest : i <= j
        <3>1. rest \in SUBSET (0..NSlots) /\ NSlots \in Nat /\ rest # {}
            BY <1>1, StreamingAssumption DEF Slots, ScanActive
        <3>2. \E i \in rest : \A j \in rest : i <= j
            BY <3>1, LeastElement
        <3>3. first \in rest /\ \A i \in rest : first <= i
            BY <3>2
        <3>4. call' = [call EXCEPT ![t] = [@ EXCEPT !.pc = "un_lock", !.h = first]]
            BY <1>1 DEF ScanActive
        <3>5. "un_lock" \in PCs
            BY DEF PCs
        <3> HIDE DEF first
        <3>6. first \in 0..NSlots
            BY <3>3, StreamingAssumption DEF Slots
        <3>7. Moves(t, call[t].op, "un_lock", first)
            BY <3>4, <3>5, <3>6, PickMoves
        <3> QED BY <3>3, <3>7
    <2>3. call[t].op = "stop" /\ AloneAmong(t)
        BY <2>1, StepTellsCall, OneIsAlone DEF Unsubscribing
    <2>4. TypeOK'
        BY <2>1, <2>2, <2>3 DEF TypeOK, Moves, Becomes
    <2>5. CallsFit'
        BY <2>1, <2>2, <2>3
        DEF CallsFit, AloneAmong, Alone, Idle, StartStopAlone, Unsubscribing, Moves
    <2>6. LockHeld'
        BY <2>1, <2>2, <2>3, StreamingAssumption DEF LockHeld, Locking, Alone, Moves, AloneAmong
    <2>7. SlotsFit'
        BY <2>1, <2>2, <2>3 DEF SlotsFit, ThreadFits, SlotFits, Serving, Becomes
    <2>8. PickedIsFree'
        BY <2>1, <2>2, <2>3 DEF PickedIsFree, Moves, Becomes
    <2>9. EndedIsActive'
        BY <2>1, <2>2, <2>3
        DEF EndedIsActive, Ends, Unsubscribing, Moves, Becomes, ActiveIsServed, Served,
            AloneAmong, Alone
    <2>10. EndedByOne'
        BY <2>1, <2>2, <2>3 DEF EndedByOne, Ends, Unsubscribing, Moves, Alone, AloneAmong, Moves
    <2>11. ActiveIsServed'
        BY <2>1, <2>2, <2>3 DEF ActiveIsServed, Served, Ends, Unsubscribing, Moves, Becomes
    <2>12. HandlesFit'
        BY <2>1, <2>2, <2>3
        DEF HandlesFit, HandleFits, NoneAlone, Alone, Ends, Unsubscribing, Moves, Becomes
    <2>13. Resting'
        BY <2>1, <2>2, <2>3 DEF Resting, NoneAlone, Alone, Moves, Whole
    <2>14. Starts'
        BY <2>1, <2>2, <2>3 DEF Starts, Alone, AloneAmong, Moves
    <2>15. Stops'
        BY <2>1, <2>2, <2>3, StreamingAssumption
        DEF Stops, Alone, AloneAmong, Moves, Empty, Serving, Whole, Ends, Unsubscribing,
            Becomes, Slots
    <2> QED BY <2>4, <2>5, <2>6, <2>7, <2>8, <2>9, <2>10, <2>11, <2>12, <2>13, <2>14, <2>15
<1>2. CASE ScanDone(t)
    <2> USE DEF Inv
    <2>1. /\ call[t].h \in 0..NSlots
          /\ At(t, "scan") /\ cancel_requested' = TRUE
          /\ \A i \in Slots : i > call[t].h => ~subs[i].active
          /\ UNCHANGED <<active, reader_started, reading, health, ring, sub_lock, subs,
                         thread, handles>>
        BY <1>2 DEF ScanDone, TypeOK
    <2>2. Moves(t, call[t].op, "join_reader", call[t].h)
        BY <1>2, GotoMoves, StepTellsCall DEF PCs, Stops, Whole, ScanDone
    <2>3. call[t].op = "stop" /\ AloneAmong(t)
        BY <2>1, StepTellsCall, OneIsAlone DEF Unsubscribing
    <2>4. Empty
        BY <2>1, <2>3, StreamingAssumption DEF Stops, Empty, SlotsFit, ThreadFits, Slots
    <2>5. TypeOK'
        BY <2>1, <2>2, <2>3, <2>4 DEF TypeOK, Moves, Becomes
    <2>6. CallsFit'
        BY <2>1, <2>2, <2>3, <2>4
        DEF CallsFit, AloneAmong, Alone, Idle, StartStopAlone, Unsubscribing, Moves
    <2>7. LockHeld'
        BY <2>1, <2>2, <2>3, <2>4, StreamingAssumption
        DEF LockHeld, Locking, Alone, Moves, AloneAmong
    <2>8. SlotsFit'
        BY <2>1, <2>2, <2>3, <2>4 DEF SlotsFit, ThreadFits, SlotFits, Serving, Becomes
    <2>9. PickedIsFree'
        BY <2>1, <2>2, <2>3, <2>4 DEF PickedIsFree, Moves, Becomes
    <2>10. EndedIsActive'
        BY <2>1, <2>2, <2>3, <2>4 DEF EndedIsActive, Ends, Unsubscribing, Moves, Becomes
    <2>11. EndedByOne'
        BY <2>1, <2>2, <2>3, <2>4 DEF EndedByOne, Ends, Unsubscribing, Moves
    <2>12. ActiveIsServed'
        BY <2>1, <2>2, <2>3, <2>4
        DEF ActiveIsServed, Served, Ends, Unsubscribing, Moves, Becomes
    <2>13. HandlesFit'
        BY <2>1, <2>2, <2>3, <2>4
        DEF HandlesFit, HandleFits, NoneAlone, Alone, Ends, Unsubscribing, Moves, Becomes
    <2>14. Resting'
        BY <2>1, <2>2, <2>3, <2>4 DEF Resting, NoneAlone, Alone, Moves, Whole
    <2>15. Starts'
        BY <2>1, <2>2, <2>3, <2>4 DEF Starts, Alone, AloneAmong, Moves
    <2>16. Stops'
        BY <2>1, <2>2, <2>3, <2>4, StreamingAssumption
        DEF Stops, Alone, AloneAmong, Moves, Empty, Serving, Whole, Ends, Unsubscribing,
            Becomes, Slots
    <2> QED BY <2>5, <2>6, <2>7, <2>8, <2>9, <2>10, <2>11, <2>12, <2>13, <2>14, <2>15, <2>16
<1>3. CASE JoinReader(t)
    <2> USE DEF Inv
    <2>1. /\ At(t, "join_reader")
          /\ reader' = "none" /\ reader_started' = FALSE
          /\ UNCHANGED <<active, cancel_requested, loop, use_sync, health, ring, sub_lock, subs,
                         thread, handles>>
        BY <1>3 DEF JoinReader
    <2>2. Moves(t, call[t].op, "down", call[t].h)
        BY <1>3, GotoMoves DEF PCs, Ops, JoinReader
    <2>3. call[t].op = "stop" /\ AloneAmong(t)
        BY <2>1, StepTellsCall, OneIsAlone DEF Unsubscribing
    <2>4. TypeOK'
        BY <2>1, <2>2, <2>3 DEF TypeOK, Moves, Becomes
    <2>5. CallsFit'
        BY <2>1, <2>2, <2>3
        DEF CallsFit, AloneAmong, Alone, Idle, StartStopAlone, Unsubscribing, Moves
    <2>6. LockHeld'
        BY <2>1, <2>2, <2>3, StreamingAssumption DEF LockHeld, Locking, Alone, Moves, AloneAmong
    <2>7. SlotsFit'
        BY <2>1, <2>2, <2>3 DEF SlotsFit, ThreadFits, SlotFits, Serving, Becomes
    <2>8. PickedIsFree'
        BY <2>1, <2>2, <2>3 DEF PickedIsFree, Moves, Becomes
    <2>9. EndedIsActive'
        BY <2>1, <2>2, <2>3 DEF EndedIsActive, Ends, Unsubscribing, Moves, Becomes
    <2>10. EndedByOne'
        BY <2>1, <2>2, <2>3 DEF EndedByOne, Ends, Unsubscribing, Moves
    <2>11. ActiveIsServed'
        BY <2>1, <2>2, <2>3 DEF ActiveIsServed, Served, Ends, Unsubscribing, Moves, Becomes
    <2>12. HandlesFit'
        BY <2>1, <2>2, <2>3
        DEF HandlesFit, HandleFits, NoneAlone, Alone, Ends, Unsubscribing, Moves, Becomes
    <2>13. Resting'
        BY <2>1, <2>2, <2>3 DEF Resting, NoneAlone, Alone, Moves, Whole
    <2>14. Starts'
        BY <2>1, <2>2, <2>3 DEF Starts, Alone, AloneAmong, Moves
    <2>15. Stops'
        BY <2>1, <2>2, <2>3
        DEF Stops, Alone, AloneAmong, Moves, Empty, Serving, Whole, Ends, Unsubscribing, Becomes
    <2> QED BY <2>4, <2>5, <2>6, <2>7, <2>8, <2>9, <2>10, <2>11, <2>12, <2>13, <2>14, <2>15
<1>4. CASE Deactivate(t)
    <2> USE DEF Inv
    <2>1. /\ At(t, "down") /\ active' = FALSE
          /\ UNCHANGED <<cancel_requested, reader_started, reading, health, ring, sub_lock, subs,
                         thread, handles>>
        BY <1>4 DEF Deactivate
    <2>2. Moves(t, call[t].op, "destroy", call[t].h)
        BY <1>4, GotoMoves DEF PCs, Ops, Deactivate
    <2>3. call[t].op = "stop" /\ AloneAmong(t)
        BY <2>1, StepTellsCall, OneIsAlone DEF Unsubscribing
    <2>4. TypeOK'
        BY <2>1, <2>2, <2>3 DEF TypeOK, Moves, Becomes
    <2>5. CallsFit'
        BY <2>1, <2>2, <2>3
        DEF CallsFit, AloneAmong, Alone, Idle, StartStopAlone, Unsubscribing, Moves
    <2>6. LockHeld'
        BY <2>1, <2>2, <2>3, StreamingAssumption DEF LockHeld, Locking, Alone, Moves, AloneAmong
    <2>7. SlotsFit'
        BY <2>1, <2>2, <2>3 DEF SlotsFit, ThreadFits, SlotFits, Serving, Becomes
    <2>8. PickedIsFree'
        BY <2>1, <2>2, <2>3 DEF PickedIsFree, Moves, Becomes
    <2>9. EndedIsActive'
        BY <2>1, <2>2, <2>3 DEF EndedIsActive, Ends, Unsubscribing, Moves, Becomes
    <2>10. EndedByOne'
        BY <2>1, <2>2, <2>3 DEF EndedByOne, Ends, Unsubscribing, Moves
    <2>11. ActiveIsServed'
        BY <2>1, <2>2, <2>3 DEF ActiveIsServed, Served, Ends, Unsubscribing, Moves, Becomes
    <2>12. HandlesFit'
        BY <2>1, <2>2, <2>3
        DEF HandlesFit, HandleFits, NoneAlone, Alone, Ends, Unsubscribing, Moves, Becomes
    <2>13. Resting'
        BY <2>1, <2>2, <2>3 DEF Resting, NoneAlone, Alone, Moves, Whole
    <2>14. Starts'
        BY <2>1, <2>2, <2>3 DEF Starts, Alone, AloneAmong, Moves
    <2>15. Stops'
        BY <2>1, <2>2, <2>3
        DEF Stops, Alone, AloneAmong, Moves, Empty, Serving, Whole, Ends, Unsubscribing, Becomes
    <2> QED BY <2>4, <2>5, <2>6, <2>7, <2>8, <2>9, <2>10, <2>11, <2>12, <2>13, <2>14, <2>15
<1>5. CASE DestroyRing(t)
    <2> USE DEF Inv
    <2>1. /\ At(t, "destroy") /\ ring' = "freed"
          /\ handles' = [u \in Callers |-> {}]
          /\ UNCHANGED <<stream, reading, health, sub_lock, subs, thread>>
        BY <1>5 DEF DestroyRing, StartStopAlone
    <2>2. Moves(t, "none", "idle", 0)
        BY <1>5, ReturnMoves DEF PCs, Ops, DestroyRing
    <2>3. call[t].op \in {"start", "stop"} /\ AloneAmong(t)
        BY <2>1, StepTellsCall, OneIsAlone DEF Unsubscribing
    <2>4. TypeOK'
        BY <2>1, <2>2, <2>3 DEF TypeOK, Moves, Becomes
    <2>5. CallsFit'
        BY <2>1, <2>2, <2>3
        DEF CallsFit, AloneAmong, Alone, Idle, StartStopAlone, Unsubscribing, Moves
    <2>6. LockHeld'
        BY <2>1, <2>2, <2>3, StreamingAssumption DEF LockHeld, Locking, Alone, Moves, AloneAmong
    <2>7. SlotsFit'
        BY <2>1, <2>2, <2>3 DEF SlotsFit, ThreadFits, SlotFits, Serving, Becomes
    <2>8. PickedIsFree'
        BY <2>1, <2>2, <2>3 DEF PickedIsFree, Moves, Becomes
    <2>9. EndedIsActive'
        BY <2>1, <2>2, <2>3 DEF EndedIsActive, Ends, Unsubscribing, Moves, Becomes
    <2>10. EndedByOne'
        BY <2>1, <2>2, <2>3 DEF EndedByOne, Ends, Unsubscribing, Moves
    <2>11. ActiveIsServed'
        BY <2>1, <2>2, <2>3 DEF ActiveIsServed, Served, Ends, Unsubscribing, Moves, Becomes
    <2>12. HandlesFit'
        BY <2>1, <2>2, <2>3
        DEF HandlesFit, HandleFits, NoneAlone, Alone, Ends, Unsubscribing, Moves, Becomes,
            Alone, AloneAmong, Moves
    <2>13. Resting'
        BY <2>1, <2>2, <2>3
        DEF Resting, NoneAlone, Alone, Moves, Whole, Starts, Stops, Empty, AloneAmong, Nothing,
            Serving
    <2>14. Starts'
        BY <2>1, <2>2, <2>3 DEF Starts, Alone, AloneAmong, Moves, Empty, Serving, Nothing, Whole
    <2>15. Stops'
        BY <2>1, <2>2, <2>3
        DEF Stops, Alone, AloneAmong, Moves, Empty, Serving, Whole, Ends, Unsubscribing, Becomes
    <2> QED BY <2>4, <2>5, <2>6, <2>7, <2>8, <2>9, <2>10, <2>11, <2>12, <2>13, <2>14, <2>15
<1> QED BY <1>1, <1>2, <1>3, <1>4, <1>5

(* A call begins.                                                          *)
LEMMA NewCallKeepsInv ==
    ASSUME Inv, StartStopAlone, NEW t \in Callers,
           CallStart(t) \/ CallStop(t) \/ CallSubscribe(t) \/ CallUnsubscribe(t)
    PROVE  Inv'
<1> USE DEF At, stream, reading
<1>1. CASE CallStart(t)
    <2> USE DEF Inv
    <2>1. /\ ~active
          /\ UNCHANGED <<stream, reading, health, ring, sub_lock, subs, thread, handles>>
        BY <1>1 DEF CallStart, MayCall
    <2>2. Moves(t, "start", "init", 0)
        <3>1. "start" \in {"none"} \cup Ops /\ "init" \in PCs /\ 0 \in 0..NSlots
            BY StreamingAssumption DEF Ops, PCs
        <3>2. call' = [call EXCEPT ![t] = [op |-> "start", pc |-> "init", h |-> 0]]
            BY <1>1 DEF CallStart, MayCall
        <3> QED BY <3>1, <3>2, BeginMoves
    <2>3. /\ call[t].pc = "idle" /\ call[t].op = "none"
          /\ \A u \in Callers \ {t} : ~Alone(u) /\ call[u].pc = "idle" /\ call[u].op = "none"
        BY <1>1, CallBegins DEF Ops, CallStart, MayCall
    <2>4. TypeOK'
        BY <2>1, <2>2, <2>3 DEF TypeOK, Moves, Becomes
    <2>5. CallsFit'
        BY <2>1, <2>2, <2>3
        DEF CallsFit, AloneAmong, Alone, Idle, StartStopAlone, Unsubscribing, Moves
    <2>6. LockHeld'
        BY <2>1, <2>2, <2>3, StreamingAssumption DEF LockHeld, Locking, Alone, Moves, AloneAmong
    <2>7. SlotsFit'
        BY <2>1, <2>2, <2>3 DEF SlotsFit, ThreadFits, SlotFits, Serving, Becomes
    <2>8. PickedIsFree'
        BY <2>1, <2>2, <2>3 DEF PickedIsFree, Moves, Becomes
    <2>9. EndedIsActive'
        BY <2>1, <2>2, <2>3 DEF EndedIsActive, Ends, Unsubscribing, Moves, Becomes
    <2>10. EndedByOne'
        BY <2>1, <2>2, <2>3 DEF EndedByOne, Ends, Unsubscribing, Moves
    <2>11. ActiveIsServed'
        BY <2>1, <2>2, <2>3 DEF ActiveIsServed, Served, Ends, Unsubscribing, Moves, Becomes
    <2>12. HandlesFit'
        BY <2>1, <2>2, <2>3
        DEF HandlesFit, HandleFits, NoneAlone, Alone, Ends, Unsubscribing, Moves, Becomes
    <2>13. Resting'
        BY <2>1, <2>2, <2>3 DEF Resting, NoneAlone, Alone, Moves, Whole
    <2>14. Starts'
        BY <2>1, <2>2, <2>3
        DEF Starts, Alone, AloneAmong, Moves, Empty, Serving, Nothing, Whole, Resting, NoneAlone
    <2>15. Stops'
        BY <2>1, <2>2, <2>3 DEF Stops, Alone, AloneAmong, Moves
    <2> QED BY <2>4, <2>5, <2>6, <2>7, <2>8, <2>9, <2>10, <2>11, <2>12, <2>13, <2>14, <2>15
<1>2. CASE CallStop(t)
    <2> USE DEF Inv
    <2>1. /\ active
          /\ UNCHANGED <<stream, reading, health, ring, sub_lock, subs, thread, handles>>
        BY <1>2 DEF CallStop, MayCall
    <2>2. Moves(t, "stop", "scan", 0)
        <3>1. "stop" \in {"none"} \cup Ops /\ "scan" \in PCs /\ 0 \in 0..NSlots
            BY StreamingAssumption DEF Ops, PCs
        <3>2. call' = [call EXCEPT ![t] = [op |-> "stop", pc |-> "scan", h |-> 0]]
            BY <1>2 DEF CallStop, MayCall
        <3> QED BY <3>1, <3>2, BeginMoves
    <2>3. /\ call[t].pc = "idle" /\ call[t].op = "none"
          /\ \A u \in Callers \ {t} : ~Alone(u) /\ call[u].pc = "idle" /\ call[u].op = "none"
        BY <1>2, CallBegins DEF Ops, CallStop, MayCall
    <2>4. TypeOK'
        BY <2>1, <2>2, <2>3 DEF TypeOK, Moves, Becomes
    <2>5. CallsFit'
        BY <2>1, <2>2, <2>3
        DEF CallsFit, AloneAmong, Alone, Idle, StartStopAlone, Unsubscribing, Moves
    <2>6. LockHeld'
        BY <2>1, <2>2, <2>3, StreamingAssumption DEF LockHeld, Locking, Alone, Moves, AloneAmong
    <2>7. SlotsFit'
        BY <2>1, <2>2, <2>3 DEF SlotsFit, ThreadFits, SlotFits, Serving, Becomes
    <2>8. PickedIsFree'
        BY <2>1, <2>2, <2>3 DEF PickedIsFree, Moves, Becomes
    <2>9. EndedIsActive'
        BY <2>1, <2>2, <2>3 DEF EndedIsActive, Ends, Unsubscribing, Moves, Becomes
    <2>10. EndedByOne'
        BY <2>1, <2>2, <2>3 DEF EndedByOne, Ends, Unsubscribing, Moves
    <2>11. ActiveIsServed'
        BY <2>1, <2>2, <2>3 DEF ActiveIsServed, Served, Ends, Unsubscribing, Moves, Becomes
    <2>12. HandlesFit'
        BY <2>1, <2>2, <2>3
        DEF HandlesFit, HandleFits, NoneAlone, Alone, Ends, Unsubscribing, Moves, Becomes
    <2>13. Resting'
        BY <2>1, <2>2, <2>3 DEF Resting, NoneAlone, Alone, Moves, Whole
    <2>14. Starts'
        BY <2>1, <2>2, <2>3 DEF Starts, Alone, AloneAmong, Moves
    <2>15. Stops'
        <3>1. Whole'
            BY <2>1, <2>3 DEF Resting, NoneAlone, Alone, Whole
        <3>2. \A i \in Slots : ~(i <= 0)
            BY StreamingAssumption DEF Slots
        <3>3. \A u \in Callers \ {t} : call'[u].op # "stop"
            BY <2>2, <2>3 DEF Moves
        <3> QED BY <2>2, <3>1, <3>2, <3>3 DEF Stops, Moves, Ends, Unsubscribing
    <2> QED BY <2>4, <2>5, <2>6, <2>7, <2>8, <2>9, <2>10, <2>11, <2>12, <2>13, <2>14, <2>15
<1>3. CASE CallSubscribe(t)
    <2> USE DEF Inv
    <2>1. /\ active
          /\ UNCHANGED <<stream, reading, health, ring, sub_lock, subs, thread, handles>>
        BY <1>3 DEF CallSubscribe, MayCall
    <2>2. Moves(t, "subscribe", "sub_lock", 0)
        <3>1. "subscribe" \in {"none"} \cup Ops /\ "sub_lock" \in PCs /\ 0 \in 0..NSlots
            BY StreamingAssumption DEF Ops, PCs
        <3>2. call' = [call EXCEPT ![t] = [op |-> "subscribe", pc |-> "sub_lock", h |-> 0]]
            BY <1>3 DEF CallSubscribe, MayCall
        <3> QED BY <3>1, <3>2, BeginMoves
    <2>3. /\ call[t].pc = "idle" /\ call[t].op = "none"
          /\ \A u \in Callers \ {t} : ~Alone(u)
        BY <1>3, CallBegins DEF Ops, CallSubscribe, MayCall
    <2>4. TypeOK'
        BY <2>1, <2>2, <2>3 DEF TypeOK, Moves, Becomes
    <2>5. CallsFit'
        BY <2>1, <2>2, <2>3
        DEF CallsFit, AloneAmong, Alone, Idle, StartStopAlone, Unsubscribing, Moves
    <2>6. LockHeld'
        BY <2>1, <2>2, <2>3, StreamingAssumption DEF LockHeld, Locking, Alone, Moves, AloneAmong
    <2>7. SlotsFit'
        BY <2>1, <2>2, <2>3 DEF SlotsFit, ThreadFits, SlotFits, Serving, Becomes
    <2>8. PickedIsFree'
        BY <2>1, <2>2, <2>3 DEF PickedIsFree, Moves, Becomes
    <2>9. EndedIsActive'
        BY <2>1, <2>2, <2>3 DEF EndedIsActive, Ends, Unsubscribing, Moves, Becomes
    <2>10. EndedByOne'
        BY <2>1, <2>2, <2>3 DEF EndedByOne, Ends, Unsubscribing, Moves
    <2>11. ActiveIsServed'
        BY <2>1, <2>2, <2>3 DEF ActiveIsServed, Served, Ends, Unsubscribing, Moves, Becomes
    <2>12. HandlesFit'
        BY <2>1, <2>2, <2>3
        DEF HandlesFit, HandleFits, NoneAlone, Alone, Ends, Unsubscribing, Moves, Becomes
    <2>13. Resting'
        BY <2>1, <2>2, <2>3 DEF Resting, NoneAlone, Alone, Moves, Whole
    <2>14. Starts'
        BY <2>1, <2>2, <2>3 DEF Starts, Alone, AloneAmong, Moves
    <2>15. Stops'
        BY <2>1, <2>2, <2>3 DEF Stops, Alone, AloneAmong, Moves
    <2> QED BY <2>4, <2>5, <2>6, <2>7, <2>8, <2>9, <2>10, <2>11, <2>12, <2>13, <2>14, <2>15
<1>4. CASE CallUnsubscribe(t)
    <2> USE DEF Inv
    <2>1. /\ handles \in [Callers -> SUBSET Slots]
          /\ UNCHANGED <<stream, reading, health, ring, sub_lock, subs, thread>>
        BY <1>4 DEF CallUnsubscribe, MayCall, TypeOK
    <2>2. \E h \in handles[t] :
              /\ Moves(t, "unsubscribe", "un_lock", h)
              /\ handles' = [handles EXCEPT ![t] = @ \ {h}]
        <3>1. PICK h \in handles[t] :
                  /\ call' = [call EXCEPT ![t] = [op |-> "unsubscribe", pc |-> "un_lock", h |-> h]]
                  /\ handles' = [handles EXCEPT ![t] = @ \ {h}]
            BY <1>4 DEF CallUnsubscribe, MayCall
        <3>2. "unsubscribe" \in {"none"} \cup Ops /\ "un_lock" \in PCs /\ h \in 0..NSlots
            BY <2>1, StreamingAssumption DEF Ops, PCs, Slots
        <3> QED BY <3>1, <3>2, BeginMoves
    <2>3. /\ call[t].pc = "idle" /\ call[t].op = "none"
          /\ \A u \in Callers \ {t} : ~Alone(u)
        BY <1>4, CallBegins DEF Ops, CallUnsubscribe, MayCall
    <2>4. TypeOK'
        BY <2>1, <2>2, <2>3 DEF TypeOK, Moves, Becomes
    <2>5. CallsFit'
        BY <2>1, <2>2, <2>3
        DEF CallsFit, AloneAmong, Alone, Idle, StartStopAlone, Unsubscribing, Moves
    <2>6. LockHeld'
        BY <2>1, <2>2, <2>3, StreamingAssumption DEF LockHeld, Locking, Alone, Moves, AloneAmong
    <2>7. SlotsFit'
        BY <2>1, <2>2, <2>3 DEF SlotsFit, ThreadFits, SlotFits, Serving, Becomes
    <2>8. PickedIsFree'
        BY <2>1, <2>2, <2>3 DEF PickedIsFree, Moves, Becomes, NoneAlone
    <2>9. EndedIsActive'
        BY <2>1, <2>2, <2>3
        DEF EndedIsActive, Ends, Unsubscribing, Moves, Becomes, HandlesFit, HandleFits,
            NoneAlone, SlotsFit, SlotFits, Alone
    <2>10. EndedByOne'
        BY <2>1, <2>2, <2>3
        DEF EndedByOne, Ends, Unsubscribing, Moves, HandlesFit, HandleFits, NoneAlone, Alone
    <2>11. ActiveIsServed'
        BY <2>1, <2>2, <2>3 DEF ActiveIsServed, Served, Ends, Unsubscribing, Moves, Becomes
    <2>12. HandlesFit'
        BY SMTT(30), <2>1, <2>2, <2>3
        DEF HandlesFit, HandleFits, NoneAlone, Alone, Ends, Unsubscribing, Moves, Becomes
    <2>13. Resting'
        BY <2>1, <2>2, <2>3 DEF Resting, NoneAlone, Alone, Moves, Whole
    <2>14. Starts'
        BY <2>1, <2>2, <2>3 DEF Starts, Alone, AloneAmong, Moves
    <2>15. Stops'
        BY <2>1, <2>2, <2>3 DEF Stops, Alone, AloneAmong, Moves
    <2> QED BY <2>4, <2>5, <2>6, <2>7, <2>8, <2>9, <2>10, <2>11, <2>12, <2>13, <2>14, <2>15
<1> QED BY <1>1, <1>2, <1>3, <1>4

(* What the reader and the loop do, and a disconnect, is of no concern to  *)
(* the rest: there is a reader before and after.                           *)
LEMMA ReaderKeepsInv ==
    ASSUME Inv, Reader \/ ReaderHangs \/ LoopReaps \/ LoopChecks \/ LoopWrites \/ Disconnect
    PROVE  Inv'
<1>1. /\ UNCHANGED <<active, reader_started, ring, sub_lock, subs, thread, call, handles>>
      /\ cancel_requested' \in BOOLEAN
      /\ reader' = "none" <=> reader = "none"
      /\ reader' \in {"none", "setup", "submit", "acquire", "reaping", "hung", "leaving", "done"}
      /\ loop' \in {"none", "out", "check", "write"} /\ use_sync' \in BOOLEAN
      /\ health' \in {"OK", "DISCONNECTED"}
    <2> USE DEF Inv, TypeOK, stream, reading
    <2>1. CASE Reader
        BY <2>1
        DEF Reader, ReaderGoes, ReaderSetup, ReaderSubmits, ReaderSubmitFails, ReaderEnds,
            ReaderReaps, ReaderReleased, ReaderLeaves
    <2>2. CASE ReaderHangs \/ Disconnect
        BY <2>2 DEF ReaderHangs, ReaderGoes, Disconnect
    <2>3. CASE LoopReaps \/ LoopChecks \/ LoopWrites
        BY <2>3 DEF LoopGoes, LoopReaps, LoopChecks, LoopWrites
    <2> QED BY <2>1, <2>2, <2>3
<1>2. TypeOK'
    BY <1>1 DEF Inv, TypeOK
<1>3. CallsFit' /\ LockHeld'
    BY <1>1 DEF Inv, CallsFit, LockHeld, Alone, At
<1>4. SlotsFit'
    BY <1>1 DEF Inv, SlotsFit, ThreadFits, SlotFits, Serving
<1>5. PickedIsFree' /\ EndedIsActive' /\ EndedByOne'
    BY <1>1 DEF Inv, PickedIsFree, EndedIsActive, EndedByOne, Ends, At
<1>6. ActiveIsServed'
    BY <1>1 DEF Inv, ActiveIsServed, Served, Ends
<1>7. HandlesFit'
    BY <1>1 DEF Inv, HandlesFit, HandleFits, NoneAlone, Alone, Ends
<1>8. Resting'
    BY <1>1 DEF Inv, Resting, NoneAlone, Alone, Whole, Nothing, Empty, Serving, At
<1>9. Starts'
    BY <1>1 DEF Inv, Starts, Whole, Nothing, Empty, Serving, At
<1>10. Stops'
    BY <1>1 DEF Inv, Stops, Whole, Empty, Serving, Ends, At
<1> QED BY <1>2, <1>3, <1>4, <1>5, <1>6, <1>7, <1>8, <1>9, <1>10 DEF Inv

(* A consumer thread stays on its slot, and is joined by others.           *)
LEMMA ConsumerKeepsInv ==
    ASSUME Inv, NEW x \in Threads, Consumer(x) \/ Delivers(x)
    PROVE  Inv'
<1> DEFINE Steps == {"top", "callback", "done"}
           T == [pc : Steps \cup {"free"}, slot : 0..NSlots]
<1>1. PICK to \in Steps :
          /\ Serving(x)
          /\ thread' = [thread EXCEPT ![x].pc = to]
          /\ UNCHANGED <<active, cancel_requested, reader_started, reader, loop, use_sync, health,
                         ring, sub_lock, subs, call, handles>>
    BY DEF Consumer, SeesCancel, Delivers, Starved, Callback, MoveThread, Serving, stream, reading
<1>2. thread \in [Threads -> T]
    BY DEF Inv, TypeOK
<1>3. /\ thread' \in [Threads -> T]
      /\ \A y \in Threads : thread'[y].slot = thread[y].slot /\ (Serving(y)' <=> Serving(y))
    BY <1>1, <1>2 DEF Serving
<1>4. TypeOK'
    BY <1>1, <1>3 DEF Inv, TypeOK
<1>5. CallsFit' /\ LockHeld'
    BY <1>1 DEF Inv, CallsFit, LockHeld, Alone, At
<1>6. SlotsFit'
    <2>1. ASSUME NEW y \in Threads PROVE ThreadFits(y)'
        BY <1>1, <1>3 DEF Inv, SlotsFit, ThreadFits
    <2>2. ASSUME NEW i \in Slots PROVE SlotFits(i)'
        BY <1>1, <1>3 DEF Inv, TypeOK, SlotsFit, SlotFits
    <2> QED BY <2>1, <2>2 DEF SlotsFit
<1>7. PickedIsFree' /\ EndedIsActive' /\ EndedByOne'
    BY <1>1 DEF Inv, PickedIsFree, EndedIsActive, EndedByOne, Ends, At
<1>8. ActiveIsServed'
    BY <1>1 DEF Inv, ActiveIsServed, Served, Ends
<1>9. HandlesFit'
    BY <1>1 DEF Inv, HandlesFit, HandleFits, NoneAlone, Alone, Ends
<1>10. Empty' <=> Empty
    BY <1>1, <1>3 DEF Empty
<1>11. Resting'
    BY <1>1, <1>10 DEF Inv, Resting, NoneAlone, Alone, Whole, Nothing, At
<1>12. Starts'
    BY <1>1, <1>10 DEF Inv, Starts, Whole, Nothing, At
<1>13. Stops'
    BY <1>1, <1>10 DEF Inv, Stops, Whole, Ends, At
<1> QED BY <1>4, <1>5, <1>6, <1>7, <1>8, <1>9, <1>11, <1>12, <1>13 DEF Inv

-----------------------------------------------------------------------------
(* The invariant holds, and the properties follow from it.                 *)

(* Nothing is there at first.                                              *)
LEMMA InitInv == Init => Inv
<1> SUFFICES ASSUME Init PROVE Inv
    OBVIOUS
<1> USE StreamingAssumption DEF Init
<1>1. TypeOK
    <2>1. FreeSub \in [active : BOOLEAN, cancel : BOOLEAN, thread_started : BOOLEAN,
                       thread : Threads \cup {None}]
        BY DEF FreeSub
    <2>2. /\ FreeThread \in [pc : {"free", "top", "callback", "done"},
                            slot : 0..NSlots]
          /\ Idle \in [op : {"none"} \cup Ops, pc : PCs, h : 0..NSlots]
        BY DEF FreeThread, Idle, PCs
    <2> QED BY <2>1, <2>2 DEF TypeOK
<1>2. /\ \A t \in Callers : call[t].op = "none" /\ call[t].pc = "idle"
      /\ \A t \in Callers : ~Alone(t) /\ ~Ends(t)
      /\ \A x \in Threads : ~Serving(x)
      /\ \A i \in Slots : ~subs[i].active /\ ~subs[i].thread_started
    BY DEF Idle, Alone, Ends, Unsubscribing, Serving, FreeThread, FreeSub
<1>3. CallsFit /\ LockHeld
    BY <1>2 DEF CallsFit, LockHeld, Locking, Unsubscribing
<1>4. SlotsFit
    BY <1>2 DEF SlotsFit, ThreadFits, SlotFits
<1>5. PickedIsFree /\ EndedIsActive /\ EndedByOne /\ ActiveIsServed
    BY <1>2 DEF PickedIsFree, EndedIsActive, EndedByOne, ActiveIsServed, Served, At
<1>6. HandlesFit
    BY DEF HandlesFit
<1>7. Resting
    BY <1>2 DEF Resting, Nothing, Empty, At
<1>8. Starts /\ Stops
    BY <1>2 DEF Starts, Stops
<1> QED BY <1>1, <1>3, <1>4, <1>5, <1>6, <1>7, <1>8 DEF Inv

(* Every step keeps the invariant.                                         *)
LEMMA NextKeepsInv ==
    ASSUME Inv, StartStopAlone, Next
    PROVE  Inv'
<1>1. ASSUME NEW t \in Callers, InCall(t) PROVE Inv'
    BY <1>1, SubscribingKeepsInv, UnsubscribingKeepsInv, StartingKeepsInv, StoppingKeepsInv
    DEF InCall
<1>2. ASSUME NEW t \in Callers, NewCall(t) PROVE Inv'
    BY <1>2, NewCallKeepsInv DEF NewCall
<1>3. ASSUME Reader \/ ReaderHangs \/ LoopReaps \/ LoopChecks \/ LoopWrites \/ Disconnect
      PROVE  Inv'
    BY <1>3, ReaderKeepsInv
<1>4. ASSUME NEW x \in Threads, Consumer(x) \/ Delivers(x) PROVE Inv'
    BY <1>4, ConsumerKeepsInv
<1> QED BY <1>1, <1>2, <1>3, <1>4 DEF Next

(* A step that changes nothing keeps it too.                               *)
LEMMA StutterKeepsInv ==
    ASSUME Inv, UNCHANGED vars
    PROVE  Inv'
<1> USE DEF vars, stream, reading, Inv
<1>1. TypeOK' /\ CallsFit' /\ LockHeld'
    BY DEF TypeOK, CallsFit, LockHeld, Alone, At
<1>2. SlotsFit' /\ PickedIsFree' /\ EndedIsActive' /\ EndedByOne'
    BY
    DEF SlotsFit, ThreadFits, SlotFits, Serving, PickedIsFree, EndedIsActive, EndedByOne, Ends,
        At
<1>3. ActiveIsServed' /\ HandlesFit'
    BY DEF ActiveIsServed, Served, HandlesFit, HandleFits, NoneAlone, Alone, Ends
<1>4. Resting'
    BY DEF Resting, NoneAlone, Alone, Whole, Nothing, Empty, Serving, At
<1>5. Starts'
    BY DEF Starts, Whole, Nothing, Empty, Serving, At
<1>6. Stops'
    BY DEF Stops, Whole, Empty, Serving, Ends, At
<1> QED BY <1>1, <1>2, <1>3, <1>4, <1>5, <1>6

(* If start and stop run alone the invariant holds throughout.             *)
THEOREM InvHolds == ASSUME StartStopAlone PROVE Spec => []Inv
<1>1. Init => Inv
    BY InitInv
<1>2. Inv /\ [Next]_vars => Inv'
    BY NextKeepsInv, StutterKeepsInv
<1> QED BY <1>1, <1>2, PTL DEF Spec

(* unsubscribe joins a thread that is there, and no other caller joins it: *)
(* the slots two callers end are two, and a thread has one slot            *)
(* (src/sdrgg_ring.cpp 338-361).                                           *)
THEOREM ThreadsJoinedOnce == ASSUME StartStopAlone PROVE Spec => []JoinedOnce
<1>1. Inv => JoinedOnce
    <2> SUFFICES ASSUME Inv, NEW t \in Callers, At(t, "un_joining")
                 PROVE  LET x == subs[call[t].h].thread
                        IN  /\ x # None
                            /\ thread[x].pc # "free"
                            /\ \A u \in Callers \ {t} :
                                 At(u, "un_joining") => subs[call[u].h].thread # x
        BY DEF JoinedOnce
    <2>1. ASSUME NEW u \in Callers, At(u, "un_joining")
          PROVE  /\ Ends(u) /\ call[u].h \in Slots /\ subs[call[u].h].thread_started
                 /\ subs[call[u].h].thread # None
                 /\ thread[subs[call[u].h].thread].pc # "free"
                 /\ thread[subs[call[u].h].thread].slot = call[u].h
        BY <2>1 DEF Inv, EndedIsActive, Ends, Unsubscribing, At, SlotsFit, SlotFits, Serving
    <2>2. ASSUME NEW u \in Callers \ {t}, At(u, "un_joining")
          PROVE  subs[call[u].h].thread # subs[call[t].h].thread
        BY <2>1, <2>2 DEF Inv, EndedByOne
    <2> QED BY <2>1, <2>2
<1> QED BY <1>1, InvHolds, PTL

\* If no other device streams, the loop that this device's reader started is joined before
\* that reader ends; the reader of an FC0012 starts none.
LoopFits ==
    ~SharedLoop =>
        /\ loop # "none" => reader \in {"acquire", "reaping", "hung", "leaving"}
        /\ reader = "submit" \/ loop # "none" => ~use_sync

(* A call moves the reader only where there is no loop: before the thread  *)
(* is created, and after it has ended.                                     *)
LEMMA CallKeepsLoop ==
    ASSUME Inv, LoopFits, NEW t \in Callers, InCall(t)
    PROVE  LoopFits'
<1>1. CASE CreateReader(t)
    <2>1. call[t].op = "start" /\ At(t, "create_reader")
        BY <1>1, StepTellsCall DEF CreateReader, At, Inv
    <2> QED BY <1>1, <2>1 DEF CreateReader, Inv, Starts, LoopFits
<1>2. CASE UndoJoin(t) \/ JoinReader(t)
    BY <1>2 DEF UndoJoin, JoinReader, LoopFits
<1>3. CASE UNCHANGED reading
    BY <1>3 DEF reading, LoopFits
<1>4. CASE StartSubscribes(t) \/ LockToSubscribe(t) \/ PickSlot(t) \/ NoSlot(t)
    BY <1>3, <1>4 DEF StartSubscribes, LockToSubscribe, LockSub, PickSlot, NoSlot
<1>5. CASE CreateConsumer(t) \/ CreateConsumerFails(t)
    BY <1>3, <1>5 DEF CreateConsumer, CreateConsumerFails
<1>6. CASE \/ LockToCancel(t) \/ CancelSub(t) \/ BeginJoin(t)
           \/ EndJoin(t) \/ LockToRelease(t) \/ ReleaseSub(t)
    BY <1>3, <1>6
    DEF LockToCancel, LockToRelease, LockSub, CancelSub, BeginJoin, EndJoin, ReleaseSub
<1>7. CASE \/ InitRing(t) \/ InitRingFails(t) \/ CreateReaderFails(t) \/ Undo(t)
           \/ ScanActive(t) \/ ScanDone(t) \/ Deactivate(t) \/ DestroyRing(t)
    BY <1>3, <1>7
    DEF InitRing, InitRingFails, CreateReaderFails, Undo, ScanActive, ScanDone, Deactivate,
        DestroyRing
<1> QED BY <1>1, <1>2, <1>4, <1>5, <1>6, <1>7 DEF InCall

(* The others keep it: event_loop_stop waits for the loop                  *)
(* (src/sdrgg_ring.cpp 214-216, src/sdrgg_usb.cpp 570-582).                *)
LEMMA NextKeepsLoop ==
    ASSUME Inv, LoopFits, [Next]_vars
    PROVE  LoopFits'
<1> USE DEF reading, LoopFits
<1>1. CASE UNCHANGED vars
    BY <1>1 DEF vars
<1>2. ASSUME NEW t \in Callers, InCall(t) PROVE LoopFits'
    BY <1>2, CallKeepsLoop
<1>3. ASSUME NEW t \in Callers, NewCall(t) PROVE LoopFits'
    BY <1>3 DEF NewCall, CallStart, CallStop, CallSubscribe, CallUnsubscribe
<1>4. CASE Reader
    BY <1>4
    DEF Reader, ReaderGoes, ReaderSetup, ReaderSubmits, ReaderSubmitFails, ReaderEnds, ReaderReaps,
        ReaderReleased, ReaderLeaves
<1>5. CASE ReaderHangs \/ Disconnect
    BY <1>5 DEF ReaderHangs, ReaderGoes, Disconnect
<1>6. CASE LoopReaps \/ LoopChecks \/ LoopWrites
    <2>1. loop # "none" /\ UNCHANGED <<reader, use_sync>>
        BY <1>6 DEF LoopReaps, LoopChecks, LoopWrites, LoopGoes
    <2> QED BY <2>1
<1>7. ASSUME NEW x \in Threads, Consumer(x) \/ Delivers(x) PROVE LoopFits'
    BY <1>7 DEF Consumer, SeesCancel, Delivers, Starved, Callback, MoveThread
<1> QED BY <1>1, <1>2, <1>3, <1>4, <1>5, <1>6, <1>7 DEF Next

(* The ring is there as long as a consumer or the reader can use it, at    *)
(* every step of start and stop (src/sdrgg_ring.cpp 64-90, 146-221,        *)
(* 231-320), and as long as the event loop writes it, unless another       *)
(* device of the context streams and keeps the loop beyond the reader.     *)
THEOREM RingIsThere == ASSUME StartStopAlone PROVE Spec => []RingOutlivesThreads
<1>1. Inv /\ LoopFits => RingOutlivesThreads
    <2> SUFFICES ASSUME Inv, (\E x \in Threads : Serving(x)) \/ reader # "none"
                 PROVE  ring = "live"
        BY DEF RingOutlivesThreads, LoopFits, Running, Serving
    <2>1. CASE NoneAlone
        BY <2>1 DEF Inv, Resting, Whole, Nothing, Empty
    <2>2. ASSUME NEW t \in Callers, call[t].op = "start" PROVE ring = "live"
        BY <2>2 DEF Inv, Starts, Whole, Nothing, Empty, CallsFit, At
    <2>3. ASSUME NEW t \in Callers, call[t].op = "stop" PROVE ring = "live"
        BY <2>3 DEF Inv, Stops, Whole, Empty, CallsFit, At, Ends
    <2> QED BY <2>1, <2>2, <2>3 DEF NoneAlone, Alone
<1>2. Init => LoopFits
    BY DEF Init, LoopFits
<1>3. Inv /\ LoopFits /\ [Next]_vars => LoopFits'
    BY NextKeepsLoop
<1> QED BY <1>1, <1>2, <1>3, InvHolds, PTL DEF Spec

(* A slot serves the thread that unsubscribe would join                    *)
(* (src/sdrgg_ring.cpp 259-300, 344-361).                                  *)
THEOREM SlotsServe == ASSUME StartStopAlone PROVE Spec => []SlotServesOneThread
<1>1. Inv => SlotServesOneThread
    BY DEF Inv, SlotsFit, ThreadFits, Serving, SlotServesOneThread
<1> QED BY <1>1, InvHolds, PTL

(* A stream that is stopped, or whose start failed, left nothing behind    *)
(* (src/sdrgg_ring.cpp 231-320).                                           *)
THEOREM StoppedIsQuiet == ASSUME StartStopAlone PROVE Spec => []QuietWhenStopped
<1>1. Inv => QuietWhenStopped
    BY DEF Inv, Resting, NoneAlone, Alone, Nothing, Empty, Serving, QuietWhenStopped
<1> QED BY <1>1, InvHolds, PTL
=============================================================================
