--------------------------- MODULE EventLoopProofs ---------------------------
(***************************************************************************)
(* The invariants of EventLoop, proved for any finite set of devices and   *)
(* any thread ids.  That polled devices are alive holds whatever the       *)
(* application does; the rest of the loop if it lets no stream start while *)
(* another one ends (StartsOverlapEnds).                                   *)
(***************************************************************************)
EXTENDS EventLoop, FiniteSetTheorems, TLAPS

Streaming == {"streaming", "closing", "stop_join", "close_join"}

\* What the application of a device has done with it.
AppFits(d) ==
    /\ app[d] \in Streaming <=> active[d]
    /\ app[d] \in Streaming <=> reader[d] # "none"
    /\ app[d] # "closed" <=> d \in live
    /\ d \in table => app[d] \in {"open", "streaming", "stop_join"}

AppsFit == \A d \in Devices : AppFits(d)

\* Everywhere between lock and unlock
Locking == {"start", "create", "unlock"}

LockHeld ==
    /\ \A d \in Devices : reader[d] \in Locking <=> lock = d
    /\ \A t \in LoopThreads : LoopAt(t, "poll") <=> lock = t

\* The table does not change during the polling round.
PollFits == \A t \in LoopThreads : LoopAt(t, "poll") => loop[t].batch \subseteq table

\* Devices that streaming_count is about.
Counted == {d \in Devices : reader[d] \in {"wait", "remove", "uncount"}}

\* Less, if a device that could not be registered was counted down.
CountFits == streaming_count \in 0..Cardinality(Counted)

Inv == TypeOK /\ AppsFit /\ LockHeld /\ PollFits /\ CountFits

-----------------------------------------------------------------------------

\* No stream ends while another one starts ...
Apart == \A d, e \in Devices : d # e => ~(Starting(d) /\ Ending(e))

\* ... and a reader goes on only when its stream ends.
EndsForCause ==
    \A d \in Devices :
        reader[d] \in {"remove", "uncount", "check", "exchange", "join", "joining", "close"}
            => cancel_requested[d] \/ d \in disconnected

InLoopStop(d) == reader[d] \in {"join", "joining", "close"}

\* event_running is cleared by the one reader that stops the loop.
StopFits ==
    /\ \A d \in Devices : InLoopStop(d) => ~event_running
    /\ \A d, e \in Devices : InLoopStop(d) /\ InLoopStop(e) => d = e

Creating == \E d \in Devices : ReaderAt(d, "create")
Joining(d) == reader[d] \in {"join", "joining"}
Runs == event_running /\ ~Creating

\* There is one loop thread at most, while the loop runs and until it has been joined.
ThreadFits ==
    /\ \A t \in LoopThreads :
           ~LoopAt(t, "free") => t = event_thread /\ (Runs \/ \E d \in Devices : Joining(d))
    /\ Runs => event_thread # None /\ loop[event_thread].pc \in {"top", "events", "poll"}
    /\ \A d \in Devices : Joining(d) => event_thread # None /\ ~LoopAt(event_thread, "free")
    /\ \A d \in Devices : ReaderAt(d, "joining") => joining[d] = event_thread

Uses(d) == reader[d] \in {"create", "unlock", "add", "count", "wait", "remove", "uncount",
                          "check", "exchange"}

\* While the loop runs some reader uses it, the last of which will stop it.
RunFits ==
    /\ event_running => epoll_open /\ \E d \in Devices : Uses(d)
    /\ Creating => event_running
    /\ epoll_open => event_running \/ \E d \in Devices : InLoopStop(d)

\* As long as nothing has failed, who counts on the loop has it.
Served ==
    ~failed =>
        /\ \A d \in Devices :
               /\ reader[d] \in {"unlock", "add", "count", "wait"} => Runs
               /\ reader[d] \in {"count", "wait"} => d \in registered
               /\ ReaderAt(d, "exchange") => Counted = {}
        /\ streaming_count = Cardinality(Counted)

LoopInv == Inv /\ Apart /\ EndsForCause /\ StopFits /\ ThreadFits /\ RunFits /\ Served

-----------------------------------------------------------------------------
(* Lemmas about single steps.                                              *)

\* After the step the reader of d is at to, the others are where they were.
Moves(d, from, to) ==
    /\ ReaderAt(d, from) /\ reader'[d] = to
    /\ \A e \in Devices \ {d} : reader'[e] = reader[e]

\* reader and loop have the values of TypeOK after the step.
ReaderType ==
    reader \in [Devices -> {"none", "lock", "start", "create", "unlock", "add", "count",
                            "wait", "remove", "uncount", "check", "exchange", "join",
                            "joining", "close", "done"}]
LoopType ==
    loop \in [LoopThreads -> [pc : {"free", "top", "events", "poll", "ended"},
                              batch : SUBSET Devices]]

(* A step of a reader changes where that reader is only.                   *)
LEMMA ReaderMoves ==
    ASSUME TypeOK, NEW d \in Devices, NEW from, NEW to, ReaderAt(d, from), ReaderGoto(d, to),
           to \in {"none", "lock", "start", "create", "unlock", "add", "count",
                   "wait", "remove", "uncount", "check", "exchange", "join",
                   "joining", "close", "done"}
    PROVE  Moves(d, from, to) /\ ReaderType'
BY DEF TypeOK, Moves, ReaderGoto, ReaderType

\* After the step loop thread t is at pc with the devices of batch.
LoopMoves(t, pc, batch) ==
    /\ loop'[t].pc = pc /\ loop'[t].batch = batch
    /\ \A u \in LoopThreads \ {t} : loop'[u] = loop[u]

(* A step of a loop thread changes where that thread is only.              *)
LEMMA LoopGoes ==
    ASSUME TypeOK, NEW t \in LoopThreads, NEW pc \in {"top", "events", "poll", "ended"},
           NEW batch \in SUBSET Devices, LoopGoto(t, pc, batch)
    PROVE  LoopMoves(t, pc, batch) /\ LoopType'
BY DEF TypeOK, LoopMoves, LoopGoto, LoopType

(* streaming_count cannot go beyond the devices there are.                 *)
LEMMA CountsDevices ==
    ASSUME NEW S \in SUBSET Devices
    PROVE  /\ IsFiniteSet(S) /\ Cardinality(S) \in Nat
           /\ Cardinality(Devices) \in Nat /\ Cardinality(S) <= Cardinality(Devices)
BY EventLoopAssumption, FS_Subset, FS_CardinalityType

(* event_loop_stop is entered to end a stream.                             *)
LEMMA StoppersEnd ==
    ASSUME EndsForCause, NEW d \in Devices,
           reader[d] \in {"remove", "uncount", "check", "exchange", "join", "joining", "close"}
    PROVE  Ending(d)
BY DEF EndsForCause, Ending


(* While one stream starts nobody ends one, nor stops the loop.            *)
LEMMA StarterAlone ==
    ASSUME Apart, EndsForCause, NEW d \in Devices, Starting(d)
    PROVE  \A e \in Devices :
               reader[e] \notin {"remove", "uncount", "check", "exchange", "join", "joining",
                                 "close"}
<1> SUFFICES ASSUME NEW e \in Devices,
                    reader[e] \in {"remove", "uncount", "check", "exchange", "join", "joining",
                                   "close"}
             PROVE  FALSE
    OBVIOUS
<1>1. Ending(e)
    BY StoppersEnd
<1>2. d # e
    BY DEF Starting
<1> QED BY <1>1, <1>2 DEF Apart

(* Only the holder of the lock is in event_loop_start.                     *)
LEMMA LockAlone ==
    ASSUME LockHeld, NEW d \in Devices, reader[d] \in Locking
    PROVE  \A e \in Devices \ {d} : reader[e] \notin Locking
BY DEF LockHeld

(* A device that is to be counted is one more in Counted ...               *)
LEMMA CountsUp ==
    ASSUME NEW d \in Devices, NEW from \in {"add", "count"}, Moves(d, from, "wait")
    PROVE  /\ Counted' = Counted \cup {d} /\ d \notin Counted
           /\ Cardinality(Counted') = Cardinality(Counted) + 1
<1>1. Counted' = Counted \cup {d} /\ d \notin Counted
    BY DEF Moves, Counted, ReaderAt
<1>2. IsFiniteSet(Counted)
    BY CountsDevices DEF Counted
<1> QED BY <1>1, <1>2, FS_AddElement

(* ... and one that has been counted down one less.                        *)
LEMMA CountsDown ==
    ASSUME NEW d \in Devices, Moves(d, "uncount", "check")
    PROVE  /\ Counted' = Counted \ {d} /\ d \in Counted
           /\ Cardinality(Counted') = Cardinality(Counted) - 1
<1>1. Counted' = Counted \ {d} /\ d \in Counted
    BY DEF Moves, Counted, ReaderAt
<1>2. IsFiniteSet(Counted)
    BY CountsDevices DEF Counted
<1> QED BY <1>1, <1>2, FS_RemoveElement

-----------------------------------------------------------------------------
(* Every step keeps the invariant that needs nothing of the application.   *)

(* Starting the loop.                                                      *)
LEMMA StartingLoopKeepsInv ==
    ASSUME Inv, NEW d \in Devices,
           \/ LockToStart(d) \/ StartLoop(d) \/ StartLoopFails(d)
           \/ CreateLoop(d) \/ CreateLoopFails(d)
    PROVE  Inv'
<1> USE DEF ReaderAt
<1>1. CASE LockToStart(d)
    <2> USE DEF Inv
    <2>1. /\ lock = None /\ lock' = d
          /\ UNCHANGED <<table, live, active, cancel_requested, disconnected, app, joining,
                         event_running, streaming_count, epoll_open, registered,
                         failed, event_thread, loop>>
        BY <1>1 DEF LockToStart, device, count, epoll, thread
    <2>2. Moves(d, "lock", "start") /\ ReaderType'
        BY <1>1, ReaderMoves DEF LockToStart
    <2>3. Counted' = Counted
        BY <2>2 DEF Moves, Counted
    <2>4. CountFits'
        BY <2>1, <2>2, <2>3 DEF CountFits
    <2>5. TypeOK'
        BY <2>1, <2>2, <2>3, <2>4, CountsDevices DEF TypeOK, ReaderType, Counted
    <2>6. AppsFit' /\ LockHeld' /\ PollFits'
        BY <2>1, <2>2, <2>3, EventLoopAssumption
        DEF AppsFit, AppFits, Streaming, Moves, LockHeld, LoopAt, Locking, PollFits
    <2> QED BY <2>4, <2>5, <2>6 DEF Inv
<1>2. CASE StartLoop(d) /\ event_running
    <2> USE DEF Inv
    <2>1. /\ event_running
          /\ UNCHANGED <<table, live, active, cancel_requested, disconnected, app, joining,
                         lock, event_running, streaming_count, epoll_open,
                         registered, failed, event_thread, loop>>
        BY <1>2 DEF StartLoop, device, count, epoll, thread
    <2>2. Moves(d, "start", "unlock") /\ ReaderType'
        BY <1>2, ReaderMoves DEF StartLoop
    <2>3. Counted' = Counted
        BY <2>2 DEF Moves, Counted
    <2>4. CountFits'
        BY <2>1, <2>2, <2>3 DEF CountFits
    <2>5. TypeOK'
        BY <2>1, <2>2, <2>3, <2>4, CountsDevices DEF TypeOK, ReaderType, Counted
    <2>6. AppsFit' /\ LockHeld' /\ PollFits'
        BY <2>1, <2>2, <2>3, EventLoopAssumption
        DEF AppsFit, AppFits, Streaming, Moves, LockHeld, LoopAt, Locking, PollFits
    <2> QED BY <2>4, <2>5, <2>6 DEF Inv
<1>3. CASE StartLoop(d) /\ ~event_running
    <2> USE DEF Inv
    <2>1. /\ ~event_running /\ event_running' = TRUE /\ epoll_open' = TRUE /\ registered' = {}
          /\ UNCHANGED <<table, live, active, cancel_requested, disconnected, app, joining,
                         lock, streaming_count, failed, event_thread, loop>>
        BY <1>3 DEF StartLoop, device, count, epoll, thread
    <2>2. Moves(d, "start", "create") /\ ReaderType'
        BY <1>3, ReaderMoves DEF StartLoop
    <2>3. Counted' = Counted
        BY <2>2 DEF Moves, Counted
    <2>4. CountFits'
        BY <2>1, <2>2, <2>3 DEF CountFits
    <2>5. TypeOK'
        BY <2>1, <2>2, <2>3, <2>4, CountsDevices DEF TypeOK, ReaderType, Counted
    <2>6. AppsFit' /\ LockHeld' /\ PollFits'
        BY <2>1, <2>2, <2>3, EventLoopAssumption
        DEF AppsFit, AppFits, Streaming, Moves, LockHeld, LoopAt, Locking, PollFits
    <2> QED BY <2>4, <2>5, <2>6 DEF Inv
<1>4. CASE StartLoopFails(d)
    <2> USE DEF Inv
    <2>1. /\ ~event_running /\ epoll_open' = FALSE /\ registered' = {} /\ failed' = TRUE
          /\ UNCHANGED <<table, live, active, cancel_requested, disconnected, app, joining,
                         lock, event_running, streaming_count, event_thread,
                         loop>>
        BY <1>4 DEF StartLoopFails, device, count, epoll, thread
    <2>2. Moves(d, "start", "unlock") /\ ReaderType'
        BY <1>4, ReaderMoves DEF StartLoopFails
    <2>3. Counted' = Counted
        BY <2>2 DEF Moves, Counted
    <2>4. CountFits'
        BY <2>1, <2>2, <2>3 DEF CountFits
    <2>5. TypeOK'
        BY <2>1, <2>2, <2>3, <2>4, CountsDevices DEF TypeOK, ReaderType, Counted
    <2>6. AppsFit' /\ LockHeld' /\ PollFits'
        BY <2>1, <2>2, <2>3, EventLoopAssumption
        DEF AppsFit, AppFits, Streaming, Moves, LockHeld, LoopAt, Locking, PollFits
    <2> QED BY <2>4, <2>5, <2>6 DEF Inv
<1>5. CASE CreateLoop(d)
    <2> USE DEF Inv
    <2>1. /\ UNCHANGED <<table, live, active, cancel_requested, disconnected, app, joining,
                         lock, event_running, streaming_count, epoll_open,
                         registered, failed>>
        BY <1>5 DEF CreateLoop, device, count, epoll, thread
    <2>2. Moves(d, "create", "unlock") /\ ReaderType'
        BY <1>5, ReaderMoves DEF CreateLoop
    <2>3. Counted' = Counted
        BY <2>2 DEF Moves, Counted
    <2>4. PICK t \in LoopThreads :
              LoopAt(t, "free") /\ event_thread' = t /\ LoopMoves(t, "top", loop[t].batch)
              /\ LoopType'
        <3>1. PICK t \in LoopThreads :
                  LoopAt(t, "free") /\ event_thread' = t /\ loop' = [loop EXCEPT ![t].pc = "top"]
            BY <1>5 DEF CreateLoop, LoopAt
        <3>2. LoopMoves(t, "top", loop[t].batch) /\ LoopType'
            BY <3>1 DEF LoopMoves, LoopType, TypeOK, NoLoop
        <3> QED BY <3>1, <3>2
    <2>5. CountFits'
        BY <2>1, <2>2, <2>3, <2>4 DEF CountFits
    <2>6. TypeOK'
        BY <2>1, <2>2, <2>3, <2>4, <2>5, CountsDevices DEF TypeOK, ReaderType, LoopType, Counted
    <2>7. AppsFit'
        BY <2>1, <2>2, <2>3, <2>4 DEF AppsFit, AppFits, Streaming, Moves
    <2>8. LockHeld'
        BY <2>1, <2>2, <2>3, <2>4, EventLoopAssumption
        DEF LockHeld, LoopAt, LoopMoves, Locking, Moves
    <2>9. PollFits'
        BY <2>1, <2>2, <2>3, <2>4 DEF PollFits, LoopAt, LoopMoves
    <2> QED BY <2>5, <2>6, <2>7, <2>8, <2>9 DEF Inv
<1>6. CASE CreateLoopFails(d)
    <2> USE DEF Inv
    <2>1. /\ event_running' = FALSE /\ epoll_open' = FALSE /\ registered' = {} /\ failed' = TRUE
          /\ UNCHANGED <<table, live, active, cancel_requested, disconnected, app, joining,
                         lock, streaming_count, event_thread, loop>>
        BY <1>6 DEF CreateLoopFails, device, count, epoll, thread
    <2>2. Moves(d, "create", "unlock") /\ ReaderType'
        BY <1>6, ReaderMoves DEF CreateLoopFails
    <2>3. Counted' = Counted
        BY <2>2 DEF Moves, Counted
    <2>4. CountFits'
        BY <2>1, <2>2, <2>3 DEF CountFits
    <2>5. TypeOK'
        BY <2>1, <2>2, <2>3, <2>4, CountsDevices DEF TypeOK, ReaderType, Counted
    <2>6. AppsFit' /\ LockHeld' /\ PollFits'
        BY <2>1, <2>2, <2>3, EventLoopAssumption
        DEF AppsFit, AppFits, Streaming, Moves, LockHeld, LoopAt, Locking, PollFits
    <2> QED BY <2>4, <2>5, <2>6 DEF Inv
<1> QED BY <1>1, <1>2, <1>3, <1>4, <1>5, <1>6

(* Registering a device with the loop, and taking it out.                  *)
LEMMA UsingLoopKeepsInv ==
    ASSUME Inv, NEW d \in Devices,
           \/ Unlock(d) \/ AddDev(d) \/ AddDevFails(d) \/ CountDev(d)
           \/ LeaveWait(d) \/ RemoveDev(d) \/ UncountDev(d)
    PROVE  Inv'
<1> USE DEF ReaderAt
<1>1. CASE Unlock(d)
    <2> USE DEF Inv
    <2>1. /\ lock' = None
          /\ UNCHANGED <<table, live, active, cancel_requested, disconnected, app, joining,
                         event_running, streaming_count, epoll_open, registered,
                         failed, event_thread, loop>>
        BY <1>1 DEF Unlock, device, count, epoll, thread
    <2>2. Moves(d, "unlock", "add") /\ ReaderType'
        BY <1>1, ReaderMoves DEF Unlock
    <2>3. Counted' = Counted
        BY <2>2 DEF Moves, Counted
    <2>4. CountFits'
        BY <2>1, <2>2, <2>3 DEF CountFits
    <2>5. TypeOK'
        BY <2>1, <2>2, <2>3, <2>4, CountsDevices DEF TypeOK, ReaderType, Counted
    <2>6. AppsFit' /\ LockHeld' /\ PollFits'
        BY <2>1, <2>2, <2>3, EventLoopAssumption
        DEF AppsFit, AppFits, Streaming, Moves, LockHeld, LoopAt, Locking, PollFits
    <2> QED BY <2>4, <2>5, <2>6 DEF Inv
<1>2. CASE AddDev(d)
    <2> USE DEF Inv
    <2>1. /\ registered' = registered \cup {d}
          /\ UNCHANGED <<table, live, active, cancel_requested, disconnected, app, joining,
                         lock, event_running, streaming_count, epoll_open, failed,
                         event_thread, loop>>
        BY <1>2 DEF AddDev, device, count, epoll, thread
    <2>2. Moves(d, "add", "count") /\ ReaderType'
        BY <1>2, ReaderMoves DEF AddDev
    <2>3. Counted' = Counted
        BY <2>2 DEF Moves, Counted
    <2>4. CountFits'
        BY <2>1, <2>2, <2>3 DEF CountFits
    <2>5. TypeOK'
        BY <2>1, <2>2, <2>3, <2>4, CountsDevices DEF TypeOK, ReaderType, Counted
    <2>6. AppsFit' /\ LockHeld' /\ PollFits'
        BY <2>1, <2>2, <2>3, EventLoopAssumption
        DEF AppsFit, AppFits, Streaming, Moves, LockHeld, LoopAt, Locking, PollFits
    <2> QED BY <2>4, <2>5, <2>6 DEF Inv
<1>3. CASE AddDevFails(d)
    <2> USE DEF Inv
    <2>1. /\ failed' = TRUE
          /\ UNCHANGED <<table, live, active, cancel_requested, disconnected, app, joining,
                         lock, event_running, streaming_count, epoll_open,
                         registered, event_thread, loop>>
        BY <1>3 DEF AddDevFails, device, count, epoll, thread
    <2>2. Moves(d, "add", "wait") /\ ReaderType'
        BY <1>3, ReaderMoves DEF AddDevFails
    <2>3. CountFits'
        <3>1. Cardinality(Counted') = Cardinality(Counted) + 1
            BY <2>2, CountsUp
        <3>2. Cardinality(Counted) \in Nat /\ Cardinality(Counted') \in Nat
            BY CountsDevices DEF Counted
        <3> QED BY <2>1, <3>1, <3>2 DEF CountFits, TypeOK
    <2>4. TypeOK'
        BY <2>1, <2>2, <2>3, CountsDevices DEF TypeOK, ReaderType, Counted
    <2>5. AppsFit' /\ LockHeld' /\ PollFits'
        BY <2>1, <2>2, EventLoopAssumption
        DEF AppsFit, AppFits, Streaming, Moves, LockHeld, LoopAt, Locking, PollFits
    <2> QED BY <2>3, <2>4, <2>5 DEF Inv
<1>4. CASE CountDev(d)
    <2> USE DEF Inv
    <2>1. /\ streaming_count' = streaming_count + 1
          /\ UNCHANGED <<table, live, active, cancel_requested, disconnected, app, joining,
                         lock, event_running, epoll_open, registered, failed,
                         event_thread, loop>>
        BY <1>4 DEF CountDev, device, count, epoll, thread
    <2>2. Moves(d, "count", "wait") /\ ReaderType'
        BY <1>4, ReaderMoves DEF CountDev
    <2>3. CountFits'
        <3>1. Cardinality(Counted') = Cardinality(Counted) + 1
            BY <2>2, CountsUp
        <3>2. Cardinality(Counted) \in Nat /\ Cardinality(Counted') \in Nat
            BY CountsDevices DEF Counted
        <3> QED BY <2>1, <3>1, <3>2 DEF CountFits, TypeOK
    <2>4. TypeOK'
        <3>1. Cardinality(Counted') <= Cardinality(Devices) /\ Cardinality(Devices) \in Nat
            BY CountsDevices, Counted' \in SUBSET Devices DEF Counted
        <3>2. streaming_count' \in 0..Cardinality(Devices)
            BY <2>3, <3>1, CountsDevices, Counted' \in SUBSET Devices DEF CountFits, Counted
        <3> QED BY <2>1, <2>2, <3>2 DEF TypeOK, ReaderType
    <2>5. AppsFit' /\ LockHeld' /\ PollFits'
        BY <2>1, <2>2, EventLoopAssumption
        DEF AppsFit, AppFits, Streaming, Moves, LockHeld, LoopAt, Locking, PollFits
    <2> QED BY <2>3, <2>4, <2>5 DEF Inv
<1>5. CASE LeaveWait(d)
    <2> USE DEF Inv
    <2>1. /\ cancel_requested[d] \/ d \in disconnected
          /\ UNCHANGED <<table, live, active, cancel_requested, disconnected, app, joining,
                         lock, event_running, streaming_count, epoll_open,
                         registered, failed, event_thread, loop>>
        BY <1>5 DEF LeaveWait, device, count, epoll, thread
    <2>2. Moves(d, "wait", "remove") /\ ReaderType'
        BY <1>5, ReaderMoves DEF LeaveWait
    <2>3. Counted' = Counted
        BY <2>2 DEF Moves, Counted
    <2>4. CountFits'
        BY <2>1, <2>2, <2>3 DEF CountFits
    <2>5. TypeOK'
        BY <2>1, <2>2, <2>3, <2>4, CountsDevices DEF TypeOK, ReaderType, Counted
    <2>6. AppsFit' /\ LockHeld' /\ PollFits'
        BY <2>1, <2>2, <2>3, EventLoopAssumption
        DEF AppsFit, AppFits, Streaming, Moves, LockHeld, LoopAt, Locking, PollFits
    <2> QED BY <2>4, <2>5, <2>6 DEF Inv
<1>6. CASE RemoveDev(d)
    <2> USE DEF Inv
    <2>1. /\ registered' = registered \ {d}
          /\ UNCHANGED <<table, live, active, cancel_requested, disconnected, app, joining,
                         lock, event_running, streaming_count, epoll_open, failed,
                         event_thread, loop>>
        BY <1>6 DEF RemoveDev, device, count, epoll, thread
    <2>2. Moves(d, "remove", "uncount") /\ ReaderType'
        BY <1>6, ReaderMoves DEF RemoveDev
    <2>3. Counted' = Counted
        BY <2>2 DEF Moves, Counted
    <2>4. CountFits'
        BY <2>1, <2>2, <2>3 DEF CountFits
    <2>5. TypeOK'
        BY <2>1, <2>2, <2>3, <2>4, CountsDevices DEF TypeOK, ReaderType, Counted
    <2>6. AppsFit' /\ LockHeld' /\ PollFits'
        BY <2>1, <2>2, <2>3, EventLoopAssumption
        DEF AppsFit, AppFits, Streaming, Moves, LockHeld, LoopAt, Locking, PollFits
    <2> QED BY <2>4, <2>5, <2>6 DEF Inv
<1>7. CASE UncountDev(d)
    <2> USE DEF Inv
    <2>1. /\ streaming_count' = IF streaming_count > 0 THEN streaming_count - 1 ELSE 0
          /\ UNCHANGED <<table, live, active, cancel_requested, disconnected, app, joining,
                         lock, event_running, epoll_open, registered, failed,
                         event_thread, loop>>
        BY <1>7 DEF UncountDev, device, count, epoll, thread
    <2>2. Moves(d, "uncount", "check") /\ ReaderType'
        BY <1>7, ReaderMoves DEF UncountDev
    <2>3. CountFits'
        <3>1. Cardinality(Counted') = Cardinality(Counted) - 1
            BY <2>2, CountsDown
        <3>2. Cardinality(Counted) \in Nat /\ Cardinality(Counted') \in Nat
            BY CountsDevices DEF Counted
        <3> QED BY <2>1, <3>1, <3>2 DEF CountFits, TypeOK
    <2>4. TypeOK'
        BY <2>1, <2>2, <2>3, CountsDevices DEF TypeOK, ReaderType, Counted
    <2>5. AppsFit' /\ LockHeld' /\ PollFits'
        BY <2>1, <2>2, EventLoopAssumption
        DEF AppsFit, AppFits, Streaming, Moves, LockHeld, LoopAt, Locking, PollFits
    <2> QED BY <2>3, <2>4, <2>5 DEF Inv
<1> QED BY <1>1, <1>2, <1>3, <1>4, <1>5, <1>6, <1>7

(* Stopping the loop.                                                      *)
LEMMA StoppingLoopKeepsInv ==
    ASSUME Inv, NEW d \in Devices,
           CheckLast(d) \/ Exchange(d) \/ BeginJoin(d) \/ EndJoin(d) \/ CloseEpoll(d)
    PROVE  Inv'
<1> USE DEF ReaderAt
<1>1. CASE CheckLast(d) /\ streaming_count = 0
    <2> USE DEF Inv
    <2>1. /\ streaming_count = 0
          /\ UNCHANGED <<table, live, active, cancel_requested, disconnected, app, joining,
                         lock, event_running, streaming_count, epoll_open,
                         registered, failed, event_thread, loop>>
        BY <1>1 DEF CheckLast, device, count, epoll, thread
    <2>2. Moves(d, "check", "exchange") /\ ReaderType'
        BY <1>1, ReaderMoves DEF CheckLast
    <2>3. Counted' = Counted
        BY <2>2 DEF Moves, Counted
    <2>4. CountFits'
        BY <2>1, <2>2, <2>3 DEF CountFits
    <2>5. TypeOK'
        BY <2>1, <2>2, <2>3, <2>4, CountsDevices DEF TypeOK, ReaderType, Counted
    <2>6. AppsFit' /\ LockHeld' /\ PollFits'
        BY <2>1, <2>2, <2>3, EventLoopAssumption
        DEF AppsFit, AppFits, Streaming, Moves, LockHeld, LoopAt, Locking, PollFits
    <2> QED BY <2>4, <2>5, <2>6 DEF Inv
<1>2. CASE CheckLast(d) /\ streaming_count # 0
    <2> USE DEF Inv
    <2>1. /\ streaming_count # 0
          /\ UNCHANGED <<table, live, active, cancel_requested, disconnected, app, joining,
                         lock, event_running, streaming_count, epoll_open,
                         registered, failed, event_thread, loop>>
        BY <1>2 DEF CheckLast, device, count, epoll, thread
    <2>2. Moves(d, "check", "done") /\ ReaderType'
        BY <1>2, ReaderMoves DEF CheckLast
    <2>3. Counted' = Counted
        BY <2>2 DEF Moves, Counted
    <2>4. CountFits'
        BY <2>1, <2>2, <2>3 DEF CountFits
    <2>5. TypeOK'
        BY <2>1, <2>2, <2>3, <2>4, CountsDevices DEF TypeOK, ReaderType, Counted
    <2>6. AppsFit' /\ LockHeld' /\ PollFits'
        BY <2>1, <2>2, <2>3, EventLoopAssumption
        DEF AppsFit, AppFits, Streaming, Moves, LockHeld, LoopAt, Locking, PollFits
    <2> QED BY <2>4, <2>5, <2>6 DEF Inv
<1>3. CASE Exchange(d) /\ event_running
    <2> USE DEF Inv
    <2>1. /\ event_running /\ event_running' = FALSE
          /\ UNCHANGED <<table, live, active, cancel_requested, disconnected, app, joining,
                         lock, streaming_count, epoll_open, registered, failed,
                         event_thread, loop>>
        BY <1>3 DEF Exchange, device, count, epoll, thread
    <2>2. Moves(d, "exchange", "join") /\ ReaderType'
        BY <1>3, ReaderMoves DEF Exchange
    <2>3. Counted' = Counted
        BY <2>2 DEF Moves, Counted
    <2>4. CountFits'
        BY <2>1, <2>2, <2>3 DEF CountFits
    <2>5. TypeOK'
        BY <2>1, <2>2, <2>3, <2>4, CountsDevices DEF TypeOK, ReaderType, Counted
    <2>6. AppsFit' /\ LockHeld' /\ PollFits'
        BY <2>1, <2>2, <2>3, EventLoopAssumption
        DEF AppsFit, AppFits, Streaming, Moves, LockHeld, LoopAt, Locking, PollFits
    <2> QED BY <2>4, <2>5, <2>6 DEF Inv
<1>4. CASE Exchange(d) /\ ~event_running
    <2> USE DEF Inv
    <2>1. /\ ~event_running /\ event_running' = FALSE
          /\ UNCHANGED <<table, live, active, cancel_requested, disconnected, app, joining,
                         lock, streaming_count, epoll_open, registered, failed,
                         event_thread, loop>>
        BY <1>4 DEF Exchange, device, count, epoll, thread
    <2>2. Moves(d, "exchange", "done") /\ ReaderType'
        BY <1>4, ReaderMoves DEF Exchange
    <2>3. Counted' = Counted
        BY <2>2 DEF Moves, Counted
    <2>4. CountFits'
        BY <2>1, <2>2, <2>3 DEF CountFits
    <2>5. TypeOK'
        BY <2>1, <2>2, <2>3, <2>4, CountsDevices DEF TypeOK, ReaderType, Counted
    <2>6. AppsFit' /\ LockHeld' /\ PollFits'
        BY <2>1, <2>2, <2>3, EventLoopAssumption
        DEF AppsFit, AppFits, Streaming, Moves, LockHeld, LoopAt, Locking, PollFits
    <2> QED BY <2>4, <2>5, <2>6 DEF Inv
<1>5. CASE BeginJoin(d)
    <2> USE DEF Inv
    <2>1. /\ joining' = [joining EXCEPT ![d] = event_thread]
          /\ UNCHANGED <<table, live, active, cancel_requested, disconnected, app, lock,
                         event_running, streaming_count, epoll_open, registered,
                         failed, event_thread, loop>>
        BY <1>5 DEF BeginJoin, device, count, epoll, thread
    <2>2. Moves(d, "join", "joining") /\ ReaderType'
        BY <1>5, ReaderMoves DEF BeginJoin
    <2>3. Counted' = Counted
        BY <2>2 DEF Moves, Counted
    <2>4. CountFits'
        BY <2>1, <2>2, <2>3 DEF CountFits
    <2>5. TypeOK'
        BY <2>1, <2>2, <2>3, <2>4, CountsDevices DEF TypeOK, ReaderType, Counted
    <2>6. AppsFit' /\ LockHeld' /\ PollFits'
        BY <2>1, <2>2, <2>3, EventLoopAssumption
        DEF AppsFit, AppFits, Streaming, Moves, LockHeld, LoopAt, Locking, PollFits
    <2> QED BY <2>4, <2>5, <2>6 DEF Inv
<1>6. CASE EndJoin(d)
    <2> USE DEF Inv
    <2>1. /\ joining' = [joining EXCEPT ![d] = None]
          /\ UNCHANGED <<table, live, active, cancel_requested, disconnected, app, lock,
                         event_running, streaming_count, epoll_open, registered,
                         failed, event_thread>>
        BY <1>6 DEF EndJoin, device, count, epoll, thread
    <2>2. Moves(d, "joining", "close") /\ ReaderType'
        BY <1>6, ReaderMoves DEF EndJoin
    <2>3. Counted' = Counted
        BY <2>2 DEF Moves, Counted
    <2>4. PICK t \in LoopThreads :
              LoopAt(t, "ended") /\ t = joining[d] /\ LoopMoves(t, "free", {})
              /\ LoopType'
        <3>1. PICK t \in LoopThreads :
                  LoopAt(t, "ended") /\ t = joining[d] /\ loop' = [loop EXCEPT ![t] = NoLoop]
            BY <1>6 DEF EndJoin, LoopAt, TypeOK
        <3>2. LoopMoves(t, "free", {}) /\ LoopType'
            BY <3>1 DEF LoopMoves, LoopType, TypeOK, NoLoop
        <3> QED BY <3>1, <3>2
    <2>5. CountFits'
        BY <2>1, <2>2, <2>3, <2>4 DEF CountFits
    <2>6. TypeOK'
        BY <2>1, <2>2, <2>3, <2>4, <2>5, CountsDevices DEF TypeOK, ReaderType, LoopType, Counted
    <2>7. AppsFit'
        BY <2>1, <2>2, <2>3, <2>4 DEF AppsFit, AppFits, Streaming, Moves
    <2>8. LockHeld'
        BY <2>1, <2>2, <2>3, <2>4, EventLoopAssumption
        DEF LockHeld, LoopAt, LoopMoves, Locking, Moves
    <2>9. PollFits'
        BY <2>1, <2>2, <2>3, <2>4 DEF PollFits, LoopAt, LoopMoves
    <2> QED BY <2>5, <2>6, <2>7, <2>8, <2>9 DEF Inv
<1>7. CASE CloseEpoll(d)
    <2> USE DEF Inv
    <2>1. /\ epoll_open' = FALSE /\ registered' = {}
          /\ UNCHANGED <<table, live, active, cancel_requested, disconnected, app, joining,
                         lock, event_running, streaming_count, failed,
                         event_thread, loop>>
        BY <1>7 DEF CloseEpoll, device, count, epoll, thread
    <2>2. Moves(d, "close", "done") /\ ReaderType'
        BY <1>7, ReaderMoves DEF CloseEpoll
    <2>3. Counted' = Counted
        BY <2>2 DEF Moves, Counted
    <2>4. CountFits'
        BY <2>1, <2>2, <2>3 DEF CountFits
    <2>5. TypeOK'
        BY <2>1, <2>2, <2>3, <2>4, CountsDevices DEF TypeOK, ReaderType, Counted
    <2>6. AppsFit' /\ LockHeld' /\ PollFits'
        BY <2>1, <2>2, <2>3, EventLoopAssumption
        DEF AppsFit, AppFits, Streaming, Moves, LockHeld, LoopAt, Locking, PollFits
    <2> QED BY <2>4, <2>5, <2>6 DEF Inv
<1> QED BY <1>1, <1>2, <1>3, <1>4, <1>5, <1>6, <1>7

(* What the application does.                                              *)
LEMMA AppKeepsInv ==
    ASSUME Inv, NEW d \in Devices, App(d)
    PROVE  Inv'
<1> USE DEF ReaderAt
<1>1. CASE Open(d)
    <2> USE DEF Inv
    <2>1. /\ app[d] = "closed" /\ lock = None
          /\ live' = live \cup {d} /\ table' = table \cup {d}
          /\ app' = [app EXCEPT ![d] = "open"]
          /\ UNCHANGED <<active, cancel_requested, disconnected, reader, joining, lock,
                         event_running, streaming_count, epoll_open, registered,
                         failed, event_thread, loop>>
        BY <1>1 DEF Open, AppGoto, count, epoll, thread
    <2>2. Counted' = Counted
        BY <2>1 DEF Counted
    <2>3. CountFits'
        BY <2>1, <2>2 DEF CountFits
    <2>4. TypeOK'
        BY <2>1, <2>2, <2>3, CountsDevices DEF TypeOK, ReaderType, Counted
    <2>5. AppsFit'
        <3>1. AppFits(d)'
            BY <2>1, TypeOK DEF AppsFit, AppFits, Streaming, TypeOK
        <3>2. ASSUME NEW e \in Devices \ {d}
              PROVE  AppFits(e)'
            BY <2>1, TypeOK DEF AppsFit, AppFits, Streaming, TypeOK
        <3> QED BY <3>1, <3>2 DEF AppsFit
    <2>6. LockHeld' /\ PollFits'
        BY <2>1, <2>2, EventLoopAssumption DEF LockHeld, LoopAt, Locking, Moves, PollFits
    <2> QED BY <2>3, <2>4, <2>5, <2>6 DEF Inv
<1>2. CASE Disconnect(d)
    <2> USE DEF Inv
    <2>1. /\ reader[d] \notin {"none", "done"} /\ MayEnd(d)
          /\ disconnected' = disconnected \cup {d}
          /\ UNCHANGED <<table, live, active, cancel_requested, app, reader, joining, lock,
                         event_running, streaming_count, epoll_open, registered,
                         failed, event_thread, loop>>
        BY <1>2 DEF Disconnect, AppGoto, count, epoll, thread
    <2>2. Counted' = Counted
        BY <2>1 DEF Counted
    <2>3. CountFits'
        BY <2>1, <2>2 DEF CountFits
    <2>4. TypeOK'
        BY <2>1, <2>2, <2>3, CountsDevices DEF TypeOK, ReaderType, Counted
    <2>5. AppsFit' /\ LockHeld' /\ PollFits'
        BY <2>1, <2>2, EventLoopAssumption
        DEF AppsFit, AppFits, Streaming, Moves, LockHeld, LoopAt, Locking, PollFits
    <2> QED BY <2>3, <2>4, <2>5 DEF Inv
<1>3. CASE StartStream(d)
    <2> USE DEF Inv
    <2>1. /\ app[d] = "open" /\ MayStart(d)
          /\ cancel_requested' = [cancel_requested EXCEPT ![d] = FALSE]
          /\ active' = [active EXCEPT ![d] = TRUE]
          /\ app' = [app EXCEPT ![d] = "streaming"]
          /\ UNCHANGED <<table, live, disconnected, joining, lock, event_running,
                         streaming_count, epoll_open, registered, failed,
                         event_thread, loop>>
        BY <1>3 DEF StartStream, AppGoto, count, epoll, thread
    <2>2. Moves(d, "none", "lock") /\ ReaderType'
        BY <1>3, ReaderMoves DEF StartStream, AppsFit, AppFits, Streaming
    <2>3. Counted' = Counted
        BY <2>2 DEF Moves, Counted
    <2>4. CountFits'
        BY <2>1, <2>2, <2>3 DEF CountFits
    <2>5. TypeOK'
        BY <2>1, <2>2, <2>3, <2>4, CountsDevices DEF TypeOK, ReaderType, Counted
    <2>6. AppsFit'
        <3>1. AppFits(d)'
            BY <2>1, <2>2, TypeOK DEF AppsFit, AppFits, Streaming, TypeOK, Moves
        <3>2. ASSUME NEW e \in Devices \ {d}
              PROVE  AppFits(e)'
            BY <2>1, <2>2, TypeOK DEF AppsFit, AppFits, Streaming, TypeOK, Moves
        <3> QED BY <3>1, <3>2 DEF AppsFit
    <2>7. LockHeld' /\ PollFits'
        BY <2>1, <2>2, <2>3, EventLoopAssumption DEF LockHeld, LoopAt, Locking, Moves, PollFits
    <2> QED BY <2>4, <2>5, <2>6, <2>7 DEF Inv
<1>4. CASE Unregister(d)
    <2> USE DEF Inv
    <2>1. /\ app[d] \in {"open", "streaming"} /\ lock = None
          /\ table' = table \ {d}
          /\ app' = [app EXCEPT ![d] = IF active[d] THEN "closing" ELSE "free"]
          /\ UNCHANGED <<live, active, cancel_requested, disconnected, reader, joining, lock,
                         event_running, streaming_count, epoll_open, registered,
                         failed, event_thread, loop>>
        BY <1>4 DEF Unregister, AppGoto, count, epoll, thread
    <2>2. Counted' = Counted
        BY <2>1 DEF Counted
    <2>3. CountFits'
        BY <2>1, <2>2 DEF CountFits
    <2>4. TypeOK'
        BY <2>1, <2>2, <2>3, CountsDevices DEF TypeOK, ReaderType, Counted
    <2>5. PollFits'
        BY <2>1, <2>2, EventLoopAssumption DEF PollFits, LoopAt, LockHeld
    <2>6. AppsFit' /\ LockHeld'
        BY <2>1, <2>2, EventLoopAssumption
        DEF AppsFit, AppFits, Streaming, Moves, LockHeld, LoopAt, Locking
    <2> QED BY <2>3, <2>4, <2>5, <2>6 DEF Inv
<1>5. CASE Stop(d)
    <2> USE DEF Inv
    <2>1. /\ app[d] \in {"streaming", "closing"} /\ MayEnd(d)
          /\ cancel_requested' = [cancel_requested EXCEPT ![d] = TRUE]
          /\ app' = [app EXCEPT ![d] = IF app[d] = "streaming" THEN "stop_join"
                                                         ELSE "close_join"]
          /\ UNCHANGED <<table, live, active, disconnected, reader, joining, lock,
                         event_running, streaming_count, epoll_open, registered,
                         failed, event_thread, loop>>
        BY <1>5 DEF Stop, AppGoto, count, epoll, thread
    <2>2. Counted' = Counted
        BY <2>1 DEF Counted
    <2>3. CountFits'
        BY <2>1, <2>2 DEF CountFits
    <2>4. TypeOK'
        BY <2>1, <2>2, <2>3, CountsDevices DEF TypeOK, ReaderType, Counted
    <2>5. AppsFit' /\ LockHeld' /\ PollFits'
        BY <2>1, <2>2, EventLoopAssumption
        DEF AppsFit, AppFits, Streaming, Moves, LockHeld, LoopAt, Locking, PollFits
    <2> QED BY <2>3, <2>4, <2>5 DEF Inv
<1>6. CASE JoinReader(d)
    <2> USE DEF Inv
    <2>1. /\ app[d] \in {"stop_join", "close_join"}
          /\ active' = [active EXCEPT ![d] = FALSE]
          /\ app' = [app EXCEPT ![d] = IF app[d] = "stop_join" THEN "open" ELSE "free"]
          /\ UNCHANGED <<table, live, cancel_requested, disconnected, joining, lock,
                         event_running, streaming_count, epoll_open, registered,
                         failed, event_thread, loop>>
        BY <1>6 DEF JoinReader, AppGoto, count, epoll, thread
    <2>2. Moves(d, "done", "none") /\ ReaderType'
        BY <1>6, ReaderMoves DEF JoinReader
    <2>3. Counted' = Counted
        BY <2>2 DEF Moves, Counted
    <2>4. CountFits'
        BY <2>1, <2>2, <2>3 DEF CountFits
    <2>5. TypeOK'
        BY <2>1, <2>2, <2>3, <2>4, CountsDevices DEF TypeOK, ReaderType, Counted
    <2>6. AppsFit'
        <3>1. AppFits(d)'
            BY <2>1, <2>2, TypeOK DEF AppsFit, AppFits, Streaming, TypeOK, Moves
        <3>2. ASSUME NEW e \in Devices \ {d}
              PROVE  AppFits(e)'
            BY <2>1, <2>2, TypeOK DEF AppsFit, AppFits, Streaming, TypeOK, Moves
        <3> QED BY <3>1, <3>2 DEF AppsFit
    <2>7. LockHeld' /\ PollFits'
        BY <2>1, <2>2, <2>3, EventLoopAssumption DEF LockHeld, LoopAt, Locking, Moves, PollFits
    <2> QED BY <2>4, <2>5, <2>6, <2>7 DEF Inv
<1>7. CASE Free(d)
    <2> USE DEF Inv
    <2>1. /\ app[d] = "free"
          /\ live' = live \ {d} /\ disconnected' = disconnected \ {d}
          /\ cancel_requested' = [cancel_requested EXCEPT ![d] = FALSE]
          /\ app' = [app EXCEPT ![d] = "closed"]
          /\ UNCHANGED <<table, active, reader, joining, lock, event_running, streaming_count,
                         epoll_open, registered, failed, event_thread, loop>>
        BY <1>7 DEF Free, AppGoto, count, epoll, thread
    <2>2. Counted' = Counted
        BY <2>1 DEF Counted
    <2>3. CountFits'
        BY <2>1, <2>2 DEF CountFits
    <2>4. TypeOK'
        BY <2>1, <2>2, <2>3, CountsDevices DEF TypeOK, ReaderType, Counted
    <2>5. AppsFit'
        <3>1. AppFits(d)'
            BY <2>1, TypeOK DEF AppsFit, AppFits, Streaming, TypeOK
        <3>2. ASSUME NEW e \in Devices \ {d}
              PROVE  AppFits(e)'
            BY <2>1, TypeOK DEF AppsFit, AppFits, Streaming, TypeOK
        <3> QED BY <3>1, <3>2 DEF AppsFit
    <2>6. LockHeld' /\ PollFits'
        BY <2>1, <2>2, EventLoopAssumption DEF LockHeld, LoopAt, Locking, Moves, PollFits
    <2> QED BY <2>3, <2>4, <2>5, <2>6 DEF Inv
<1> QED BY <1>1, <1>2, <1>3, <1>4, <1>5, <1>6, <1>7 DEF App

(* What the loop thread does.                                              *)
LEMMA LoopKeepsInv ==
    ASSUME Inv, NEW t \in LoopThreads, Loop(t)
    PROVE  Inv'
<1> USE DEF Inv
<1>1. UNCHANGED <<device, reader, joining, count, epoll, event_thread>>
    BY DEF Loop, LoopWaits, ServeEvent, LockToPoll, Poll, EndRound
<1>2. AppsFit' /\ CountFits'
    BY <1>1 DEF AppsFit, AppFits, CountFits, Counted, device, count
<1>3. ASSUME NEW pc \in {"top", "events", "poll", "ended"}, NEW batch \in SUBSET Devices,
             LoopGoto(t, pc, batch), lock' \in {lock, t, None}
      PROVE  TypeOK'
    BY <1>1, <1>3, LoopGoes DEF TypeOK, LoopType, device, count, epoll
<1>4. CASE LoopWaits(t)
    <2>1. PICK pc \in {"events", "ended"}, batch \in SUBSET Devices : LoopGoto(t, pc, batch)
        BY <1>4 DEF LoopWaits, TypeOK
    <2>2. LoopAt(t, "top") /\ UNCHANGED <<lock, reader, table>>
        BY <1>4 DEF LoopWaits, device
    <2>3. LoopMoves(t, pc, batch)
        BY <2>1, LoopGoes
    <2> QED BY <1>2, <1>3, <2>1, <2>2, <2>3 DEF LockHeld, PollFits, LoopMoves, LoopAt
<1>5. CASE ServeEvent(t)
    <2>1. PICK d \in loop[t].batch : LoopGoto(t, "events", loop[t].batch \ {d})
        BY <1>5 DEF ServeEvent
    <2>2. LoopAt(t, "events") /\ UNCHANGED <<lock, reader, table>>
        BY <1>5 DEF ServeEvent, device
    <2>3. loop[t].batch \ {d} \in SUBSET Devices
        BY DEF TypeOK
    <2>4. LoopMoves(t, "events", loop[t].batch \ {d})
        BY <2>1, <2>3, LoopGoes
    <2> QED BY <1>2, <1>3, <2>1, <2>2, <2>3, <2>4 DEF LockHeld, PollFits, LoopMoves, LoopAt
<1>6. CASE LockToPoll(t)
    <2>1. /\ LoopAt(t, "events") /\ lock = None /\ lock' = t
          /\ LoopGoto(t, "poll", table) /\ UNCHANGED <<reader, table>>
        BY <1>6 DEF LockToPoll, device
    <2>2. LoopMoves(t, "poll", table)
        BY <2>1, LoopGoes DEF TypeOK
    <2>3. LockHeld'
        BY <2>1, <2>2, EventLoopAssumption DEF LockHeld, LoopMoves, LoopAt
    <2> QED BY <1>2, <1>3, <2>1, <2>2, <2>3 DEF PollFits, LoopMoves, LoopAt, TypeOK
<1>7. CASE Poll(t)
    <2>1. PICK d \in loop[t].batch : LoopGoto(t, "poll", loop[t].batch \ {d})
        BY <1>7 DEF Poll
    <2>2. LoopAt(t, "poll") /\ UNCHANGED <<lock, reader, table>>
        BY <1>7 DEF Poll, device
    <2>3. loop[t].batch \ {d} \in SUBSET Devices
        BY DEF TypeOK
    <2>4. LoopMoves(t, "poll", loop[t].batch \ {d})
        BY <2>1, <2>3, LoopGoes
    <2> QED BY <1>2, <1>3, <2>1, <2>2, <2>3, <2>4 DEF LockHeld, PollFits, LoopMoves, LoopAt
<1>8. CASE EndRound(t)
    <2>1. /\ LoopAt(t, "poll") /\ lock' = None
          /\ LoopGoto(t, "top", {}) /\ UNCHANGED <<reader, table>>
        BY <1>8 DEF EndRound, device
    <2>2. LoopMoves(t, "top", {})
        BY <2>1, LoopGoes
    <2>3. LockHeld'
        BY <2>1, <2>2, EventLoopAssumption DEF LockHeld, LoopMoves, LoopAt
    <2> QED BY <1>2, <1>3, <2>1, <2>2, <2>3 DEF PollFits, LoopMoves, LoopAt, TypeOK
<1> QED BY <1>4, <1>5, <1>6, <1>7, <1>8 DEF Loop

-----------------------------------------------------------------------------
(* Every step keeps the rest of it if no stream starts while another ends. *)

(* Starting the loop.                                                      *)
LEMMA StartingLoopKeepsLoopInv ==
    ASSUME LoopInv, Inv', NEW d \in Devices,
           \/ LockToStart(d) \/ StartLoop(d) \/ StartLoopFails(d)
           \/ CreateLoop(d) \/ CreateLoopFails(d)
    PROVE  LoopInv'
<1> USE DEF ReaderAt
<1>1. CASE LockToStart(d)
    <2> USE DEF Inv, LoopInv
    <2>1. /\ lock = None /\ lock' = d
          /\ UNCHANGED <<table, live, active, cancel_requested, disconnected, app, joining,
                         event_running, streaming_count, epoll_open, registered,
                         failed, event_thread, loop>>
        BY <1>1 DEF LockToStart, device, count, epoll, thread
    <2>2. Moves(d, "lock", "start") /\ ReaderType'
        BY <1>1, ReaderMoves DEF LockToStart
    <2>3. Counted' = Counted
        BY <2>2 DEF Moves, Counted
    <2>4. Apart' /\ EndsForCause' /\ StopFits' /\ ThreadFits' /\ RunFits' /\ Served'
        BY <2>1, <2>2, <2>3
        DEF Apart, Starting, Ending, Moves, EndsForCause, StopFits, InLoopStop, ThreadFits,
            Runs, Creating, Joining, LoopAt, RunFits, Uses, Served
    <2> QED BY <2>4 DEF LoopInv, Inv
<1>2. CASE StartLoop(d) /\ event_running
    <2> USE DEF Inv, LoopInv
    <2>1. /\ event_running
          /\ UNCHANGED <<table, live, active, cancel_requested, disconnected, app, joining,
                         lock, event_running, streaming_count, epoll_open,
                         registered, failed, event_thread, loop>>
        BY <1>2 DEF StartLoop, device, count, epoll, thread
    <2>2. Moves(d, "start", "unlock") /\ ReaderType'
        BY <1>2, ReaderMoves DEF StartLoop
    <2>3. Counted' = Counted
        BY <2>2 DEF Moves, Counted
    <2>4. Served'
        BY <2>1, <2>2, <2>3, LockAlone DEF Served, Runs, Creating, Moves, Locking
    <2>5. Apart' /\ EndsForCause' /\ StopFits' /\ ThreadFits' /\ RunFits'
        BY <2>1, <2>2, <2>3
        DEF Apart, Starting, Ending, Moves, EndsForCause, StopFits, InLoopStop, ThreadFits,
            Runs, Creating, Joining, LoopAt, RunFits, Uses
    <2> QED BY <2>4, <2>5 DEF LoopInv, Inv
<1>3. CASE StartLoop(d) /\ ~event_running
    <2> USE DEF Inv, LoopInv
    <2>1. /\ ~event_running /\ event_running' = TRUE /\ epoll_open' = TRUE /\ registered' = {}
          /\ UNCHANGED <<table, live, active, cancel_requested, disconnected, app, joining,
                         lock, streaming_count, failed, event_thread, loop>>
        BY <1>3 DEF StartLoop, device, count, epoll, thread
    <2>2. Moves(d, "start", "create") /\ ReaderType'
        BY <1>3, ReaderMoves DEF StartLoop
    <2>3. Counted' = Counted
        BY <2>2 DEF Moves, Counted
    <2>4. StopFits'
        BY <2>1, <2>2, <2>3, StarterAlone DEF StopFits, InLoopStop, Moves, Starting
    <2>5. Apart' /\ EndsForCause' /\ ThreadFits' /\ RunFits' /\ Served'
        BY <2>1, <2>2, <2>3
        DEF Apart, Starting, Ending, Moves, EndsForCause, ThreadFits, Runs, Creating, Joining,
            LoopAt, RunFits, Uses, InLoopStop, Served
    <2> QED BY <2>4, <2>5 DEF LoopInv, Inv
<1>4. CASE StartLoopFails(d)
    <2> USE DEF Inv, LoopInv
    <2>1. /\ ~event_running /\ epoll_open' = FALSE /\ registered' = {} /\ failed' = TRUE
          /\ UNCHANGED <<table, live, active, cancel_requested, disconnected, app, joining,
                         lock, event_running, streaming_count, event_thread,
                         loop>>
        BY <1>4 DEF StartLoopFails, device, count, epoll, thread
    <2>2. Moves(d, "start", "unlock") /\ ReaderType'
        BY <1>4, ReaderMoves DEF StartLoopFails
    <2>3. Counted' = Counted
        BY <2>2 DEF Moves, Counted
    <2>4. Apart' /\ EndsForCause' /\ StopFits' /\ ThreadFits' /\ RunFits' /\ Served'
        BY <2>1, <2>2, <2>3
        DEF Apart, Starting, Ending, Moves, EndsForCause, StopFits, InLoopStop, ThreadFits,
            Runs, Creating, Joining, LoopAt, RunFits, Uses, Served
    <2> QED BY <2>4 DEF LoopInv, Inv
<1>5. CASE CreateLoop(d)
    <2> USE DEF Inv, LoopInv
    <2>1. /\ UNCHANGED <<table, live, active, cancel_requested, disconnected, app, joining,
                         lock, event_running, streaming_count, epoll_open,
                         registered, failed>>
        BY <1>5 DEF CreateLoop, device, count, epoll, thread
    <2>2. Moves(d, "create", "unlock") /\ ReaderType'
        BY <1>5, ReaderMoves DEF CreateLoop
    <2>3. Counted' = Counted
        BY <2>2 DEF Moves, Counted
    <2>4. PICK t \in LoopThreads :
              LoopAt(t, "free") /\ event_thread' = t /\ LoopMoves(t, "top", loop[t].batch)
              /\ LoopType'
        <3>1. PICK t \in LoopThreads :
                  LoopAt(t, "free") /\ event_thread' = t /\ loop' = [loop EXCEPT ![t].pc = "top"]
            BY <1>5 DEF CreateLoop, LoopAt
        <3>2. LoopMoves(t, "top", loop[t].batch) /\ LoopType'
            BY <3>1 DEF LoopMoves, LoopType, TypeOK, NoLoop
        <3> QED BY <3>1, <3>2
    <2>5. ThreadFits'
        <3>1. \A e \in Devices : ~Joining(e)
            BY <2>2, StarterAlone DEF Moves, Starting, Joining
        <3>2. \A u \in LoopThreads : LoopAt(u, "free")
            BY <2>2, <3>1 DEF ThreadFits, Runs, Creating, Moves
        <3>3. \A e \in Devices : ~Joining(e)' /\ reader'[e] # "joining"
            BY <2>2, <3>1 DEF Joining, Moves
        <3>4. Runs'
            BY <2>1, <2>2, LockAlone DEF RunFits, Runs, Creating, Moves, Locking
        <3> QED BY <2>1, <2>4, <3>2, <3>3, <3>4, EventLoopAssumption
                DEF ThreadFits, LoopAt, LoopMoves
    <2>6. Served'
        BY <2>1, <2>2, <2>3, <2>4, LockAlone, RunFits
        DEF Served, RunFits, Runs, Creating, Moves, Locking
    <2>7. Apart' /\ EndsForCause' /\ StopFits' /\ RunFits'
        BY <2>1, <2>2, <2>3, <2>4
        DEF Apart, Starting, Ending, Moves, EndsForCause, StopFits, InLoopStop, RunFits,
            Creating, Uses
    <2> QED BY <2>5, <2>6, <2>7 DEF LoopInv, Inv
<1>6. CASE CreateLoopFails(d)
    <2> USE DEF Inv, LoopInv
    <2>1. /\ event_running' = FALSE /\ epoll_open' = FALSE /\ registered' = {} /\ failed' = TRUE
          /\ UNCHANGED <<table, live, active, cancel_requested, disconnected, app, joining,
                         lock, streaming_count, event_thread, loop>>
        BY <1>6 DEF CreateLoopFails, device, count, epoll, thread
    <2>2. Moves(d, "create", "unlock") /\ ReaderType'
        BY <1>6, ReaderMoves DEF CreateLoopFails
    <2>3. Counted' = Counted
        BY <2>2 DEF Moves, Counted
    <2>4. RunFits'
        BY <2>1, <2>2, <2>3, LockAlone DEF RunFits, Creating, Moves, Locking
    <2>5. Apart' /\ EndsForCause' /\ StopFits' /\ ThreadFits' /\ Served'
        BY <2>1, <2>2, <2>3
        DEF Apart, Starting, Ending, Moves, EndsForCause, StopFits, InLoopStop, ThreadFits,
            Runs, Creating, Joining, LoopAt, Served
    <2> QED BY <2>4, <2>5 DEF LoopInv, Inv
<1> QED BY <1>1, <1>2, <1>3, <1>4, <1>5, <1>6

(* Registering a device with the loop, and taking it out.                  *)
LEMMA UsingLoopKeepsLoopInv ==
    ASSUME LoopInv, Inv', NEW d \in Devices,
           \/ Unlock(d) \/ AddDev(d) \/ AddDevFails(d) \/ CountDev(d)
           \/ LeaveWait(d) \/ RemoveDev(d) \/ UncountDev(d)
    PROVE  LoopInv'
<1> USE DEF ReaderAt
<1>1. CASE Unlock(d)
    <2> USE DEF Inv, LoopInv
    <2>1. /\ lock' = None
          /\ UNCHANGED <<table, live, active, cancel_requested, disconnected, app, joining,
                         event_running, streaming_count, epoll_open, registered,
                         failed, event_thread, loop>>
        BY <1>1 DEF Unlock, device, count, epoll, thread
    <2>2. Moves(d, "unlock", "add") /\ ReaderType'
        BY <1>1, ReaderMoves DEF Unlock
    <2>3. Counted' = Counted
        BY <2>2 DEF Moves, Counted
    <2>4. Apart' /\ EndsForCause' /\ StopFits' /\ ThreadFits' /\ RunFits' /\ Served'
        BY <2>1, <2>2, <2>3
        DEF Apart, Starting, Ending, Moves, EndsForCause, StopFits, InLoopStop, ThreadFits,
            Runs, Creating, Joining, LoopAt, RunFits, Uses, Served
    <2> QED BY <2>4 DEF LoopInv, Inv
<1>2. CASE AddDev(d)
    <2> USE DEF Inv, LoopInv
    <2>1. /\ registered' = registered \cup {d}
          /\ UNCHANGED <<table, live, active, cancel_requested, disconnected, app, joining,
                         lock, event_running, streaming_count, epoll_open, failed,
                         event_thread, loop>>
        BY <1>2 DEF AddDev, device, count, epoll, thread
    <2>2. Moves(d, "add", "count") /\ ReaderType'
        BY <1>2, ReaderMoves DEF AddDev
    <2>3. Counted' = Counted
        BY <2>2 DEF Moves, Counted
    <2>4. Apart' /\ EndsForCause' /\ StopFits' /\ ThreadFits' /\ RunFits' /\ Served'
        BY <2>1, <2>2, <2>3
        DEF Apart, Starting, Ending, Moves, EndsForCause, StopFits, InLoopStop, ThreadFits,
            Runs, Creating, Joining, LoopAt, RunFits, Uses, Served
    <2> QED BY <2>4 DEF LoopInv, Inv
<1>3. CASE AddDevFails(d)
    <2> USE DEF Inv, LoopInv
    <2>1. /\ failed' = TRUE
          /\ UNCHANGED <<table, live, active, cancel_requested, disconnected, app, joining,
                         lock, event_running, streaming_count, epoll_open,
                         registered, event_thread, loop>>
        BY <1>3 DEF AddDevFails, device, count, epoll, thread
    <2>2. Moves(d, "add", "wait") /\ ReaderType'
        BY <1>3, ReaderMoves DEF AddDevFails
    <2>3. Apart' /\ EndsForCause' /\ StopFits' /\ ThreadFits' /\ RunFits' /\ Served'
        BY <2>1, <2>2
        DEF Apart, Starting, Ending, Moves, EndsForCause, StopFits, InLoopStop, ThreadFits,
            Runs, Creating, Joining, LoopAt, RunFits, Uses, Served
    <2> QED BY <2>3 DEF LoopInv, Inv
<1>4. CASE CountDev(d)
    <2> USE DEF Inv, LoopInv
    <2>1. /\ streaming_count' = streaming_count + 1
          /\ UNCHANGED <<table, live, active, cancel_requested, disconnected, app, joining,
                         lock, event_running, epoll_open, registered, failed,
                         event_thread, loop>>
        BY <1>4 DEF CountDev, device, count, epoll, thread
    <2>2. Moves(d, "count", "wait") /\ ReaderType'
        BY <1>4, ReaderMoves DEF CountDev
    <2>3. Served'
        <3>1. Cardinality(Counted') = Cardinality(Counted) + 1
            BY <2>2, CountsUp
        <3>2. Cardinality(Counted) \in Nat
            BY CountsDevices DEF Counted
        <3>3. \A e \in Devices : ~ReaderAt(e, "exchange")
            BY <2>2, StarterAlone DEF Moves, Starting
        <3> QED BY <2>1, <2>2, <3>1, <3>2, <3>3, CountsUp DEF Served, Runs, Creating, Moves
    <2>4. Apart' /\ EndsForCause' /\ StopFits' /\ ThreadFits' /\ RunFits'
        BY <2>1, <2>2
        DEF Apart, Starting, Ending, Moves, EndsForCause, StopFits, InLoopStop, ThreadFits,
            Runs, Creating, Joining, LoopAt, RunFits, Uses
    <2> QED BY <2>3, <2>4 DEF LoopInv, Inv
<1>5. CASE LeaveWait(d)
    <2> USE DEF Inv, LoopInv
    <2>1. /\ cancel_requested[d] \/ d \in disconnected
          /\ UNCHANGED <<table, live, active, cancel_requested, disconnected, app, joining,
                         lock, event_running, streaming_count, epoll_open,
                         registered, failed, event_thread, loop>>
        BY <1>5 DEF LeaveWait, device, count, epoll, thread
    <2>2. Moves(d, "wait", "remove") /\ ReaderType'
        BY <1>5, ReaderMoves DEF LeaveWait
    <2>3. Counted' = Counted
        BY <2>2 DEF Moves, Counted
    <2>4. Apart' /\ EndsForCause' /\ StopFits' /\ ThreadFits' /\ RunFits' /\ Served'
        BY <2>1, <2>2, <2>3
        DEF Apart, Starting, Ending, Moves, EndsForCause, StopFits, InLoopStop, ThreadFits,
            Runs, Creating, Joining, LoopAt, RunFits, Uses, Served
    <2> QED BY <2>4 DEF LoopInv, Inv
<1>6. CASE RemoveDev(d)
    <2> USE DEF Inv, LoopInv
    <2>1. /\ registered' = registered \ {d}
          /\ UNCHANGED <<table, live, active, cancel_requested, disconnected, app, joining,
                         lock, event_running, streaming_count, epoll_open, failed,
                         event_thread, loop>>
        BY <1>6 DEF RemoveDev, device, count, epoll, thread
    <2>2. Moves(d, "remove", "uncount") /\ ReaderType'
        BY <1>6, ReaderMoves DEF RemoveDev
    <2>3. Counted' = Counted
        BY <2>2 DEF Moves, Counted
    <2>4. Apart' /\ EndsForCause' /\ StopFits' /\ ThreadFits' /\ RunFits' /\ Served'
        BY <2>1, <2>2, <2>3
        DEF Apart, Starting, Ending, Moves, EndsForCause, StopFits, InLoopStop, ThreadFits,
            Runs, Creating, Joining, LoopAt, RunFits, Uses, Served
    <2> QED BY <2>4 DEF LoopInv, Inv
<1>7. CASE UncountDev(d)
    <2> USE DEF Inv, LoopInv
    <2>1. /\ streaming_count' = IF streaming_count > 0 THEN streaming_count - 1 ELSE 0
          /\ UNCHANGED <<table, live, active, cancel_requested, disconnected, app, joining,
                         lock, event_running, epoll_open, registered, failed,
                         event_thread, loop>>
        BY <1>7 DEF UncountDev, device, count, epoll, thread
    <2>2. Moves(d, "uncount", "check") /\ ReaderType'
        BY <1>7, ReaderMoves DEF UncountDev
    <2>3. Served'
        <3>1. Cardinality(Counted') = Cardinality(Counted) - 1
            BY <2>2, CountsDown
        <3>2. Cardinality(Counted) \in Nat /\ Cardinality(Counted') \in Nat
            BY CountsDevices DEF Counted
        <3>3. Counted' \subseteq Counted
            BY <2>2, CountsDown DEF Moves, Starting
        <3> QED BY <2>1, <2>2, <3>1, <3>2, <3>3, CountsDown DEF Served, Runs, Creating, Moves
    <2>4. Apart' /\ EndsForCause' /\ StopFits' /\ ThreadFits' /\ RunFits'
        BY <2>1, <2>2
        DEF Apart, Starting, Ending, Moves, EndsForCause, StopFits, InLoopStop, ThreadFits,
            Runs, Creating, Joining, LoopAt, RunFits, Uses
    <2> QED BY <2>3, <2>4 DEF LoopInv, Inv
<1> QED BY <1>1, <1>2, <1>3, <1>4, <1>5, <1>6, <1>7

(* Stopping the loop.                                                      *)
LEMMA StoppingLoopKeepsLoopInv ==
    ASSUME LoopInv, Inv', NEW d \in Devices,
           CheckLast(d) \/ Exchange(d) \/ BeginJoin(d) \/ EndJoin(d) \/ CloseEpoll(d)
    PROVE  LoopInv'
<1> USE DEF ReaderAt
<1>1. CASE CheckLast(d) /\ streaming_count = 0
    <2> USE DEF Inv, LoopInv
    <2>1. /\ streaming_count = 0
          /\ UNCHANGED <<table, live, active, cancel_requested, disconnected, app, joining,
                         lock, event_running, streaming_count, epoll_open,
                         registered, failed, event_thread, loop>>
        BY <1>1 DEF CheckLast, device, count, epoll, thread
    <2>2. Moves(d, "check", "exchange") /\ ReaderType'
        BY <1>1, ReaderMoves DEF CheckLast
    <2>3. Counted' = Counted
        BY <2>2 DEF Moves, Counted
    <2>4. Served'
        <3>1. ~failed => Counted = {}
            BY <2>1, CountsDevices, FS_EmptySet DEF Served, Counted
        <3> QED BY <2>1, <2>2, <2>3, <3>1 DEF Served, Runs, Creating, Moves
    <2>5. Apart' /\ EndsForCause' /\ StopFits' /\ ThreadFits' /\ RunFits'
        BY <2>1, <2>2, <2>3
        DEF Apart, Starting, Ending, Moves, EndsForCause, StopFits, InLoopStop, ThreadFits,
            Runs, Creating, Joining, LoopAt, RunFits, Uses
    <2> QED BY <2>4, <2>5 DEF LoopInv, Inv
<1>2. CASE CheckLast(d) /\ streaming_count # 0
    <2> USE DEF Inv, LoopInv
    <2>1. /\ streaming_count # 0
          /\ UNCHANGED <<table, live, active, cancel_requested, disconnected, app, joining,
                         lock, event_running, streaming_count, epoll_open,
                         registered, failed, event_thread, loop>>
        BY <1>2 DEF CheckLast, device, count, epoll, thread
    <2>2. Moves(d, "check", "done") /\ ReaderType'
        BY <1>2, ReaderMoves DEF CheckLast
    <2>3. Counted' = Counted
        BY <2>2 DEF Moves, Counted
    <2>4. RunFits'
        <3>1. Counted # {}
            BY <2>1, FS_EmptySet DEF CountFits
        <3>2. \E e \in Devices : Uses(e)'
            BY <2>2, <2>3, <3>1 DEF Counted, Uses
        <3> QED BY <2>1, <2>2, <3>2 DEF RunFits, Creating, InLoopStop, Moves
    <2>5. Apart' /\ EndsForCause' /\ StopFits' /\ ThreadFits' /\ Served'
        BY <2>1, <2>2, <2>3
        DEF Apart, Starting, Ending, Moves, EndsForCause, StopFits, InLoopStop, ThreadFits,
            Runs, Creating, Joining, LoopAt, Served
    <2> QED BY <2>4, <2>5 DEF LoopInv, Inv
<1>3. CASE Exchange(d) /\ event_running
    <2> USE DEF Inv, LoopInv
    <2>1. /\ event_running /\ event_running' = FALSE
          /\ UNCHANGED <<table, live, active, cancel_requested, disconnected, app, joining,
                         lock, streaming_count, epoll_open, registered, failed,
                         event_thread, loop>>
        BY <1>3 DEF Exchange, device, count, epoll, thread
    <2>2. Moves(d, "exchange", "join") /\ ReaderType'
        BY <1>3, ReaderMoves DEF Exchange
    <2>3. Counted' = Counted
        BY <2>2 DEF Moves, Counted
    <2>4. ThreadFits'
        <3>1. \A e \in Devices : ~Starting(e)
            BY <2>2, StarterAlone DEF Moves
        <3>2. Runs /\ ~Creating
            BY <2>1, <3>1 DEF Runs, Creating, Starting
        <3>3. \A e \in Devices \ {d} : ~Joining(e) /\ ~Joining(e)' /\ reader'[e] # "joining"
            BY <2>1, <2>2 DEF StopFits, InLoopStop, Joining, Moves
        <3> QED BY <2>1, <2>2, <3>2, <3>3 DEF ThreadFits, Runs, Joining, LoopAt, Moves
    <2>5. RunFits'
        <3>1. \A e \in Devices : ~Starting(e)
            BY <2>2, StarterAlone DEF Moves
        <3> QED BY <2>1, <2>2, <3>1 DEF RunFits, Creating, Uses, InLoopStop, Moves, Starting
    <2>6. Served'
        <3>1. \A e \in Devices : ~Starting(e)
            BY <2>2, StarterAlone DEF Moves
        <3>2. ~failed => Counted = {}
            BY <2>2 DEF Served, Moves
        <3> QED BY <2>1, <2>2, <2>3, <3>1, <3>2 DEF Served, Moves, Starting, Counted
    <2>7. Apart' /\ EndsForCause' /\ StopFits'
        BY <2>1, <2>2, <2>3
        DEF Apart, Starting, Ending, Moves, EndsForCause, StopFits, InLoopStop
    <2> QED BY <2>4, <2>5, <2>6, <2>7 DEF LoopInv, Inv
<1>4. CASE Exchange(d) /\ ~event_running
    <2> USE DEF Inv, LoopInv
    <2>1. /\ ~event_running /\ event_running' = FALSE
          /\ UNCHANGED <<table, live, active, cancel_requested, disconnected, app, joining,
                         lock, streaming_count, epoll_open, registered, failed,
                         event_thread, loop>>
        BY <1>4 DEF Exchange, device, count, epoll, thread
    <2>2. Moves(d, "exchange", "done") /\ ReaderType'
        BY <1>4, ReaderMoves DEF Exchange
    <2>3. Counted' = Counted
        BY <2>2 DEF Moves, Counted
    <2>4. Apart' /\ EndsForCause' /\ StopFits' /\ ThreadFits' /\ RunFits' /\ Served'
        BY <2>1, <2>2, <2>3
        DEF Apart, Starting, Ending, Moves, EndsForCause, StopFits, InLoopStop, ThreadFits,
            Runs, Creating, Joining, LoopAt, RunFits, Uses, Served
    <2> QED BY <2>4 DEF LoopInv, Inv
<1>5. CASE BeginJoin(d)
    <2> USE DEF Inv, LoopInv
    <2>1. /\ joining' = [joining EXCEPT ![d] = event_thread]
          /\ UNCHANGED <<table, live, active, cancel_requested, disconnected, app, lock,
                         event_running, streaming_count, epoll_open, registered,
                         failed, event_thread, loop>>
        BY <1>5 DEF BeginJoin, device, count, epoll, thread
    <2>2. Moves(d, "join", "joining") /\ ReaderType'
        BY <1>5, ReaderMoves DEF BeginJoin
    <2>3. Counted' = Counted
        BY <2>2 DEF Moves, Counted
    <2>4. ThreadFits'
        BY <2>1, <2>2, <2>3 DEF ThreadFits, Runs, Creating, Joining, LoopAt, Moves, TypeOK
    <2>5. Apart' /\ EndsForCause' /\ StopFits' /\ RunFits' /\ Served'
        BY <2>1, <2>2, <2>3
        DEF Apart, Starting, Ending, Moves, EndsForCause, StopFits, InLoopStop, RunFits,
            Creating, Uses, Served, Runs
    <2> QED BY <2>4, <2>5 DEF LoopInv, Inv
<1>6. CASE EndJoin(d)
    <2> USE DEF Inv, LoopInv
    <2>1. /\ joining' = [joining EXCEPT ![d] = None]
          /\ UNCHANGED <<table, live, active, cancel_requested, disconnected, app, lock,
                         event_running, streaming_count, epoll_open, registered,
                         failed, event_thread>>
        BY <1>6 DEF EndJoin, device, count, epoll, thread
    <2>2. Moves(d, "joining", "close") /\ ReaderType'
        BY <1>6, ReaderMoves DEF EndJoin
    <2>3. Counted' = Counted
        BY <2>2 DEF Moves, Counted
    <2>4. PICK t \in LoopThreads :
              LoopAt(t, "ended") /\ t = joining[d] /\ LoopMoves(t, "free", {})
              /\ LoopType'
        <3>1. PICK t \in LoopThreads :
                  LoopAt(t, "ended") /\ t = joining[d] /\ loop' = [loop EXCEPT ![t] = NoLoop]
            BY <1>6 DEF EndJoin, LoopAt, TypeOK
        <3>2. LoopMoves(t, "free", {}) /\ LoopType'
            BY <3>1 DEF LoopMoves, LoopType, TypeOK, NoLoop
        <3> QED BY <3>1, <3>2
    <2>5. ThreadFits'
        <3>1. ~event_running /\ \A e \in Devices \ {d} : reader[e] \notin {"join", "joining"}
            BY <2>2 DEF StopFits, InLoopStop, Moves
        <3>2. t = event_thread
            BY <2>2, <2>4 DEF ThreadFits, Moves
        <3>3. \A u \in LoopThreads : ~LoopAt(u, "free") => u = t
            BY <3>2 DEF ThreadFits
        <3>4. \A e \in Devices : reader'[e] \notin {"join", "joining"}
            BY <2>2, <3>1 DEF Moves
        <3> QED BY <2>1, <2>4, <3>1, <3>3, <3>4
                DEF ThreadFits, Runs, Joining, LoopAt, LoopMoves
    <2>6. Apart' /\ EndsForCause' /\ StopFits' /\ RunFits' /\ Served'
        BY <2>1, <2>2, <2>3, <2>4
        DEF Apart, Starting, Ending, Moves, EndsForCause, StopFits, InLoopStop, RunFits,
            Creating, Uses, Served, Runs
    <2> QED BY <2>5, <2>6 DEF LoopInv, Inv
<1>7. CASE CloseEpoll(d)
    <2> USE DEF Inv, LoopInv
    <2>1. /\ epoll_open' = FALSE /\ registered' = {}
          /\ UNCHANGED <<table, live, active, cancel_requested, disconnected, app, joining,
                         lock, event_running, streaming_count, failed,
                         event_thread, loop>>
        BY <1>7 DEF CloseEpoll, device, count, epoll, thread
    <2>2. Moves(d, "close", "done") /\ ReaderType'
        BY <1>7, ReaderMoves DEF CloseEpoll
    <2>3. Counted' = Counted
        BY <2>2 DEF Moves, Counted
    <2>4. RunFits'
        <3>1. ~event_running
            BY <2>2 DEF StopFits, InLoopStop, Moves
        <3> QED BY <2>1, <2>2, <3>1 DEF RunFits, Creating, Moves
    <2>5. Served'
        <3>1. ~event_running
            BY <2>2 DEF StopFits, InLoopStop, Moves
        <3> QED BY <2>1, <2>2, <2>3, <3>1 DEF Served, Runs, Creating, Moves
    <2>6. Apart' /\ EndsForCause' /\ StopFits' /\ ThreadFits'
        BY <2>1, <2>2, <2>3
        DEF Apart, Starting, Ending, Moves, EndsForCause, StopFits, InLoopStop, ThreadFits,
            Runs, Creating, Joining, LoopAt
    <2> QED BY <2>4, <2>5, <2>6 DEF LoopInv, Inv
<1> QED BY <1>1, <1>2, <1>3, <1>4, <1>5, <1>6, <1>7

(* What the application does.                                              *)
LEMMA AppKeepsLoopInv ==
    ASSUME LoopInv, Inv', ~StartsOverlapEnds, NEW d \in Devices, App(d)
    PROVE  LoopInv'
<1> USE DEF ReaderAt
<1>1. CASE Open(d)
    <2> USE DEF Inv, LoopInv
    <2>1. /\ app[d] = "closed" /\ lock = None
          /\ live' = live \cup {d} /\ table' = table \cup {d}
          /\ app' = [app EXCEPT ![d] = "open"]
          /\ UNCHANGED <<active, cancel_requested, disconnected, reader, joining, lock,
                         event_running, streaming_count, epoll_open, registered,
                         failed, event_thread, loop>>
        BY <1>1 DEF Open, AppGoto, count, epoll, thread
    <2>2. Counted' = Counted
        BY <2>1 DEF Counted
    <2>3. Apart' /\ EndsForCause' /\ StopFits' /\ ThreadFits' /\ RunFits' /\ Served'
        BY <2>1, <2>2
        DEF Apart, Starting, Ending, Moves, EndsForCause, StopFits, InLoopStop, ThreadFits,
            Runs, Creating, Joining, LoopAt, RunFits, Uses, Served
    <2> QED BY <2>3 DEF LoopInv, Inv
<1>2. CASE Disconnect(d)
    <2> USE DEF Inv, LoopInv
    <2>1. /\ reader[d] \notin {"none", "done"} /\ MayEnd(d)
          /\ disconnected' = disconnected \cup {d}
          /\ UNCHANGED <<table, live, active, cancel_requested, app, reader, joining, lock,
                         event_running, streaming_count, epoll_open, registered,
                         failed, event_thread, loop>>
        BY <1>2 DEF Disconnect, AppGoto, count, epoll, thread
    <2>2. Counted' = Counted
        BY <2>1 DEF Counted
    <2>3. Apart'
        BY <2>1, <2>2 DEF Apart, Starting, Ending, MayEnd
    <2>4. EndsForCause' /\ StopFits' /\ ThreadFits' /\ RunFits' /\ Served'
        BY <2>1, <2>2
        DEF EndsForCause, Moves, StopFits, InLoopStop, ThreadFits, Runs, Creating, Joining,
            LoopAt, RunFits, Uses, Served
    <2> QED BY <2>3, <2>4 DEF LoopInv, Inv
<1>3. CASE StartStream(d)
    <2> USE DEF Inv, LoopInv
    <2>1. /\ app[d] = "open" /\ MayStart(d)
          /\ cancel_requested' = [cancel_requested EXCEPT ![d] = FALSE]
          /\ active' = [active EXCEPT ![d] = TRUE]
          /\ app' = [app EXCEPT ![d] = "streaming"]
          /\ UNCHANGED <<table, live, disconnected, joining, lock, event_running,
                         streaming_count, epoll_open, registered, failed,
                         event_thread, loop>>
        BY <1>3 DEF StartStream, AppGoto, count, epoll, thread
    <2>2. Moves(d, "none", "lock") /\ ReaderType'
        BY <1>3, ReaderMoves DEF StartStream, AppsFit, AppFits, Streaming
    <2>3. Counted' = Counted
        BY <2>2 DEF Moves, Counted
    <2>4. Apart'
        <3>1. /\ \A e \in Devices \ {d} : ~Ending(e)
              /\ d \in disconnected => \A e \in Devices \ {d} : ~Starting(e)
            BY <2>1 DEF MayStart, MayEnd
        <3>2. /\ ~cancel_requested'[d]
              /\ \A e \in Devices \ {d} : cancel_requested'[e] = cancel_requested[e]
            BY <2>1 DEF TypeOK
        <3> QED BY <2>1, <2>2, <3>1, <3>2 DEF Apart, Starting, Ending, Moves
    <2>5. EndsForCause' /\ StopFits' /\ ThreadFits' /\ RunFits' /\ Served'
        BY <2>1, <2>2, <2>3
        DEF EndsForCause, Moves, StopFits, InLoopStop, ThreadFits, Runs, Creating, Joining,
            LoopAt, RunFits, Uses, Served
    <2> QED BY <2>4, <2>5 DEF LoopInv, Inv
<1>4. CASE Unregister(d)
    <2> USE DEF Inv, LoopInv
    <2>1. /\ app[d] \in {"open", "streaming"} /\ lock = None
          /\ table' = table \ {d}
          /\ app' = [app EXCEPT ![d] = IF active[d] THEN "closing" ELSE "free"]
          /\ UNCHANGED <<live, active, cancel_requested, disconnected, reader, joining, lock,
                         event_running, streaming_count, epoll_open, registered,
                         failed, event_thread, loop>>
        BY <1>4 DEF Unregister, AppGoto, count, epoll, thread
    <2>2. Counted' = Counted
        BY <2>1 DEF Counted
    <2>3. Apart' /\ EndsForCause' /\ StopFits' /\ ThreadFits' /\ RunFits' /\ Served'
        BY <2>1, <2>2
        DEF Apart, Starting, Ending, Moves, EndsForCause, StopFits, InLoopStop, ThreadFits,
            Runs, Creating, Joining, LoopAt, RunFits, Uses, Served
    <2> QED BY <2>3 DEF LoopInv, Inv
<1>5. CASE Stop(d)
    <2> USE DEF Inv, LoopInv
    <2>1. /\ app[d] \in {"streaming", "closing"} /\ MayEnd(d)
          /\ cancel_requested' = [cancel_requested EXCEPT ![d] = TRUE]
          /\ app' = [app EXCEPT ![d] = IF app[d] = "streaming" THEN "stop_join"
                                                         ELSE "close_join"]
          /\ UNCHANGED <<table, live, active, disconnected, reader, joining, lock,
                         event_running, streaming_count, epoll_open, registered,
                         failed, event_thread, loop>>
        BY <1>5 DEF Stop, AppGoto, count, epoll, thread
    <2>2. Counted' = Counted
        BY <2>1 DEF Counted
    <2>3. Apart'
        BY <2>1, <2>2 DEF Apart, Starting, Ending, MayEnd, TypeOK
    <2>4. EndsForCause' /\ StopFits' /\ ThreadFits' /\ RunFits' /\ Served'
        BY <2>1, <2>2
        DEF EndsForCause, Moves, StopFits, InLoopStop, ThreadFits, Runs, Creating, Joining,
            LoopAt, RunFits, Uses, Served
    <2> QED BY <2>3, <2>4 DEF LoopInv, Inv
<1>6. CASE JoinReader(d)
    <2> USE DEF Inv, LoopInv
    <2>1. /\ app[d] \in {"stop_join", "close_join"}
          /\ active' = [active EXCEPT ![d] = FALSE]
          /\ app' = [app EXCEPT ![d] = IF app[d] = "stop_join" THEN "open" ELSE "free"]
          /\ UNCHANGED <<table, live, cancel_requested, disconnected, joining, lock,
                         event_running, streaming_count, epoll_open, registered,
                         failed, event_thread, loop>>
        BY <1>6 DEF JoinReader, AppGoto, count, epoll, thread
    <2>2. Moves(d, "done", "none") /\ ReaderType'
        BY <1>6, ReaderMoves DEF JoinReader
    <2>3. Counted' = Counted
        BY <2>2 DEF Moves, Counted
    <2>4. Apart' /\ EndsForCause' /\ StopFits' /\ ThreadFits' /\ RunFits' /\ Served'
        BY <2>1, <2>2, <2>3
        DEF Apart, Starting, Ending, Moves, EndsForCause, StopFits, InLoopStop, ThreadFits,
            Runs, Creating, Joining, LoopAt, RunFits, Uses, Served
    <2> QED BY <2>4 DEF LoopInv, Inv
<1>7. CASE Free(d)
    <2> USE DEF Inv, LoopInv
    <2>1. /\ app[d] = "free"
          /\ live' = live \ {d} /\ disconnected' = disconnected \ {d}
          /\ cancel_requested' = [cancel_requested EXCEPT ![d] = FALSE]
          /\ app' = [app EXCEPT ![d] = "closed"]
          /\ UNCHANGED <<table, active, reader, joining, lock, event_running, streaming_count,
                         epoll_open, registered, failed, event_thread, loop>>
        BY <1>7 DEF Free, AppGoto, count, epoll, thread
    <2>2. Counted' = Counted
        BY <2>1 DEF Counted
    <2>3. EndsForCause'
        <3>1. reader[d] = "none"
            BY <2>1 DEF AppsFit, AppFits, Streaming
        <3> QED BY <2>1, <3>1 DEF EndsForCause, TypeOK
    <2>4. Apart' /\ StopFits' /\ ThreadFits' /\ RunFits' /\ Served'
        BY <2>1, <2>2
        DEF Apart, Starting, Ending, Moves, StopFits, InLoopStop, ThreadFits, Runs, Creating,
            Joining, LoopAt, RunFits, Uses, Served
    <2> QED BY <2>3, <2>4 DEF LoopInv, Inv
<1> QED BY <1>1, <1>2, <1>3, <1>4, <1>5, <1>6, <1>7 DEF App

(* What the loop thread does.                                              *)
LEMMA LoopKeepsLoopInv ==
    ASSUME LoopInv, Inv', NEW t \in LoopThreads, Loop(t)
    PROVE  LoopInv'
<1> USE DEF Inv, LoopInv
<1>1. UNCHANGED <<device, reader, joining, count, epoll, event_thread>>
    BY DEF Loop, LoopWaits, ServeEvent, LockToPoll, Poll, EndRound
<1>2. UNCHANGED <<cancel_requested, disconnected, reader, joining, event_running,
                  streaming_count, epoll_open, registered, failed, event_thread>>
    BY <1>1 DEF device, count, epoll
<1>3. Apart' /\ EndsForCause'
    BY <1>2 DEF Apart, EndsForCause, Starting, Ending
<1>4. StopFits' /\ RunFits'
    BY <1>2 DEF StopFits, RunFits, InLoopStop, Creating, ReaderAt, Uses
<1>5. Served'
    BY <1>2 DEF Served, Runs, Creating, ReaderAt, Counted
<1>6. ASSUME NEW pc \in {"top", "events", "poll", "ended"}, NEW batch \in SUBSET Devices,
             LoopGoto(t, pc, batch), ~LoopAt(t, "free"), pc = "ended" => ~Runs
      PROVE  ThreadFits'
    <2>1. LoopMoves(t, pc, batch)
        BY <1>6, LoopGoes
    <2> QED BY <1>2, <1>6, <2>1
            DEF ThreadFits, Runs, Creating, ReaderAt, Joining, LoopMoves, LoopAt
<1>7. CASE LoopWaits(t)
    <2>1. LoopAt(t, "top")
        BY <1>7 DEF LoopWaits
    <2>2. CASE event_running /\ epoll_open
        <3>1. PICK ready \in SUBSET registered : LoopGoto(t, "events", ready)
            BY <1>7, <2>2 DEF LoopWaits
        <3> QED BY <1>3, <1>4, <1>5, <1>6, <2>1, <3>1 DEF LoopAt, TypeOK
    <2>3. CASE ~(event_running /\ epoll_open)
        <3>1. LoopGoto(t, "ended", {})
            BY <1>7, <2>3 DEF LoopWaits
        <3>2. ~Runs
            BY <2>3 DEF Runs, RunFits
        <3> QED BY <1>3, <1>4, <1>5, <1>6, <2>1, <3>1, <3>2 DEF LoopAt
    <2> QED BY <2>2, <2>3
<1>8. CASE ServeEvent(t)
    <2>1. PICK d \in loop[t].batch : LoopGoto(t, "events", loop[t].batch \ {d})
        BY <1>8 DEF ServeEvent
    <2>2. LoopAt(t, "events") /\ loop[t].batch \ {d} \in SUBSET Devices
        BY <1>8 DEF ServeEvent, TypeOK
    <2> QED BY <1>3, <1>4, <1>5, <1>6, <2>1, <2>2 DEF LoopAt
<1>9. CASE LockToPoll(t)
    <2>1. LoopAt(t, "events") /\ LoopGoto(t, "poll", table)
        BY <1>9 DEF LockToPoll
    <2> QED BY <1>3, <1>4, <1>5, <1>6, <2>1 DEF LoopAt, TypeOK
<1>10. CASE Poll(t)
    <2>1. PICK d \in loop[t].batch : LoopGoto(t, "poll", loop[t].batch \ {d})
        BY <1>10 DEF Poll
    <2>2. LoopAt(t, "poll") /\ loop[t].batch \ {d} \in SUBSET Devices
        BY <1>10 DEF Poll, TypeOK
    <2> QED BY <1>3, <1>4, <1>5, <1>6, <2>1, <2>2 DEF LoopAt
<1>11. CASE EndRound(t)
    <2>1. LoopAt(t, "poll") /\ LoopGoto(t, "top", {})
        BY <1>11 DEF EndRound
    <2> QED BY <1>3, <1>4, <1>5, <1>6, <2>1 DEF LoopAt
<1> QED BY <1>7, <1>8, <1>9, <1>10, <1>11 DEF Loop

-----------------------------------------------------------------------------
(* The invariants and what follows from them.                              *)

(* The initial states.                                                     *)
LEMMA InitInv == Init => LoopInv
<1> SUFFICES ASSUME Init PROVE LoopInv
    OBVIOUS
<1>1. Counted = {}
    BY DEF Init, Counted
<1>2. TypeOK
    <2>1. 0 \in 0..Cardinality(Devices)
        BY CountsDevices, Devices \in SUBSET Devices
    <2>2. ReaderType /\ LoopType
        BY DEF Init, NoLoop, ReaderType, LoopType
    <2> QED BY <2>1, <2>2 DEF Init, TypeOK, ReaderType, LoopType
<1>3. AppsFit /\ LockHeld /\ PollFits
    BY EventLoopAssumption
    DEF Init, AppsFit, AppFits, Streaming, LockHeld, Locking, LoopAt, PollFits, NoLoop
<1>4. Cardinality(Counted) = 0
    BY <1>1, FS_EmptySet
<1>5. CountFits
    BY <1>4 DEF CountFits, Init
<1>6. Apart /\ EndsForCause /\ StopFits
    BY DEF Init, Apart, Starting, EndsForCause, StopFits, InLoopStop
<1>7. ThreadFits /\ RunFits
    BY DEF Init, ThreadFits, LoopAt, Runs, Creating, Joining, ReaderAt, RunFits, NoLoop
<1>8. Served
    BY <1>4 DEF Init, Served, ReaderAt
<1> QED BY <1>2, <1>3, <1>5, <1>6, <1>7, <1>8 DEF LoopInv, Inv

(* Every step keeps what holds whatever the application does.              *)
LEMMA NextKeepsInv == Inv /\ [Next]_vars => Inv'
<1> SUFFICES ASSUME Inv, [Next]_vars PROVE Inv'
    OBVIOUS
<1>1. ASSUME NEW d \in Devices, App(d) PROVE Inv'
    BY <1>1, AppKeepsInv
<1>2. ASSUME NEW d \in Devices, Reader(d) PROVE Inv'
    BY <1>2, StartingLoopKeepsInv, UsingLoopKeepsInv, StoppingLoopKeepsInv DEF Reader
<1>3. ASSUME NEW t \in LoopThreads, Loop(t) PROVE Inv'
    BY <1>3, LoopKeepsInv
<1>4. CASE UNCHANGED vars
    BY <1>4 DEF vars, device, count, epoll, thread, Inv, TypeOK, AppsFit, AppFits, LockHeld,
                LoopAt, PollFits, CountFits, Counted
<1> QED BY <1>1, <1>2, <1>3, <1>4 DEF Next

(* Every step keeps the rest, if no stream starts while another ends.      *)
LEMMA NextKeepsLoopInv ==
    ASSUME ~StartsOverlapEnds
    PROVE  LoopInv /\ [Next]_vars => LoopInv'
<1> SUFFICES ASSUME LoopInv, [Next]_vars PROVE LoopInv'
    OBVIOUS
<1>0. Inv'
    BY NextKeepsInv DEF LoopInv
<1>1. ASSUME NEW d \in Devices, App(d) PROVE LoopInv'
    BY <1>0, <1>1, AppKeepsLoopInv
<1>2. ASSUME NEW d \in Devices, Reader(d) PROVE LoopInv'
    BY <1>0, <1>2, StartingLoopKeepsLoopInv, UsingLoopKeepsLoopInv, StoppingLoopKeepsLoopInv
    DEF Reader
<1>3. ASSUME NEW t \in LoopThreads, Loop(t) PROVE LoopInv'
    BY <1>0, <1>3, LoopKeepsLoopInv
<1>4. CASE UNCHANGED vars
    <2>1. UNCHANGED <<cancel_requested, disconnected, reader, joining, event_running,
                      streaming_count, epoll_open, registered, failed, event_thread, loop>>
        BY <1>4 DEF vars, device, count, epoll, thread
    <2>2. Apart' /\ EndsForCause' /\ StopFits' /\ RunFits'
        BY <2>1
        DEF LoopInv, Apart, Starting, Ending, EndsForCause, StopFits, RunFits, InLoopStop,
                    Creating, ReaderAt, Uses
    <2>3. ThreadFits' /\ Served'
        BY <2>1
        DEF LoopInv, ThreadFits, LoopAt, Joining, Served, Runs, Creating, ReaderAt, Counted
    <2> QED BY <1>0, <2>2, <2>3 DEF LoopInv
<1> QED BY <1>1, <1>2, <1>3, <1>4 DEF Next

(* A polled device is in the table, and devices in the table are not       *)
(* freed.                                                                  *)
LEMMA InvGivesLive == Inv => PolledDevicesLive
BY DEF Inv, AppsFit, AppFits, PollFits, PolledDevicesLive, TypeOK

(* A reader that joins is the only one to stop the loop, and the thread is *)
(* there until it has joined it.                                           *)
LEMMA InvGivesJoin == LoopInv => LoopJoinedOnce
<1> SUFFICES ASSUME LoopInv, NEW d \in Devices, ReaderAt(d, "joining")
             PROVE  /\ joining[d] # None
                    /\ loop[joining[d]].pc # "free"
                    /\ \A e \in Devices \ {d} :
                         ReaderAt(e, "joining") => joining[e] # joining[d]
    BY DEF LoopJoinedOnce
<1>1. joining[d] = event_thread /\ event_thread # None /\ ~LoopAt(event_thread, "free")
    BY DEF LoopInv, ThreadFits, Joining, ReaderAt
<1>2. \A e \in Devices \ {d} : ~ReaderAt(e, "joining")
    BY DEF LoopInv, StopFits, InLoopStop, ReaderAt
<1> QED BY <1>1, <1>2 DEF LoopAt

(* A reader that waits has the loop, and the last to go leaves none.       *)
LEMMA InvGivesLoop == LoopInv => StreamsHaveLoop
<1> SUFFICES ASSUME LoopInv PROVE StreamsHaveLoop
    OBVIOUS
<1>1. ASSUME ~failed, NEW d \in Devices, ReaderAt(d, "wait")
      PROVE  /\ event_running /\ d \in registered /\ event_thread # None
             /\ loop[event_thread].pc \in {"top", "events", "poll"}
    <2>1. Runs /\ d \in registered
        BY <1>1 DEF LoopInv, Served, ReaderAt
    <2> QED BY <2>1 DEF LoopInv, ThreadFits, Runs
<1>2. ASSUME \A d \in Devices : reader[d] \in {"none", "done"}
      PROVE  /\ ~event_running /\ ~epoll_open
             /\ \A t \in LoopThreads : loop[t].pc = "free"
    <2>1. ~event_running
        BY <1>2 DEF LoopInv, RunFits, Uses
    <2>2. ~epoll_open
        BY <1>2, <2>1 DEF LoopInv, RunFits, InLoopStop
    <2>3. \A t \in LoopThreads : LoopAt(t, "free")
        BY <1>2, <2>1 DEF LoopInv, ThreadFits, Runs, Joining
    <2> QED BY <2>1, <2>2, <2>3 DEF LoopAt
<1> QED BY <1>1, <1>2 DEF StreamsHaveLoop

(* "Hold ctx->lock to prevent sdrgg_close from freeing a device while      *)
(* we're still accessing it" (src/sdrgg_usb.cpp:518): the polling round    *)
(* touches devices of the table only, and close takes a device out of it   *)
(* under the lock before it frees the memory.  Whatever the applications   *)
(* do, for any number of devices.                                          *)
THEOREM PollsLiveDevices == Spec => []PolledDevicesLive
<1>1. Init => Inv
    BY InitInv DEF LoopInv
<1> QED BY <1>1, NextKeepsInv, InvGivesLive, PTL DEF Spec

(* event_loop_stop joins a loop thread that exists, and does so once       *)
(* ("This prevents double-join", src/sdrgg_usb.cpp:572), for any number of *)
(* streams that end at the same time, if none starts meanwhile.            *)
THEOREM JoinsLoopOnce ==
    ASSUME ~StartsOverlapEnds
    PROVE  Spec => []LoopJoinedOnce
<1>1. LoopInv /\ [Next]_vars => LoopInv'
    BY NextKeepsLoopInv
<1> QED BY <1>1, InitInv, InvGivesJoin, PTL DEF Spec

(* Unless starting the loop or adding to it has failed, a reader that      *)
(* waits for its stream to end is served by a running loop; and when the   *)
(* last reader is through, loop, epoll set and loop thread are gone        *)
(* (src/sdrgg_usb.cpp:536-621), for any number of streams, if none starts  *)
(* while another ends.                                                     *)
THEOREM LoopServesStreams ==
    ASSUME ~StartsOverlapEnds
    PROVE  Spec => []StreamsHaveLoop
<1>1. LoopInv /\ [Next]_vars => LoopInv'
    BY NextKeepsLoopInv
<1> QED BY <1>1, InitInv, InvGivesLoop, PTL DEF Spec
=============================================================================
