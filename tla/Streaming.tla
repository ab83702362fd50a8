------------------------------ MODULE Streaming ------------------------------
(***************************************************************************)
(* The life of one device's stream (src/sdrgg_ring.cpp): the calls         *)
(* start, stop, subscribe and unsubscribe made by application threads, the *)
(* reader thread, the event loop as far as it serves this device, the      *)
(* consumer threads, and the memory they share.  What flows through the    *)
(* ring is the subject of IqRing; here the ring is only allocated or       *)
(* freed.                                                                  *)
(*                                                                         *)
(* A call is a sequence of steps between which other threads run.  The     *)
(* steps inside sub_lock are separate, so that it is the lock that makes   *)
(* them atomic.  Thread ids come from a finite set and are used again      *)
(* after a join, as pthread_t values are.                                  *)
(***************************************************************************)
EXTENDS Integers, FiniteSets

CONSTANTS
    Callers,       \* application threads
    Threads,       \* ids pthread_create can give a consumer thread
    NSlots,        \* SDRGG_MAX_SUBSCRIBERS
    MayOverlap,    \* pairs of calls the application lets run at the same time
    SharedLoop,    \* another device of the context streams all the time
    None

ASSUME StreamingAssumption ==
    /\ NSlots \in Nat \ {0}
    /\ MayOverlap \subseteq SUBSET {"start", "stop", "subscribe", "unsubscribe"}
    /\ SharedLoop \in BOOLEAN
    /\ None \notin Callers \cup Threads

Slots == 1..NSlots

VARIABLES
    active,            \* stream.active
    cancel_requested,  \* stream.cancel_requested
    reader,            \* where the reader thread is; "none" before and after
    loop,              \* where the event loop is in serving this device, or "none"
    use_sync,          \* an FC0012 or FC0013: the reader itself fills the ring
    reader_started,    \* stream.reader_started
    health,            \* dev->health
    ring,              \* ring.data: "none", "live" or "freed"
    sub_lock,          \* holder of ring.sub_lock, or None
    subs,              \* ring.subs: active, cancel, thread_started, thread
    thread,            \* each consumer thread: where it is, and its slot
    call,              \* the call each caller is in: op, pc, h (a slot or 0)
    handles            \* the handles each caller holds from subscribe

stream == <<active, cancel_requested, reader_started>>
reading == <<reader, loop, use_sync>>
vars == <<stream, reading, health, ring, sub_lock, subs, thread, call, handles>>

FreeSub == [active |-> FALSE, cancel |-> FALSE, thread_started |-> FALSE,
            thread |-> None]
FreeThread == [pc |-> "free", slot |-> 0]
Idle == [op |-> "none", pc |-> "idle", h |-> 0]

Init ==
    /\ active = FALSE
    /\ cancel_requested = FALSE
    /\ reader_started = FALSE
    /\ reader = "none"
    /\ loop = IF SharedLoop THEN "out" ELSE "none"
    /\ use_sync \in BOOLEAN
    /\ health = "OK"
    /\ ring = "none"
    /\ sub_lock = None
    /\ subs = [i \in Slots |-> FreeSub]
    /\ thread = [x \in Threads |-> FreeThread]
    /\ call = [t \in Callers |-> Idle]
    /\ handles = [t \in Callers |-> {}]

At(t, pc) == call[t].pc = pc
Goto(t, pc) == call' = [call EXCEPT ![t].pc = pc]
Return(t) == call' = [call EXCEPT ![t] = Idle]

Ops == {"start", "stop", "subscribe", "unsubscribe"}

\* The calls under way are all of a kind that may overlap with this one.
MayCall(t, op) ==
    /\ At(t, "idle")
    /\ \A u \in Callers \ {t} : ~At(u, "idle") => {op, call[u].op} \in MayOverlap

-----------------------------------------------------------------------------
(* subscribe: also the second half of start.                               *)

CallSubscribe(t) ==
    /\ MayCall(t, "subscribe")
    /\ active
    /\ call' = [call EXCEPT ![t] = [op |-> "subscribe", pc |-> "sub_lock", h |-> 0]]
    /\ UNCHANGED <<stream, reading, health, ring, sub_lock, subs, thread, handles>>

\* start calls subscribe, which looks at active like any other call.
StartSubscribes(t) ==
    /\ At(t, "sub_check")
    /\ Goto(t, IF active THEN "sub_lock" ELSE "undo")
    /\ UNCHANGED <<stream, reading, health, ring, sub_lock, subs, thread, handles>>

\* Mutant: nobody waits for the lock.
LockSubAnyway(t, from, to) ==
    /\ At(t, from)
    /\ sub_lock' = t
    /\ Goto(t, to)
    /\ UNCHANGED <<stream, reading, health, ring, subs, thread, handles>>

LockSub(t, from, to) ==
    /\ At(t, from)
    /\ sub_lock = None
    /\ sub_lock' = t
    /\ Goto(t, to)
    /\ UNCHANGED <<stream, reading, health, ring, subs, thread, handles>>

LockToSubscribe(t) == LockSub(t, "sub_lock", "sub_pick")

\* Mutant: a slot is free once its thread has been joined.
Joined == {i \in Slots : ~subs[i].thread_started}

Inactive == {i \in Slots : ~subs[i].active}
FirstInactive == CHOOSE i \in Inactive : \A j \in Inactive : i <= j

PickSlot(t) ==
    /\ At(t, "sub_pick")
    /\ Inactive # {}
    /\ call' = [call EXCEPT ![t] = [@ EXCEPT !.pc = "sub_create", !.h = FirstInactive]]
    /\ UNCHANGED <<stream, reading, health, ring, sub_lock, subs, thread, handles>>

\* After an error start takes back what it did, subscribe just returns.
FailSubscribe(t) ==
    /\ sub_lock' = None
    /\ IF call[t].op = "start" THEN Goto(t, "undo") ELSE Return(t)

NoSlot(t) ==
    /\ At(t, "sub_pick")
    /\ Inactive = {}
    /\ FailSubscribe(t)
    /\ UNCHANGED <<stream, reading, health, ring, subs, thread, handles>>

\* A consumer thread begins its loop, or ends at once if it gets no memory for its
\* delivery_buf.
Begins == {"top", "done"}

\* The fields are set and pthread_create succeeds with a free id.  start keeps
\* no handle: its subscription ends with stop.
CreateConsumer(t) ==
    \E x \in Threads, begins \in Begins :
        /\ At(t, "sub_create")
        /\ thread[x].pc = "free"
        /\ thread' = [thread EXCEPT ![x] = [pc |-> begins, slot |-> call[t].h]]
        /\ subs' = [subs EXCEPT ![call[t].h] =
                      [active |-> TRUE, cancel |-> FALSE,
                       thread_started |-> TRUE, thread |-> x]]
        /\ sub_lock' = None
        /\ handles' = IF call[t].op = "start" THEN handles
                      ELSE [handles EXCEPT ![t] = @ \cup {call[t].h}]
        /\ Return(t)
        /\ UNCHANGED <<stream, reading, health, ring>>

\* pthread_create fails; active is taken back, cancel stays as it was set.
CreateConsumerFails(t) ==
    /\ At(t, "sub_create")
    /\ subs' = [subs EXCEPT ![call[t].h] = [@ EXCEPT !.active = FALSE,
                                                   !.cancel = FALSE]]
    /\ FailSubscribe(t)
    /\ UNCHANGED <<stream, reading, health, ring, thread, handles>>

-----------------------------------------------------------------------------
(* unsubscribe: also the loop of stop.                                     *)

\* A caller ends a subscription of its own.
CallUnsubscribe(t) ==
    \E h \in handles[t] :
        /\ MayCall(t, "unsubscribe")
        /\ call' = [call EXCEPT ![t] = [op |-> "unsubscribe", pc |-> "un_lock", h |-> h]]
        /\ handles' = [handles EXCEPT ![t] = @ \ {h}]
        /\ UNCHANGED <<stream, reading, health, ring, sub_lock, subs, thread>>

LockToCancel(t) == LockSub(t, "un_lock", "un_cancel")

\* Where unsubscribe returns to: stop goes on to its next slot.
EndUnsubscribe(t) == IF call[t].op = "stop" THEN Goto(t, "scan") ELSE Return(t)

\* The slot is looked at and cancelled under the lock; ERR_PARAM if it is not
\* active.
CancelSub(t) ==
    /\ At(t, "un_cancel")
    /\ sub_lock' = None
    /\ IF subs[call[t].h].active
       THEN /\ subs' = [subs EXCEPT ![call[t].h].cancel = TRUE]
            /\ Goto(t, "un_join")
       ELSE /\ EndUnsubscribe(t)
            /\ UNCHANGED subs
    /\ UNCHANGED <<stream, reading, health, ring, thread, handles>>

\* thread_started is read outside the lock.
BeginJoin(t) ==
    /\ At(t, "un_join")
    /\ Goto(t, IF subs[call[t].h].thread_started THEN "un_joining" ELSE "un_lock2")
    /\ UNCHANGED <<stream, reading, health, ring, sub_lock, subs, thread, handles>>

\* pthread_join returns when the thread has ended, and frees its id.
EndJoin(t) ==
    LET x == subs[call[t].h].thread
    IN  /\ At(t, "un_joining")
        /\ x # None
        /\ thread[x].pc = "done"
        /\ thread' = [thread EXCEPT ![x] = FreeThread]
        /\ subs' = [subs EXCEPT ![call[t].h].thread_started = FALSE]
        /\ Goto(t, "un_lock2")
        /\ UNCHANGED <<stream, reading, health, ring, sub_lock, handles>>

LockToRelease(t) == LockSub(t, "un_lock2", "un_release")

ReleaseSub(t) ==
    /\ At(t, "un_release")
    /\ subs' = [subs EXCEPT ![call[t].h].active = FALSE]
    /\ sub_lock' = None
    /\ EndUnsubscribe(t)
    /\ UNCHANGED <<stream, reading, health, ring, thread, handles>>

-----------------------------------------------------------------------------
(* start                                                                   *)

CallStart(t) ==
    /\ MayCall(t, "start")
    /\ ~active
    /\ call' = [call EXCEPT ![t] = [op |-> "start", pc |-> "init", h |-> 0]]
    /\ UNCHANGED <<stream, reading, health, ring, sub_lock, subs, thread, handles>>

\* ring_init, which resets the slots, then the flags of the stream.
InitRing(t) ==
    /\ At(t, "init")
    /\ ring' = "live"
    /\ sub_lock' = None
    /\ subs' = [i \in Slots |-> FreeSub]
    /\ cancel_requested' = FALSE
    /\ active' = TRUE
    /\ Goto(t, "create_reader")
    /\ UNCHANGED <<reader_started, reading, health, thread, handles>>

\* ring_init finds no memory.
InitRingFails(t) ==
    /\ At(t, "init")
    /\ Return(t)
    /\ UNCHANGED <<stream, reading, health, ring, sub_lock, subs, thread, handles>>

CreateReader(t) ==
    /\ At(t, "create_reader")
    /\ reader' = "setup"
    /\ reader_started' = TRUE
    /\ Goto(t, "sub_check")
    /\ UNCHANGED <<active, cancel_requested, loop, use_sync, health, ring, sub_lock,
                   subs, thread, handles>>

\* Mutant: the ring is not destroyed when there is no reader.
CreateReaderFailsLeaks(t) ==
    /\ At(t, "create_reader")
    /\ active' = FALSE
    /\ Return(t)
    /\ UNCHANGED <<cancel_requested, reader_started, reading, health, ring, sub_lock, subs,
                   thread, handles>>

CreateReaderFails(t) ==
    /\ At(t, "create_reader")
    /\ active' = FALSE
    /\ Goto(t, "destroy")
    /\ UNCHANGED <<cancel_requested, reader_started, reading, health, ring, sub_lock, subs,
                   thread, handles>>

\* Mutant: the reader is joined but not told to stop.
UndoWithoutCancel(t) ==
    /\ At(t, "undo")
    /\ Goto(t, "undo_join")
    /\ UNCHANGED <<stream, reading, health, ring, sub_lock, subs, thread, handles>>

\* The first subscription failed.  reader_started stays set.
Undo(t) ==
    /\ At(t, "undo")
    /\ cancel_requested' = TRUE
    /\ Goto(t, "undo_join")
    /\ UNCHANGED <<active, reader_started, reading, health, ring, sub_lock, subs, thread, handles>>

UndoJoin(t) ==
    /\ At(t, "undo_join")
    /\ reader = "done"
    /\ reader' = "none"
    /\ active' = FALSE
    /\ Goto(t, "destroy")
    /\ UNCHANGED <<cancel_requested, reader_started, loop, use_sync, health, ring, sub_lock,
                   subs, thread, handles>>

-----------------------------------------------------------------------------
(* stop                                                                    *)

CallStop(t) ==
    /\ MayCall(t, "stop")
    /\ active
    /\ call' = [call EXCEPT ![t] = [op |-> "stop", pc |-> "scan", h |-> 0]]
    /\ UNCHANGED <<stream, reading, health, ring, sub_lock, subs, thread, handles>>

\* Unsubscribe the next slot that is active; the scan reads active unlocked.
ScanActive(t) ==
    LET rest == {i \in Slots : i > call[t].h /\ subs[i].active}
    IN  /\ At(t, "scan")
        /\ rest # {}
        /\ call' = [call EXCEPT ![t] =
                      [@ EXCEPT !.pc = "un_lock",
                                !.h = CHOOSE i \in rest : \A j \in rest : i <= j]]
        /\ UNCHANGED <<stream, reading, health, ring, sub_lock, subs, thread, handles>>

\* Mutant: the reader is told to stop, and not waited for.
ScanDoneNoJoin(t) ==
    /\ At(t, "scan")
    /\ \A i \in Slots : i > call[t].h => ~subs[i].active
    /\ cancel_requested' = TRUE
    /\ Goto(t, "down")
    /\ UNCHANGED <<active, reader_started, reading, health, ring, sub_lock, subs, thread, handles>>

ScanDone(t) ==
    /\ At(t, "scan")
    /\ \A i \in Slots : i > call[t].h => ~subs[i].active
    /\ cancel_requested' = TRUE
    /\ Goto(t, IF reader_started THEN "join_reader" ELSE "down")
    /\ UNCHANGED <<active, reader_started, reading, health, ring, sub_lock, subs, thread, handles>>

JoinReader(t) ==
    /\ At(t, "join_reader")
    /\ reader = "done"
    /\ reader' = "none"
    /\ reader_started' = FALSE
    /\ Goto(t, "down")
    /\ UNCHANGED <<active, cancel_requested, loop, use_sync, health, ring, sub_lock,
                   subs, thread, handles>>

Deactivate(t) ==
    /\ At(t, "down")
    /\ active' = FALSE
    /\ Goto(t, "destroy")
    /\ UNCHANGED <<cancel_requested, reader_started, reading, health, ring, sub_lock, subs,
                   thread, handles>>

\* ring_destroy.  Unless stop may overlap with the use of a handle, the
\* application knows that its handles ended with the stream.
DestroyRing(t) ==
    /\ At(t, "destroy")
    /\ ring' = "freed"
    /\ handles' = IF {"stop", "unsubscribe"} \in MayOverlap THEN handles
                ELSE [u \in Callers |-> {}]
    /\ Return(t)
    /\ UNCHANGED <<stream, reading, health, sub_lock, subs, thread>>

-----------------------------------------------------------------------------
(* The reader thread and the event loop, reduced to where they use the     *)
(* ring and what the calls wait for.  The thread of an FC0012 fills the    *)
(* ring itself.  That of an R820T starts the loop, which does              *)
(* (async_ring_cb), and takes its URBs back at the end.                    *)

ReaderGoes(from, to) ==
    /\ reader = from
    /\ reader' \in to
    /\ UNCHANGED <<stream, use_sync, health, ring, sub_lock, subs, thread, call, handles>>

\* The buffer or the URBs, start_bulk; either may fail.
ReaderSetup ==
    /\ ReaderGoes("setup", {"done", IF use_sync THEN "acquire" ELSE "submit"})
    /\ UNCHANGED loop

\* urb_submit_all fails: stop_bulk, and urb_free takes back what was submitted.
ReaderSubmitFails == ReaderGoes("submit", {"reaping"}) /\ UNCHANGED loop

\* event_loop_start finds a loop, creates one or fails, which nobody notices.
ReaderSubmits ==
    /\ ReaderGoes("submit", {"acquire"})
    /\ IF SharedLoop THEN UNCHANGED loop ELSE loop' \in {"none", "out"}

\* Looks at cancel_requested and health between two reads, or every 100 ms.
ReaderEnds ==
    /\ cancel_requested \/ health = "DISCONNECTED"
    /\ ReaderGoes("acquire", {IF use_sync THEN "done" ELSE "reaping"})
    /\ UNCHANGED loop

\* urb_cancel_all gets the discarded URBs from the kernel ...
ReaderReaps == ReaderGoes("reaping", {"leaving"}) /\ UNCHANGED loop

\* ... unless the loop reaps one between the test of its flag and the blocking REAPURB
\* (UrbPipeline says how): then it waits for a URB that does not come ...
ReaderHangs == loop # "none" /\ ReaderGoes("reaping", {"hung"}) /\ UNCHANGED loop

\* ... until the descriptor of a device that is gone returns an error.
ReaderReleased ==
    /\ health = "DISCONNECTED"
    /\ ReaderGoes("hung", {"leaving"})
    /\ UNCHANGED loop

\* The last stream of the context waits for the loop in event_loop_stop; any other leaves
\* it running, wherever it is.
ReaderLeaves ==
    /\ SharedLoop \/ loop \in {"none", "out"}
    /\ ReaderGoes("leaving", {"done"})
    /\ loop' = IF SharedLoop THEN loop ELSE "none"

Reader ==
    \/ ReaderSetup \/ ReaderSubmits \/ ReaderSubmitFails \/ ReaderEnds
    \/ ReaderReaps \/ ReaderReleased \/ ReaderLeaves

LoopGoes(from, to) ==
    /\ loop = from
    /\ loop' \in to
    /\ UNCHANGED <<active, reader_started, reader, use_sync, health, ring, sub_lock, subs, thread,
                   call, handles>>

\* A URB of this device has completed; the kernel has some until urb_cancel_all is through.
\* (One that the loop submits again just then is taken back by urb_free.)
LoopReaps ==
    /\ active /\ ~use_sync
    /\ reader \in {"submit", "acquire", "reaping", "hung"}
    /\ LoopGoes("out", {"check"})
    /\ UNCHANGED cancel_requested

\* Nothing is delivered after a cancel; what was not received well is only submitted again,
\* and a stream that has lost its last URB is cancelled.
LoopChecks ==
    \/ ~cancel_requested /\ LoopGoes("check", {"write"}) /\ UNCHANGED cancel_requested
    \/ LoopGoes("check", {"out"}) /\ cancel_requested' \in {cancel_requested, TRUE}

\* ring_write, after which the URB is submitted again.
LoopWrites ==
    /\ LoopGoes("write", {"out"})
    /\ cancel_requested' \in {cancel_requested, TRUE}

\* The device is gone, seen by any USB call.
Disconnect ==
    /\ health = "OK"
    /\ health' = "DISCONNECTED"
    /\ UNCHANGED <<stream, reading, ring, sub_lock, subs, thread, call, handles>>

(* A consumer thread, reduced to where it uses the ring and can end.       *)

MoveThread(x, from, to) ==
    /\ thread[x].pc = from
    /\ thread' = [thread EXCEPT ![x].pc = to]
    /\ UNCHANGED <<stream, reading, health, ring, sub_lock, subs, call, handles>>

CancelledSub(x) == thread[x].slot \in Slots /\ subs[thread[x].slot].cancel

\* cancel is tested before every segment; one that write_pos has is copied and delivered,
\* and with less than one the thread sleeps, unless the device is gone.
SeesCancel(x) == CancelledSub(x) /\ MoveThread(x, "top", "done")
Delivers(x) == ~CancelledSub(x) /\ MoveThread(x, "top", "callback")
Starved(x) == ~CancelledSub(x) /\ health = "DISCONNECTED" /\ MoveThread(x, "top", "done")
Callback(x) == MoveThread(x, "callback", "top")

Consumer(x) == SeesCancel(x) \/ Starved(x) \/ Callback(x)

-----------------------------------------------------------------------------

\* A step of a call that is under way.
InCall(t) ==
    \/ StartSubscribes(t) \/ LockToSubscribe(t) \/ PickSlot(t) \/ NoSlot(t)
    \/ CreateConsumer(t) \/ CreateConsumerFails(t)
    \/ LockToCancel(t) \/ CancelSub(t) \/ BeginJoin(t)
    \/ EndJoin(t) \/ LockToRelease(t) \/ ReleaseSub(t)
    \/ InitRing(t) \/ InitRingFails(t) \/ CreateReader(t) \/ CreateReaderFails(t)
    \/ Undo(t) \/ UndoJoin(t)
    \/ ScanActive(t) \/ ScanDone(t) \/ JoinReader(t) \/ Deactivate(t) \/ DestroyRing(t)

NewCall(t) == CallStart(t) \/ CallStop(t) \/ CallSubscribe(t) \/ CallUnsubscribe(t)

Next ==
    \/ \E t \in Callers : InCall(t) \/ NewCall(t)
    \/ Reader \/ ReaderHangs \/ Disconnect
    \/ LoopReaps \/ LoopChecks \/ LoopWrites
    \/ \E x \in Threads : Consumer(x) \/ Delivers(x)

Spec == Init /\ [][Next]_vars

\* Threads that can run do, sub_lock is not withheld from a caller for ever, and callbacks
\* return.  Nobody has to make a call, no URB has to complete, and no
\* consumer has to get a segment.
FairSpec ==
    /\ Spec
    /\ WF_vars(Reader) /\ WF_vars(LoopChecks \/ LoopWrites)
    /\ \A t \in Callers : SF_vars(InCall(t))
    /\ \A x \in Threads : WF_vars(Consumer(x))

-----------------------------------------------------------------------------

Running(x) == thread[x].pc \in {"top", "callback"}

PCs == {"idle", "init", "create_reader", "sub_check", "sub_lock", "sub_pick",
        "sub_create", "undo", "undo_join", "un_lock", "un_cancel", "un_join",
        "un_joining", "un_lock2", "un_release", "scan", "join_reader", "down",
        "destroy"}

\* The values each variable can have.
TypeOK ==
    /\ active \in BOOLEAN
    /\ cancel_requested \in BOOLEAN
    /\ reader_started \in BOOLEAN
    /\ reader \in {"none", "setup", "submit", "acquire", "reaping", "hung", "leaving", "done"}
    /\ loop \in {"none", "out", "check", "write"}
    /\ use_sync \in BOOLEAN
    /\ health \in {"OK", "DISCONNECTED"}
    /\ ring \in {"none", "live", "freed"}
    /\ sub_lock \in Callers \cup {None}
    /\ subs \in [Slots -> [active : BOOLEAN, cancel : BOOLEAN, thread_started : BOOLEAN,
                           thread : Threads \cup {None}]]
    /\ thread \in [Threads -> [pc : {"free", "top", "callback",
                                     "done"},
                               slot : 0..NSlots]]
    /\ call \in [Callers -> [op : {"none"} \cup Ops, pc : PCs, h : 0..NSlots]]
    /\ handles \in [Callers -> SUBSET Slots]

\* unsubscribe joins a thread that exists, and no other caller is joining it
\* (pthread_join on the same or on a joined thread is undefined): sub_lock
\* "protects subscribe/unsubscribe" (src/sdrgg_internal.h:207).
JoinedOnce ==
    \A t \in Callers :
        At(t, "un_joining") =>
            LET x == subs[call[t].h].thread
            IN  /\ x # None
                /\ thread[x].pc # "free"
                /\ \A u \in Callers \ {t} :
                     At(u, "un_joining") => subs[call[u].h].thread # x

\* The ring's memory and its lock exist as long as a consumer thread or the reader can use
\* them, through every order of stop, unsubscribe and start; and so does what the event loop
\* writes into, if the reader is the one that ends it.  With another stream in the context
\* the loop outlives the reader, and the code frees the ring under it.
RingOutlivesThreads ==
    /\ (\E x \in Threads : Running(x)) \/ reader \notin {"none", "done"} => ring = "live"
    /\ ~SharedLoop /\ loop = "write" => ring = "live"

\* A slot serves one thread: the one that runs on it is the one unsubscribe
\* would join, and the slot is not given away before that.  (Every variable has its type.)
SlotServesOneThread ==
    /\ TypeOK
    /\ \A x \in Threads :
           thread[x].pc # "free" =>
               /\ subs[thread[x].slot].active
               /\ subs[thread[x].slot].thread = x

\* A stream that is not active, with no start or stop under way, has left
\* nothing behind: no thread, no reader, no subscription, no memory, whichever
\* step of start failed.
QuietWhenStopped ==
    ~active /\ (\A t \in Callers : call[t].op \notin {"start", "stop"})
        => /\ \A x \in Threads : thread[x].pc = "free"
           /\ reader = "none"
           /\ \A i \in Slots : ~subs[i].active
           /\ ring # "live"

\* Every call returns, also when the device disconnects or a step of start fails: no caller
\* waits for ever for the lock, a consumer or the reader and the loop it joins, but for the one
\* that joins a reader which itself waits for a URB that the loop has taken (ReapNeverHangs of
\* UrbPipeline).  That wait ends with the device.
CallsReturn ==
    \A t \in Callers :
        ~At(t, "idle") ~>
            \/ At(t, "idle")
            \/ /\ At(t, "join_reader") \/ At(t, "undo_join")
               /\ reader = "hung" /\ health = "OK"
=============================================================================
