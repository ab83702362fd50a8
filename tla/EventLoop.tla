------------------------------ MODULE EventLoop ------------------------------
(***************************************************************************)
(* The event loop of a context and the devices that share it               *)
(* (src/sdrgg_usb.cpp 483-621, and its use in reader_thread_fn, open_path  *)
(* and close): the reader thread of the first stream starts the loop, each *)
(* registers its device, and the one that finds streaming_count at zero    *)
(* stops the loop.  ctx->lock is held for event_loop_start, for changes of *)
(* the device table and for the polling round of the loop, and for nothing *)
(* else.  What the loop does with the URBs of a device is the subject of   *)
(* UrbPipeline; here it only uses the device's memory, and a stream that   *)
(* ends by itself does so as after a disconnect.                           *)
(*                                                                         *)
(* One application thread per device opens, starts, stops and closes it.   *)
(***************************************************************************)
EXTENDS Integers, FiniteSets

CONSTANTS
    Devices,
    LoopThreads,         \* ids pthread_create can give the loop thread
    StartsOverlapEnds,   \* may one stream start while another one ends?
    None

ASSUME EventLoopAssumption ==
    /\ IsFiniteSet(Devices)
    /\ StartsOverlapEnds \in BOOLEAN
    /\ Devices \cap LoopThreads = {} /\ None \notin Devices \cup LoopThreads

VARIABLES
    table,             \* ctx->devices
    live,              \* devices whose memory is not freed
    active,            \* stream.active
    cancel_requested,  \* stream.cancel_requested
    disconnected,      \* devices whose health is DISCONNECTED
    failed,            \* has event_loop_start or event_loop_add_dev ever failed?
    app,               \* where the application thread of each device is
    reader,            \* where its reader thread is
    joining,           \* the loop thread a reader waits for
    lock,              \* ctx->lock: its holder or None
    event_running,
    streaming_count,
    epoll_open,        \* ctx->epoll_fd is a descriptor
    registered,        \* devices in that epoll set
    event_thread,      \* ctx->event_thread
    loop               \* each loop thread: pc, and the devices it has still to serve

device == <<table, live, active, cancel_requested, disconnected, app>>
count == <<event_running, streaming_count>>
epoll == <<epoll_open, registered, failed>>
thread == <<event_thread, loop>>
vars == <<device, reader, joining, lock, count, epoll, thread>>

NoLoop == [pc |-> "free", batch |-> {}]

Init ==
    /\ table = {}
    /\ live = {}
    /\ active = [d \in Devices |-> FALSE]
    /\ cancel_requested = [d \in Devices |-> FALSE]
    /\ disconnected = {}
    /\ failed = FALSE
    /\ app = [d \in Devices |-> "closed"]
    /\ reader = [d \in Devices |-> "none"]
    /\ joining = [d \in Devices |-> None]
    /\ lock = None
    /\ event_running = FALSE
    /\ streaming_count = 0
    /\ epoll_open = FALSE
    /\ registered = {}
    /\ event_thread = None
    /\ loop = [t \in LoopThreads |-> NoLoop]

AppGoto(d, pc) == app' = [app EXCEPT ![d] = pc]
ReaderAt(d, pc) == reader[d] = pc
ReaderGoto(d, pc) == reader' = [reader EXCEPT ![d] = pc]

Starting(d) == reader[d] \in {"lock", "start", "create", "unlock", "add", "count"}

\* The stream was told to end, or found its device gone, and is not through.
Ending(d) == reader[d] \notin {"none", "done"} /\ (cancel_requested[d] \/ d \in disconnected)

\* May the stream of d be ended, or started, now?  (That of a device already gone
\* starts and ends at once.)
MayEnd(d) == StartsOverlapEnds \/ \A e \in Devices \ {d} : ~Starting(e)
MayStart(d) ==
    /\ StartsOverlapEnds \/ \A e \in Devices \ {d} : ~Ending(e)
    /\ d \in disconnected => MayEnd(d)

-----------------------------------------------------------------------------
(* The application.                                                        *)

\* Phase D of open_path.
Open(d) ==
    /\ app[d] = "closed"
    /\ lock = None
    /\ live' = live \cup {d}
    /\ table' = table \cup {d}
    /\ AppGoto(d, "open")
    /\ UNCHANGED <<active, cancel_requested, disconnected, reader, joining, lock, count, epoll,
                   thread>>

\* A control transfer of the application finds the device of a stream gone.
Disconnect(d) ==
    /\ d \notin disconnected
    /\ reader[d] \notin {"none", "done"}
    /\ MayEnd(d)
    /\ disconnected' = disconnected \cup {d}
    /\ UNCHANGED <<table, live, active, cancel_requested, app, reader, joining, lock, count,
                   epoll, thread>>

\* start; the reader has submitted its URBs when it comes to the loop.
StartStream(d) ==
    /\ app[d] = "open"
    /\ MayStart(d)
    /\ cancel_requested' = [cancel_requested EXCEPT ![d] = FALSE]
    /\ active' = [active EXCEPT ![d] = TRUE]
    /\ ReaderGoto(d, "lock")
    /\ AppGoto(d, "streaming")
    /\ UNCHANGED <<table, live, disconnected, joining, lock, count, epoll, thread>>

\* close first takes the device out of the table.
Unregister(d) ==
    /\ app[d] \in {"open", "streaming"}
    /\ lock = None
    /\ table' = table \ {d}
    /\ AppGoto(d, IF active[d] THEN "closing" ELSE "free")
    /\ UNCHANGED <<live, active, cancel_requested, disconnected, reader, joining, lock, count, epoll,
                   thread>>

\* stop, or the part of close that stops an active stream.
Stop(d) ==
    /\ app[d] \in {"streaming", "closing"}
    /\ MayEnd(d)
    /\ cancel_requested' = [cancel_requested EXCEPT ![d] = TRUE]
    /\ AppGoto(d, IF app[d] = "streaming" THEN "stop_join" ELSE "close_join")
    /\ UNCHANGED <<table, live, active, disconnected, reader, joining, lock, count, epoll, thread>>

JoinReader(d) ==
    /\ app[d] \in {"stop_join", "close_join"}
    /\ ReaderAt(d, "done")
    /\ ReaderGoto(d, "none")
    /\ active' = [active EXCEPT ![d] = FALSE]
    /\ AppGoto(d, IF app[d] = "stop_join" THEN "open" ELSE "free")
    /\ UNCHANGED <<table, live, cancel_requested, disconnected, joining, lock, count, epoll, thread>>

\* The end of close; the next device gets cleared memory.
Free(d) ==
    /\ app[d] = "free"
    /\ live' = live \ {d}
    /\ disconnected' = disconnected \ {d}
    /\ cancel_requested' = [cancel_requested EXCEPT ![d] = FALSE]
    /\ AppGoto(d, "closed")
    /\ UNCHANGED <<table, active, reader, joining, lock, count, epoll, thread>>

-----------------------------------------------------------------------------
(* The reader thread of a device.                                          *)

LockToStart(d) ==
    /\ ReaderAt(d, "lock")
    /\ lock = None
    /\ lock' = d
    /\ ReaderGoto(d, "start")
    /\ UNCHANGED <<device, joining, count, epoll, thread>>

\* event_loop_start: nothing to do if the loop runs, else descriptors first ...
StartLoop(d) ==
    /\ ReaderAt(d, "start")
    /\ IF event_running
       THEN /\ ReaderGoto(d, "unlock")
            /\ UNCHANGED <<event_running, epoll>>
       ELSE /\ ReaderGoto(d, "create")
            /\ event_running' = TRUE
            /\ epoll_open' = TRUE
            /\ registered' = {}
            /\ UNCHANGED failed
    /\ UNCHANGED <<device, joining, lock, streaming_count, thread>>

\* No descriptors to be had.
StartLoopFails(d) ==
    /\ ReaderAt(d, "start")
    /\ ~event_running
    /\ epoll_open' = FALSE
    /\ registered' = {}
    /\ failed' = TRUE
    /\ ReaderGoto(d, "unlock")
    /\ UNCHANGED <<device, joining, lock, count, thread>>

\* ... and then the thread.
CreateLoop(d) ==
    \E t \in LoopThreads :
        /\ ReaderAt(d, "create")
        /\ loop[t].pc = "free"
        /\ loop' = [loop EXCEPT ![t].pc = "top"]
        /\ event_thread' = t
        /\ ReaderGoto(d, "unlock")
        /\ UNCHANGED <<device, joining, lock, count, epoll>>

\* No thread to be had; the reader does not look at the result.
CreateLoopFails(d) ==
    /\ ReaderAt(d, "create")
    /\ event_running' = FALSE
    /\ epoll_open' = FALSE
    /\ registered' = {}
    /\ failed' = TRUE
    /\ ReaderGoto(d, "unlock")
    /\ UNCHANGED <<device, joining, lock, streaming_count, thread>>

Unlock(d) ==
    /\ ReaderAt(d, "unlock")
    /\ lock' = None
    /\ ReaderGoto(d, "add")
    /\ UNCHANGED <<device, joining, count, epoll, thread>>

AddDev(d) ==
    /\ ReaderAt(d, "add")
    /\ epoll_open
    /\ registered' = registered \cup {d}
    /\ ReaderGoto(d, "count")
    /\ UNCHANGED <<device, joining, lock, count, epoll_open, failed, thread>>

\* event_loop_add_dev fails, always without an epoll set; again nobody looks.
AddDevFails(d) ==
    /\ ReaderAt(d, "add")
    /\ failed' = TRUE
    /\ ReaderGoto(d, "wait")
    /\ UNCHANGED <<device, joining, lock, count, epoll_open, registered, thread>>

CountDev(d) ==
    /\ ReaderAt(d, "count")
    /\ streaming_count' = streaming_count + 1
    /\ ReaderGoto(d, "wait")
    /\ UNCHANGED <<device, joining, lock, event_running, epoll, thread>>

LeaveWait(d) ==
    /\ ReaderAt(d, "wait")
    /\ cancel_requested[d] \/ d \in disconnected
    /\ ReaderGoto(d, "remove")
    /\ UNCHANGED <<device, joining, lock, count, epoll, thread>>

\* event_loop_remove_dev.
RemoveDev(d) ==
    /\ ReaderAt(d, "remove")
    /\ registered' = registered \ {d}
    /\ ReaderGoto(d, "uncount")
    /\ UNCHANGED <<device, joining, lock, count, epoll_open, failed, thread>>

UncountDev(d) ==
    /\ ReaderAt(d, "uncount")
    /\ streaming_count' = IF streaming_count > 0 THEN streaming_count - 1 ELSE 0
    /\ ReaderGoto(d, "check")
    /\ UNCHANGED <<device, joining, lock, event_running, epoll, thread>>

\* Mutant of CheckLast: every stream that ends stops the loop.
CheckLastAlways(d) ==
    /\ ReaderAt(d, "check")
    /\ ReaderGoto(d, "exchange")
    /\ UNCHANGED <<device, joining, lock, count, epoll, thread>>

CheckLast(d) ==
    /\ ReaderAt(d, "check")
    /\ ReaderGoto(d, IF streaming_count = 0 THEN "exchange" ELSE "done")
    /\ UNCHANGED <<device, joining, lock, count, epoll, thread>>

\* Mutant of Exchange: event_running is cleared, its old value not looked at.
ExchangeBlindly(d) ==
    /\ ReaderAt(d, "exchange")
    /\ event_running' = FALSE
    /\ ReaderGoto(d, "join")
    /\ UNCHANGED <<device, joining, lock, streaming_count, epoll, thread>>

\* Mutant of Exchange: the loop is stopped under ctx->lock, like it is started.
ExchangeLocked(d) ==
    /\ ReaderAt(d, "exchange")
    /\ lock = None
    /\ IF event_running THEN ReaderGoto(d, "join") /\ lock' = d
                        ELSE ReaderGoto(d, "done") /\ lock' = None
    /\ event_running' = FALSE
    /\ UNCHANGED <<device, joining, streaming_count, epoll, thread>>

\* event_loop_stop: only the first of several gets on.
Exchange(d) ==
    /\ ReaderAt(d, "exchange")
    /\ event_running' = FALSE
    /\ ReaderGoto(d, IF event_running THEN "join" ELSE "done")
    /\ UNCHANGED <<device, joining, lock, streaming_count, epoll, thread>>

BeginJoin(d) ==
    /\ ReaderAt(d, "join")
    /\ joining' = [joining EXCEPT ![d] = event_thread]
    /\ ReaderGoto(d, "joining")
    /\ UNCHANGED <<device, lock, count, epoll, thread>>

EndJoin(d) ==
    LET t == joining[d]
    IN  /\ ReaderAt(d, "joining")
        /\ t # None
        /\ loop[t].pc = "ended"
        /\ loop' = [loop EXCEPT ![t] = NoLoop]
        /\ joining' = [joining EXCEPT ![d] = None]
        /\ ReaderGoto(d, "close")
        /\ UNCHANGED <<device, lock, count, epoll, event_thread>>

CloseEpoll(d) ==
    /\ ReaderAt(d, "close")
    /\ epoll_open' = FALSE
    /\ registered' = {}
    /\ ReaderGoto(d, "done")
    /\ UNCHANGED <<device, joining, lock, count, failed, thread>>

-----------------------------------------------------------------------------
(* The loop thread: event_loop_thread.                                     *)

LoopAt(t, pc) == loop[t].pc = pc
LoopGoto(t, pc, batch) == loop' = [loop EXCEPT ![t] = [pc |-> pc, batch |-> batch]]

\* epoll_wait with some of the devices ready; it fails without a descriptor.
LoopWaits(t) ==
    /\ LoopAt(t, "top")
    /\ IF event_running /\ epoll_open
       THEN \E ready \in SUBSET registered : LoopGoto(t, "events", ready)
       ELSE LoopGoto(t, "ended", {})
    /\ UNCHANGED <<device, reader, joining, lock, count, epoll, event_thread>>

\* The device behind one of the events is served if its stream is active.
ServeEvent(t) ==
    \E d \in loop[t].batch :
        /\ LoopAt(t, "events")
        /\ LoopGoto(t, "events", loop[t].batch \ {d})
        /\ UNCHANGED <<device, reader, joining, lock, count, epoll, event_thread>>

\* Mutant of LockToPoll: the polling round takes no lock.
PollUnlocked(t) ==
    /\ LoopAt(t, "events")
    /\ loop[t].batch = {}
    /\ LoopGoto(t, "poll", table)
    /\ UNCHANGED <<device, reader, joining, lock, count, epoll, event_thread>>

\* Then the polling fallback, which looks at every device of the table.
LockToPoll(t) ==
    /\ LoopAt(t, "events")
    /\ loop[t].batch = {}
    /\ lock = None
    /\ lock' = t
    /\ LoopGoto(t, "poll", table)
    /\ UNCHANGED <<device, reader, joining, count, epoll, event_thread>>

Poll(t) ==
    \E d \in loop[t].batch :
        /\ LoopAt(t, "poll")
        /\ LoopGoto(t, "poll", loop[t].batch \ {d})
        /\ UNCHANGED <<device, reader, joining, lock, count, epoll, event_thread>>

EndRound(t) ==
    /\ LoopAt(t, "poll")
    /\ loop[t].batch = {}
    /\ lock' = None
    /\ LoopGoto(t, "top", {})
    /\ UNCHANGED <<device, reader, joining, count, epoll, event_thread>>

-----------------------------------------------------------------------------

Reader(d) ==
    \/ LockToStart(d) \/ StartLoop(d) \/ StartLoopFails(d) \/ CreateLoop(d)
    \/ CreateLoopFails(d) \/ Unlock(d) \/ AddDev(d) \/ AddDevFails(d) \/ CountDev(d)
    \/ LeaveWait(d) \/ RemoveDev(d) \/ UncountDev(d) \/ CheckLast(d)
    \/ Exchange(d) \/ BeginJoin(d) \/ EndJoin(d) \/ CloseEpoll(d)

Loop(t) ==
    \/ LoopWaits(t) \/ ServeEvent(t) \/ LockToPoll(t) \/ Poll(t) \/ EndRound(t)

App(d) ==
    \/ Open(d) \/ Disconnect(d) \/ StartStream(d) \/ Unregister(d) \/ Stop(d) \/ JoinReader(d) \/ Free(d)

Next ==
    \/ \E d \in Devices : App(d) \/ Reader(d)
    \/ \E t \in LoopThreads : Loop(t)

Spec == Init /\ [][Next]_vars

\* Threads that can run do, and ctx->lock is not withheld from one for ever.
FairSpec ==
    /\ Spec
    /\ \A d \in Devices : SF_vars(Reader(d)) /\ WF_vars(JoinReader(d) \/ Free(d))
    /\ \A t \in LoopThreads : SF_vars(Loop(t))

-----------------------------------------------------------------------------

\* The values each variable can have.
TypeOK ==
    /\ table \subseteq Devices
    /\ live \subseteq Devices
    /\ active \in [Devices -> BOOLEAN]
    /\ cancel_requested \in [Devices -> BOOLEAN]
    /\ disconnected \subseteq Devices
    /\ failed \in BOOLEAN
    /\ app \in [Devices -> {"closed", "open", "streaming", "closing", "stop_join",
                            "close_join", "free"}]
    /\ reader \in [Devices -> {"none", "lock", "start", "create", "unlock", "add", "count",
                               "wait", "remove", "uncount", "check", "exchange", "join",
                               "joining", "close", "done"}]
    /\ joining \in [Devices -> LoopThreads \cup {None}]
    /\ lock \in Devices \cup LoopThreads \cup {None}
    /\ event_running \in BOOLEAN
    /\ streaming_count \in 0..Cardinality(Devices)
    /\ epoll_open \in BOOLEAN
    /\ registered \subseteq Devices
    /\ event_thread \in LoopThreads \cup {None}
    /\ loop \in [LoopThreads -> [pc : {"free", "top", "events", "poll", "ended"},
                                 batch : SUBSET Devices]]

\* event_loop_stop joins a loop thread once: the thread exists, and nobody else
\* is joining it ("This prevents double-join", src/sdrgg_usb.cpp:572).
LoopJoinedOnce ==
    \A d \in Devices :
        ReaderAt(d, "joining") =>
            /\ joining[d] # None
            /\ loop[joining[d]].pc # "free"
            /\ \A e \in Devices \ {d} :
                 ReaderAt(e, "joining") => joining[e] # joining[d]

\* A reader that waits for its stream to end has a loop that serves its device: no other
\* stream that ends takes it away.  (After a failure to start the loop or to register it
\* does happen: event_loop_remove_dev counts down regardless.)  And when the last stream has
\* ended nothing of the loop is left, whichever of several readers that end at the same time
\* stopped it.
StreamsHaveLoop ==
    /\ ~failed => \A d \in Devices :
           ReaderAt(d, "wait") =>
               /\ event_running
               /\ d \in registered
               /\ event_thread # None
               /\ loop[event_thread].pc \in {"top", "events", "poll"}
    /\ (\A d \in Devices : reader[d] \in {"none", "done"}) =>
           /\ ~event_running /\ ~epoll_open
           /\ \A t \in LoopThreads : loop[t].pc = "free"

\* "Hold ctx->lock to prevent sdrgg_close from freeing a device while we're
\* still accessing it" (src/sdrgg_usb.cpp:518): true of the polling round.
\* (Every variable has its type.)
PolledDevicesLive ==
    /\ TypeOK
    /\ \A t \in LoopThreads : LoopAt(t, "poll") => loop[t].batch \subseteq live

\* The same for the whole loop.
ServedDevicesLive == \A t \in LoopThreads : loop[t].batch \subseteq live

\* stop and close return: no reader waits for ever for the loop thread, nor that
\* for ctx->lock.
StopsReturn ==
    \A d \in Devices :
        app[d] \in {"stop_join", "close_join"} ~> app[d] \in {"open", "closed"}
=============================================================================
