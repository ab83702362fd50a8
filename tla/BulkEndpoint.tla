---------------------------- MODULE BulkEndpoint ----------------------------
(***************************************************************************)
(* The bulk endpoint of one device and the threads that switch it on and   *)
(* off and read from it: the reader thread with its synchronous loop       *)
(* (src/sdrgg_ring.cpp 136-218), usb::bulk_read and the notice of a        *)
(* vanished device (src/sdrgg_usb.cpp 58-75, 128-171), read_sync, the      *)
(* pause of set_frequency and set_gain, and close (src/sdrgg_core.cpp).    *)
(*                                                                         *)
(* The endpoint is one register: 0x1002 halts it, 0x0000 lets it flow, and *)
(* several threads write it without a lock between them.  A write may be   *)
(* lost, or may be reported as failed after the device did it.             *)
(*                                                                         *)
(* Samples are blocks, numbered as the device hands them over; one block   *)
(* fits a transfer.  The R820T's blocks travel in URBs (UrbPipeline); its  *)
(* reader is here for what it does to the endpoint.  Subscribers, failures *)
(* of start and what tuning writes are Streaming's and TunerBus's.         *)
(***************************************************************************)
EXTENDS Integers, Sequences, FiniteSets, SequencesExt

CONSTANTS
    Callers,         \* threads of the application
    Reader,          \* the reader thread of the stream
    NoThread,
    Tuners,          \* the tuners to look at, of "R820T" and "FC0012"
    MaxChunks,       \* bound on the transfers of one read_sync
    MaxBlocks,       \* bound on the blocks the device has
    MaxCalls,        \* bound on the calls made, a close aside
    MaxErrors        \* bound on the transfers that fail

ASSUME BulkEndpointAssumption ==
    /\ Reader \notin Callers /\ NoThread \notin Callers \cup {Reader}
    /\ Tuners \subseteq {"R820T", "FC0012"}
    /\ MaxChunks \in Nat \ {0}
    /\ MaxBlocks \in Nat /\ MaxCalls \in Nat /\ MaxErrors \in Nat

Threads == Callers \cup {Reader}

VARIABLES
    tuner,        \* identity.tuner_class
    plugged,      \* is the device there?
    ep,           \* EPA_CTL: "halted" or "flowing"
    sent,         \* blocks the device has handed over
    open,         \* FALSE once close has begun
    health,       \* dev->health
    active,       \* stream.active
    cancel,       \* stream.cancel_requested
    lock,         \* dev->lock
    ring,         \* the blocks written to the ring, over all streams
    pc,           \* where each thread is
    noticing,     \* threads that have found the device gone and health still OK
    reported,     \* how often each has called the hot-plug callback
    want, got,    \* transfers a bulk_read has left, and the blocks in its buffer
    result,       \* rc of the last bulk_read
    paused,       \* need_bulk_pause
    taken,        \* the blocks read_sync has returned
    calls, errors,
    doubt,        \* did the last write of the endpoint fail?
    overlapped,   \* has a call begun under one that tested active before and relies on it?
    exposed       \* the callers under whose pause a reader or a read_sync begins

device == <<plugged, ep, sent, errors, doubt>>
stream == <<active, cancel, ring>>
removal == <<health, noticing, reported>>
reading == <<want, got, result>>
history == <<overlapped, exposed>>
vars == <<tuner, device, open, stream, lock, pc, removal, reading, paused, taken, calls, history>>

Init ==
    /\ tuner \in Tuners
    /\ plugged = TRUE
    /\ ep = "halted"
    /\ sent = 0
    /\ open = TRUE
    /\ health = "ok"
    /\ active = FALSE /\ cancel = FALSE
    /\ lock = NoThread
    /\ ring = <<>>
    /\ pc = [t \in Threads |-> IF t = Reader THEN "ended" ELSE "idle"]
    /\ noticing = {}
    /\ reported = [t \in Threads |-> 0]
    /\ want = [t \in Threads |-> 0]
    /\ got = [t \in Threads |-> <<>>]
    /\ result = [t \in Threads |-> "ok"]
    /\ paused = [t \in Callers |-> FALSE]
    /\ taken = <<>>
    /\ calls = 0 /\ errors = 0
    /\ doubt = FALSE
    /\ overlapped = FALSE
    /\ exposed = {}

-----------------------------------------------------------------------------
(* Transfers                                                               *)

At(t, place) == pc[t] = place /\ t \notin noticing

Goto(t, place) == pc' = [pc EXCEPT ![t] = place]

\* Mutant of TestsHealth: every failing transfer reports the device as gone.
AlwaysReports == TRUE

\* control_write and bulk_read, on ENODEV: the test of health
TestsHealth == health = "ok"

\* Thread t's transfer fails as the device is gone; the report is a step of its own.
Vanished(t) ==
    /\ ~plugged
    /\ noticing' = IF TestsHealth THEN noticing \cup {t} ELSE noticing
    /\ UNCHANGED <<health, reported, plugged, ep, sent, errors, doubt>>

\* The store of health and the hot-plug callback
Report(t) ==
    /\ t \in noticing
    /\ noticing' = noticing \ {t}
    /\ health' = "disconnected"
    /\ reported' = [reported EXCEPT ![t] = @ + 1]
    /\ UNCHANGED <<tuner, device, open, stream, lock, pc, reading, paused, taken, calls, history>>

\* A control write of the endpoint register; where t goes depends on its rc.
WriteEp(t, value, ok, failed) ==
    \/ /\ plugged
       /\ ep' = value /\ doubt' = FALSE
       /\ Goto(t, ok)
       /\ UNCHANGED <<plugged, sent, errors, removal>>
    \/ /\ plugged /\ errors < MaxErrors
       /\ \/ ep' = value            \* the answer was late
          \/ ep' = ep               \* the write was lost
       /\ doubt' = TRUE
       /\ errors' = errors + 1
       /\ Goto(t, failed)
       /\ UNCHANGED <<plugged, sent, removal>>
    \/ Vanished(t) /\ Goto(t, failed)

\* rtl::start_bulk, a halt and a flow; rc, if anyone looks, is that of the first that failed.
StartBulk(t, halt, flow, ok, failed) ==
    \/ At(t, halt) /\ WriteEp(t, "halted", flow, failed)
    \/ At(t, flow) /\ WriteEp(t, "flowing", ok, failed)

\* rtl::stop_bulk, whose rc nobody looks at
StopBulk(t, halt, next) == At(t, halt) /\ WriteEp(t, "halted", next, next)

\* Mutant of RcOfFailure: a failure discards what earlier chunks have brought.
RcAlwaysError(blocks) == "error"

\* bulk_read with total > 0 is no error
RcOfFailure(blocks) == IF blocks = <<>> THEN "error" ELSE "ok"

Done(t, rc, next) ==
    /\ result' = [result EXCEPT ![t] = rc]
    /\ want' = [want EXCEPT ![t] = 0]
    /\ Goto(t, next)

\* A round of the loop of usb::bulk_read: a full chunk, a short or empty one, or a failure.
BulkChunk(t, next) ==
    \/ /\ plugged /\ ep = "flowing" /\ sent < MaxBlocks
       /\ sent' = sent + 1
       /\ got' = [got EXCEPT ![t] = Append(@, sent')]
       /\ \/ /\ want[t] > 1
             /\ want' = [want EXCEPT ![t] = @ - 1]
             /\ UNCHANGED <<pc, result>>
          \/ Done(t, "ok", next)
       /\ UNCHANGED <<plugged, ep, errors, doubt, removal>>
    \/ /\ plugged /\ ep = "flowing"
       /\ Done(t, "ok", next)
       /\ UNCHANGED <<device, removal, got>>
    \/ /\ plugged
       /\ \/ ep = "halted" /\ UNCHANGED errors               \* a timeout
          \/ errors < MaxErrors /\ errors' = errors + 1
       /\ Done(t, RcOfFailure(got[t]), next)
       /\ UNCHANGED <<plugged, ep, sent, doubt, removal, got>>
    \/ /\ Vanished(t)
       /\ Done(t, RcOfFailure(got[t]), next)
       /\ UNCHANGED got

-----------------------------------------------------------------------------
(* The reader thread                                                       *)

\* Mutant of ReaderGivesUp: a vanished device is taken for a timeout.
NeverGivesUp == FALSE

ReaderGivesUp == health = "disconnected"

ReaderStart ==
    /\ \/ tuner = "FC0012" /\ StartBulk(Reader, "halt", "flow", "top", "top")     \* rc is ignored
       \/ tuner = "R820T" /\ StartBulk(Reader, "halt", "flow", "submit", "ended")
    /\ UNCHANGED <<tuner, open, stream, lock, reading, paused, taken, calls, history>>

\* The FC0012's loop: test of cancel, bulk_read of one chunk, delivery.
ReaderTop ==
    /\ At(Reader, "top")
    /\ IF cancel
       THEN Goto(Reader, "ended") /\ UNCHANGED want
       ELSE Goto(Reader, "read") /\ want' = [want EXCEPT ![Reader] = 1]
    /\ got' = [got EXCEPT ![Reader] = <<>>]
    /\ UNCHANGED <<tuner, device, open, stream, lock, removal, result, paused, taken, calls, history>>

ReaderRead ==
    /\ At(Reader, "read")
    /\ BulkChunk(Reader, "back")
    /\ UNCHANGED <<tuner, open, stream, lock, paused, taken, calls, history>>

ReaderBack ==
    /\ At(Reader, "back")
    /\ IF result[Reader] = "ok"
       THEN ring' = ring \o got[Reader] /\ Goto(Reader, "top")
       ELSE UNCHANGED ring /\ Goto(Reader, IF ReaderGivesUp THEN "ended" ELSE "top")
    /\ got' = [got EXCEPT ![Reader] = <<>>]
    /\ result' = [result EXCEPT ![Reader] = "ok"]
    /\ UNCHANGED <<tuner, device, open, active, cancel, lock, removal, want, paused, taken, calls,
                   history>>

\* The R820T's reader submits its URBs and waits; whichever way it ends it stops the endpoint
\* and frees the URBs.
ReaderSubmit ==
    /\ At(Reader, "submit")
    /\ \/ Goto(Reader, "wait")
       \/ Goto(Reader, "stop")
    /\ UNCHANGED <<tuner, device, open, stream, lock, removal, reading, paused, taken, calls, history>>

ReaderWait ==
    /\ At(Reader, "wait")
    /\ cancel \/ ReaderGivesUp
    /\ Goto(Reader, "cancel")
    /\ UNCHANGED <<tuner, device, open, stream, lock, removal, reading, paused, taken, calls, history>>

\* urb_cancel_all, called for itself and by urb_free, gets its URBs back, unless the event loop
\* takes one of them first (UrbPipeline says how).  Then the reader is caught in REAPURB until
\* the device is gone.
ReaderReaps(from, caught, next) ==
    \/ At(Reader, from) /\ Goto(Reader, next)
    \/ At(Reader, from) /\ Goto(Reader, caught)
    \/ At(Reader, caught) /\ ~plugged /\ Goto(Reader, next)

ReaderCancel ==
    /\ \/ ReaderReaps("cancel", "caught", "stop")
       \/ ReaderReaps("free", "caught_freeing", "ended")
    /\ UNCHANGED <<tuner, device, open, stream, lock, removal, reading, paused, taken, calls, history>>

ReaderStop ==
    /\ StopBulk(Reader, "stop", "free")
    /\ UNCHANGED <<tuner, open, stream, lock, reading, paused, taken, calls, history>>

ReaderStep == ReaderStart \/ ReaderTop \/ ReaderRead \/ ReaderBack
              \/ ReaderSubmit \/ ReaderWait \/ ReaderCancel \/ ReaderStop
              \/ Report(Reader)

-----------------------------------------------------------------------------
(* The calls of the application                                            *)

Begin(t) ==
    /\ open /\ pc[t] = "idle" /\ calls < MaxCalls
    /\ calls' = calls + 1

StreamStarting == pc[Reader] \in {"halt", "flow"}
ReadStarting == \E u \in Callers : pc[u] \in {"read_halt", "read_flow"}
Paused == {u \in Callers : paused[u]}

\* Mutant of LockFree: set_frequency and set_gain take no lock.
NoLock == TRUE

\* pthread_mutex_lock( &dev->lock ) returns
LockFree == lock = NoThread

\* set_frequency and set_gain: the lock, and need_bulk_pause
Configure(t) ==
    /\ Begin(t) /\ LockFree
    /\ lock' = t
    /\ paused' = [paused EXCEPT ![t] = active /\ tuner = "FC0012"]
    /\ Goto(t, IF paused'[t] THEN "pause" ELSE "tune")
    /\ overlapped' = (overlapped \/ StreamStarting)
    /\ exposed' = IF paused'[t] /\ (StreamStarting \/ ReadStarting) THEN exposed \cup {t} ELSE exposed
    /\ UNCHANGED <<tuner, device, open, stream, removal, reading, taken>>

Pause(t) ==
    /\ StopBulk(t, "pause", "tune")
    /\ UNCHANGED <<tuner, open, stream, lock, reading, paused, taken, calls, history>>

\* Mutant of AfterTuning: after a failed tuning the endpoint stays halted.
AfterTuningThatWorked(t, ok) == IF paused[t] /\ ok THEN "resume_halt" ELSE "unlock"

AfterTuning(t, ok) == IF paused[t] THEN "resume_halt" ELSE "unlock"

\* The accesses of the tuner, which may fail
Tune(t) ==
    /\ At(t, "tune")
    /\ \/ /\ plugged
          /\ Goto(t, AfterTuning(t, TRUE))
          /\ UNCHANGED <<device, removal>>
       \/ /\ plugged /\ errors < MaxErrors
          /\ errors' = errors + 1
          /\ Goto(t, AfterTuning(t, FALSE))
          /\ UNCHANGED <<plugged, ep, sent, doubt, removal>>
       \/ Vanished(t) /\ Goto(t, AfterTuning(t, FALSE))
    /\ UNCHANGED <<tuner, open, stream, lock, reading, paused, taken, calls, history>>

Resume(t) ==
    /\ StartBulk(t, "resume_halt", "resume_flow", "unlock", "unlock")
    /\ UNCHANGED <<tuner, open, stream, lock, reading, paused, taken, calls, history>>

Unlock(t) ==
    /\ At(t, "unlock")
    /\ lock' = NoThread
    /\ paused' = [paused EXCEPT ![t] = FALSE]
    /\ exposed' = exposed \ {t}
    /\ Goto(t, "idle")
    /\ UNCHANGED <<tuner, device, open, stream, removal, reading, taken, calls, overlapped>>

\* read_sync of n transfers: its only protection is the test of active at the beginning.
ReadSync(t, n) ==
    /\ Begin(t)
    /\ IF active
       THEN UNCHANGED <<pc, want, got>>          \* SDRGG_ERR_BUSY
       ELSE /\ Goto(t, "read_halt")
            /\ want' = [want EXCEPT ![t] = n]
            /\ got' = [got EXCEPT ![t] = <<>>]
    /\ overlapped' = (overlapped \/ (~active /\ Paused # {}))
    /\ exposed' = IF active THEN exposed ELSE exposed \cup Paused
    /\ UNCHANGED <<tuner, device, open, stream, lock, removal, result, paused, taken>>

ReadStart(t) ==
    /\ StartBulk(t, "read_halt", "read_flow", "read", "idle")
    /\ UNCHANGED <<tuner, open, stream, lock, reading, paused, taken, calls, history>>

Read(t) ==
    /\ At(t, "read")
    /\ BulkChunk(t, "read_stop")
    /\ UNCHANGED <<tuner, open, stream, lock, paused, taken, calls, history>>

ReadStop(t) ==
    /\ StopBulk(t, "read_stop", "return")
    /\ UNCHANGED <<tuner, open, stream, lock, reading, paused, taken, calls, history>>

\* The caller gets the blocks, unless rc tells it that there are none.
ReadReturn(t) ==
    /\ At(t, "return")
    /\ taken' = IF result[t] = "ok" THEN taken \o got[t] ELSE taken
    /\ got' = [got EXCEPT ![t] = <<>>]
    /\ result' = [result EXCEPT ![t] = "ok"]
    /\ Goto(t, "idle")
    /\ UNCHANGED <<tuner, device, open, stream, lock, removal, want, paused, calls, history>>

\* start, stop and close exclude each other: an application that overlaps them is Streaming's.
Exclusive == \A t \in Callers : pc[t] \notin {"stop_join", "close_join", "tuner_down", "close_halt"}

Start(t) ==
    /\ Begin(t) /\ Exclusive /\ ~active
    /\ active' = TRUE /\ cancel' = FALSE
    /\ Goto(Reader, "halt")
    /\ overlapped' = (overlapped \/ \E u \in Callers : pc[u] # "idle")
    /\ exposed' = exposed \cup Paused
    /\ UNCHANGED <<tuner, device, open, ring, lock, removal, reading, paused, taken>>

Stop(t) ==
    /\ Begin(t) /\ Exclusive /\ active
    /\ cancel' = TRUE
    /\ Goto(t, "stop_join")
    /\ UNCHANGED <<tuner, device, open, active, ring, lock, removal, reading, paused, taken, history>>

\* close begins when no other call is under way; none may follow it.
Close(t) ==
    /\ open /\ \A u \in Callers : pc[u] = "idle"
    /\ open' = FALSE
    /\ cancel' = (cancel \/ active)
    /\ Goto(t, IF active THEN "close_join" ELSE "tuner_down")
    /\ UNCHANGED <<tuner, device, active, ring, lock, removal, reading, paused, taken, calls, history>>

\* pthread_join of the reader
Join(t) ==
    /\ pc[Reader] = "ended" /\ Reader \notin noticing
    /\ \/ At(t, "stop_join") /\ Goto(t, "idle")
       \/ At(t, "close_join") /\ Goto(t, "tuner_down")
    /\ active' = FALSE
    /\ UNCHANGED <<tuner, device, open, cancel, ring, lock, removal, reading, paused, taken, calls, history>>

\* The tuner's standby or automatic gain, unless the device is known to be gone
TunerDown(t) ==
    /\ At(t, "tuner_down")
    /\ IF health = "disconnected"
       THEN Goto(t, "idle") /\ UNCHANGED <<device, removal>>
       ELSE /\ Goto(t, "close_halt")
            /\ \/ plugged /\ UNCHANGED <<device, removal>>
               \/ Vanished(t)
    /\ UNCHANGED <<tuner, open, stream, lock, reading, paused, taken, calls, history>>

\* rtl::deinit
CloseHalt(t) ==
    /\ StopBulk(t, "close_halt", "idle")
    /\ UNCHANGED <<tuner, open, stream, lock, reading, paused, taken, calls, history>>

CallStep(t) ==
    \/ Pause(t) \/ Tune(t) \/ Resume(t) \/ Unlock(t)
    \/ ReadStart(t) \/ Read(t) \/ ReadStop(t) \/ ReadReturn(t)
    \/ Join(t) \/ TunerDown(t) \/ CloseHalt(t)
    \/ Report(t)

\* The user takes the device out.
Unplug ==
    /\ plugged
    /\ plugged' = FALSE
    /\ UNCHANGED <<tuner, ep, sent, errors, doubt, open, stream, lock, pc, removal, reading, paused, taken,
                   calls, history>>

Next ==
    \/ \E t \in Callers :
          \/ Configure(t) \/ Start(t) \/ Stop(t) \/ Close(t)
          \/ \E n \in 1..MaxChunks : ReadSync(t, n)
          \/ CallStep(t)
    \/ ReaderStep
    \/ Unplug

(* Threads run; nobody has to make a call or to unplug anything.           *)
Fairness ==
    /\ \A t \in Callers : WF_vars(CallStep(t))
    /\ WF_vars(ReaderStep)

Spec == Init /\ [][Next]_vars /\ Fairness

-----------------------------------------------------------------------------
(* Properties                                                              *)

(* Every block the device has handed over is in the ring, with a caller or *)
(* in the buffer of a bulk_read that has not returned, once, and the ring  *)
(* has its blocks in order: an error in the middle of a read loses nothing *)
(* (src/sdrgg_usb.cpp 159).                                                *)
BlocksAccounted ==
    /\ ToSet(ring) \cup ToSet(taken) \cup UNION {ToSet(got[t]) : t \in Threads} = 1..sent
    /\ IsInjective(taken) /\ ToSet(ring) \cap ToSet(taken) = {}
    /\ \A t \in Threads :
          /\ IsInjective(got[t])
          /\ ToSet(got[t]) \cap (ToSet(ring) \cup ToSet(taken)) = {}
          /\ \A u \in Threads \ {t} : ToSet(got[t]) \cap ToSet(got[u]) = {}
    /\ \A i, j \in DOMAIN ring : i < j => ring[i] < ring[j]

WritesEp(t) ==
    pc[t] \in {"halt", "flow", "stop", "pause", "tune", "resume_halt", "resume_flow",
              "read_halt", "read_flow", "read", "read_stop", "tuner_down", "close_halt"}

(* Once nobody is about to write the endpoint, and the last write of it    *)
(* did not fail, it is as the stream wants it: flowing under the FC0012's  *)
(* reader whatever tuning came in between, flowing for the R820T exactly   *)
(* while its reader waits or takes its URBs back, and halted in a device   *)
(* that was closed (src/sdrgg_core.cpp 466-468, src/sdrgg_ring.cpp         *)
(* 178-212).  Calls that begin under one that relies on what it read in    *)
(* active before (overlapped) void it.                                     *)
EndpointFollowsStream ==
    plugged /\ ~doubt /\ ~overlapped /\ (\A t \in Threads : ~WritesEp(t)) =>
        /\ tuner = "FC0012" /\ active => ep = "flowing"
        /\ tuner = "R820T" =>
             (ep = "flowing" <=> pc[Reader] \in {"submit", "wait", "cancel", "caught"})
        /\ ~open => (ep = "halted" \/ \E t \in Callers : pc[t] = "close_join")

(* The FC0012 is tuned during a stream with the endpoint halted, or the    *)
(* firmware's bulk interrupt disturbs the I2C transfer (src/CHANGELOG.md   *)
(* 72-74).  What the code keeps of that: a pause whose own write did not   *)
(* fail (no one looks at its rc, src/sdrgg_core.cpp 447) holds until the   *)
(* resume, if no reader starts and no read_sync lets the endpoint flow     *)
(* under it; both take no lock, and do.  So neither another set_frequency  *)
(* or set_gain, nor a stop, nor the running reader ends it, whatever       *)
(* failed or overlapped earlier.                                           *)
PauseHolds ==
    \A t \in Callers :
        At(t, "tune") /\ paused[t] /\ t \notin exposed /\ plugged /\ ~doubt => ep = "halted"

(* The application hears of a vanished device if the library believes it   *)
(* gone, and from each thread once at most (src/sdrgg_usb.cpp 63-71).      *)
ReportsPerThread ==
    /\ \A t \in Threads : reported[t] <= 1
    /\ health = "disconnected" <=> \E t \in Threads : reported[t] > 0

(* Every call returns, whoever holds the lock and whatever is unplugged,   *)
(* but for the stop or close that joins an R820T's reader while that is    *)
(* caught in REAPURB; and the FC0012's reader ends when its device is      *)
(* gone: a halted or empty endpoint keeps nobody waiting.                  *)
NothingStuck ==
    /\ \A t \in Callers :
          pc[t] # "idle" ~>
              \/ pc[t] = "idle"
              \/ /\ pc[t] \in {"stop_join", "close_join"} /\ plugged
                 /\ pc[Reader] \in {"caught", "caught_freeing"}
    /\ tuner = "FC0012" /\ ~plugged ~> pc[Reader] = "ended"
=============================================================================
