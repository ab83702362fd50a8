------------------------- MODULE BulkEndpointProofs -------------------------
(***************************************************************************)
(* The invariants of BulkEndpoint, proved for any number of application    *)
(* threads, calls, blocks and failing transfers.                           *)
(*                                                                         *)
(* PauseHolds alone is not inductive: it needs to know that only the       *)
(* thread that holds dev->lock is between its pause and its resume, and    *)
(* that, in a pause that is not exposed, neither the reader nor a          *)
(* read_sync is about to switch the endpoint on.  ReportsPerThread needs to know that a thread that has     *)
(* noticed the loss has not yet reported it.  BlocksAccounted needs to     *)
(* know that a bulk_read that reports an error has brought nothing, and    *)
(* that what the reader holds is newer than the ring;                      *)
(* EndpointFollowsStream where each thread may be while another one is     *)
(* about to write the endpoint.                                            *)
(***************************************************************************)
EXTENDS BulkEndpoint, TLAPS, SequenceTheorems

USE DEF history

\* The places between pthread_mutex_lock and pthread_mutex_unlock of dev->lock
Locked == {"pause", "tune", "resume_halt", "resume_flow", "unlock"}

\* Everywhere a thread may be
Places ==
    Locked \cup {"idle", "ended", "halt", "flow", "top", "read", "back", "submit", "wait", "cancel",
                "caught", "stop", "free", "caught_freeing", "read_halt", "read_flow", "read_stop",
                "return", "stop_join", "close_join", "tuner_down", "close_halt"}

Flags ==
    /\ plugged \in BOOLEAN /\ active \in BOOLEAN
    /\ doubt \in BOOLEAN /\ overlapped \in BOOLEAN

Types ==
    /\ Flags
    /\ pc \in [Threads -> Places]
    /\ paused \in [Callers -> BOOLEAN]

\* A thread between its lock and its unlock is the one that has the lock.
LockIsHeld == \A t \in Callers : pc[t] \in Locked => lock = t

\* The pause is undone before the lock is given up.
PauseIsLocked == \A t \in Callers : paused[t] => pc[t] \in Locked

\* No read_sync is about to let the endpoint flow.
NoReadStarts == \A u \in Callers : pc[u] \notin {"read_halt", "read_flow"}

\* During a pause, unless it counts as exposed, neither a read_sync nor the reader is about to
\* let the endpoint flow.
NoStarter ==
    \A t \in Callers : paused[t] /\ t \notin exposed => NoReadStarts /\ ~StreamStarting

\* PauseHolds, also for a thread whose report is still to come
TunedHalted ==
    \A t \in Callers :
        pc[t] = "tune" /\ paused[t] /\ t \notin exposed /\ plugged /\ ~doubt => ep = "halted"

PauseInv == Types /\ LockIsHeld /\ PauseIsLocked /\ NoStarter /\ TunedHalted

(* Both conjuncts of ReportsPerThread, and that the first report of a      *)
(* thread is its last.                                                     *)
ReportInv ==
    /\ noticing \subseteq Threads
    /\ reported \in [Threads -> {0, 1}]
    /\ \A t \in noticing : reported[t] = 0
    /\ health \in {"ok", "disconnected"}
    /\ health = "disconnected" <=> \E t \in Threads : reported[t] > 0

-----------------------------------------------------------------------------
(* Reports                                                                 *)

(* A step that leaves the three variables of the removal alone, one that   *)
(* notices it, and Report are all there is (src/sdrgg_usb.cpp 62-71).      *)
Removal(t) == UNCHANGED removal \/ Vanished(t) \/ Report(t)

LEMMA RemovalKeepsReportInv ==
    ASSUME ReportInv, NEW t \in Threads, Removal(t)
    PROVE  ReportInv'
<1>1. CASE UNCHANGED removal
  BY <1>1 DEF ReportInv, removal
<1>2. CASE Vanished(t)
  <2>1. UNCHANGED <<health, reported>> /\ noticing' \in {noticing, noticing \cup {t}}
    BY <1>2 DEF Vanished
  <2>2. noticing' # noticing => health = "ok"
    BY <1>2 DEF Vanished, TestsHealth
  <2>3. health = "ok" => \A u \in Threads : reported[u] = 0
    BY DEF ReportInv
  <2> QED BY <2>1, <2>2, <2>3 DEF ReportInv
<1>3. CASE Report(t)
  <2>1. /\ t \in noticing /\ noticing' = noticing \ {t}
        /\ health' = "disconnected"
        /\ reported' = [reported EXCEPT ![t] = @ + 1]
    BY <1>3 DEF Report
  <2>2. reported' \in [Threads -> {0, 1}] /\ reported'[t] = 1
    BY <2>1 DEF ReportInv
  <2>3. \A u \in noticing' : reported'[u] = 0
    BY <2>1 DEF ReportInv
  <2> QED BY <2>1, <2>2, <2>3 DEF ReportInv
<1> QED BY <1>1, <1>2, <1>3 DEF Removal

(* Every step of the system is one of these, for some thread.              *)
LEMMA StepIsRemoval ==
    ASSUME [Next]_vars
    PROVE  \E t \in Threads : Removal(t)
<1>1. Reader \in Threads /\ Callers \subseteq Threads
  BY DEF Threads
<1>2. CASE UNCHANGED vars
  BY <1>1, <1>2 DEF vars, Removal
<1>3. CASE ReaderStep
  <2>1. ReaderStep => Removal(Reader)
    BY DEF ReaderStep, Removal, ReaderStart, StartBulk, WriteEp, ReaderTop, ReaderRead, BulkChunk,
           ReaderBack, ReaderSubmit, ReaderWait, ReaderCancel, ReaderReaps, ReaderStop, StopBulk
  <2> QED BY <1>1, <1>3, <2>1
<1>4. CASE Unplug
  BY <1>1, <1>4 DEF Unplug, Removal
<1>5. ASSUME NEW t \in Callers, Configure(t) \/ Start(t) \/ Stop(t) \/ Close(t)
                                \/ \E n \in 1..MaxChunks : ReadSync(t, n)
      PROVE  Removal(t)
  BY <1>5 DEF Configure, Start, Stop, Close, ReadSync, Removal
<1>6. ASSUME NEW t \in Callers, CallStep(t)
      PROVE  Removal(t)
  BY <1>6 DEF CallStep, Pause, Tune, Resume, Unlock, ReadStart, Read, ReadStop, ReadReturn, Join, TunerDown,
              CloseHalt, StartBulk, StopBulk, WriteEp, BulkChunk, Removal
<1> QED BY <1>1, <1>2, <1>3, <1>4, <1>5, <1>6 DEF Next

(* The application hears of a vanished device exactly if the library       *)
(* believes it gone, and at most once from each of its threads: the test   *)
(* and the store of health in usb::control_write and usb::bulk_read.       *)
THEOREM ReportsPerThreadHolds == Spec => []ReportsPerThread
<1>1. Init => ReportInv
  BY DEF Init, ReportInv
<1>2. ReportInv /\ [Next]_vars => ReportInv'
  BY StepIsRemoval, RemovalKeepsReportInv
<1>3. ReportInv => ReportsPerThread
  BY DEF ReportInv, ReportsPerThread
<1> QED BY <1>1, <1>2, <1>3, PTL DEF Spec

-----------------------------------------------------------------------------
(* The pause                                                               *)

(* A step that takes no thread into or out of the lock or to its tuning,   *)
(* starts no stream and no read_sync, and lets the endpoint flow only for  *)
(* one that had begun.                                                     *)
Quiet ==
    /\ Types'
    /\ UNCHANGED <<lock, paused, overlapped, exposed>>
    /\ (active' => active) /\ (plugged' => plugged)
    /\ \A t \in Callers :
        pc'[t] # pc[t] => pc'[t] # "tune" /\ (pc'[t] \in Locked <=> pc[t] \in Locked)
    /\ NoReadStarts => NoReadStarts'
    /\ StreamStarting' => StreamStarting
    /\ /\ NoReadStarts /\ ~StreamStarting
       /\ plugged' /\ ~doubt' /\ (doubt \/ ep = "halted")
       => ep' = "halted"

(* Quiet steps preserve the invariant.                                     *)
LEMMA QuietKeepsPauseInv ==
    ASSUME PauseInv, Quiet
    PROVE  PauseInv'
<1>1. Types' /\ UNCHANGED <<lock, paused, overlapped, exposed>>
  BY DEF Quiet
<1>2. LockIsHeld'
  BY <1>1 DEF PauseInv, LockIsHeld, Quiet
<1>3. PauseIsLocked'
  BY <1>1 DEF PauseInv, PauseIsLocked, Quiet
<1>4. NoStarter'
  BY <1>1 DEF PauseInv, NoStarter, Quiet
<1>5. TunedHalted'
  <2> SUFFICES ASSUME NEW t \in Callers, (pc[t] = "tune")', paused[t]', plugged', ~doubt', t \notin exposed'
               PROVE  ep' = "halted"
    BY DEF TunedHalted
  <2>1. pc[t] = "tune" /\ paused[t] /\ plugged /\ t \notin exposed
    BY <1>1 DEF Quiet
  <2>2. NoReadStarts /\ ~StreamStarting
    BY <2>1 DEF PauseInv, NoStarter
  <2>3. doubt \/ ep = "halted"
    BY <2>1 DEF PauseInv, TunedHalted, Flags, Types
  <2> QED BY <2>2, <2>3 DEF Quiet
<1> QED BY <1>1, <1>2, <1>3, <1>4, <1>5 DEF PauseInv

(* Thread t goes to one of the places, or stays where it is.               *)
Goes(t, places) == pc' = pc \/ \E place \in places : pc' = [pc EXCEPT ![t] = place]

(* ... and every other thread stays where it is.                           *)
LEMMA WhoGoes ==
    ASSUME Types, NEW t \in Threads, NEW places \in SUBSET Places, Goes(t, places)
    PROVE  /\ pc' \in [Threads -> Places]
           /\ \A u \in Threads : u # t => pc'[u] = pc[u]
           /\ pc'[t] = pc[t] \/ pc'[t] \in places
<1>1. CASE pc' = pc
  BY <1>1 DEF Flags, Types
<1>2. CASE \E place \in places : pc' = [pc EXCEPT ![t] = place]
  BY <1>2 DEF Flags, Types
<1> QED BY <1>1, <1>2 DEF Goes

(* A control write that succeeds sets the endpoint; one that fails is      *)
(* remembered as doubt, unless the device is gone.                         *)
LEMMA WriteEpMoves ==
    ASSUME Types, NEW t \in Threads, NEW value, NEW ok, NEW failed, WriteEp(t, value, ok, failed)
    PROVE  /\ plugged' = plugged /\ doubt' \in BOOLEAN
           /\ Goes(t, {ok, failed})
           /\ plugged' /\ ~doubt' => ep' = value
<1>1. plugged' = plugged /\ doubt' \in BOOLEAN
  BY DEF Flags, Types, WriteEp, Vanished
<1>2. Goes(t, {ok, failed})
  BY DEF WriteEp, Goto, Goes
<1>3. plugged' /\ ~doubt' => ep' = value
  BY DEF WriteEp, Vanished
<1> QED BY <1>1, <1>2, <1>3

(* Both writes of rtl::start_bulk.                                         *)
LEMMA StartBulkMoves ==
    ASSUME Types, NEW t \in Threads, NEW halt, NEW flow, NEW ok, NEW failed,
           StartBulk(t, halt, flow, ok, failed)
    PROVE  /\ plugged' = plugged /\ doubt' \in BOOLEAN
           /\ pc[t] \in {halt, flow} /\ Goes(t, {flow, ok, failed})
<1>1. CASE At(t, halt) /\ WriteEp(t, "halted", flow, failed)
  BY <1>1, WriteEpMoves DEF At, Goes
<1>2. CASE At(t, flow) /\ WriteEp(t, "flowing", ok, failed)
  BY <1>2, WriteEpMoves DEF At, Goes
<1> QED BY <1>1, <1>2 DEF StartBulk

(* Reading from the endpoint does not switch it.                           *)
LEMMA BulkChunkMoves ==
    ASSUME Types, NEW t \in Threads, NEW next, BulkChunk(t, next)
    PROVE  UNCHANGED <<plugged, doubt, ep>> /\ Goes(t, {next})
BY DEF BulkChunk, Done, Vanished, Goto, Goes, device

(* The reader's steps: it lets the endpoint flow only at its start.        *)
LEMMA ReaderIsQuiet ==
    ASSUME Types, ReaderStep
    PROVE  Quiet
<1>1. Reader \in Threads /\ Callers \subseteq Threads /\ Reader \notin Callers
  BY BulkEndpointAssumption DEF Threads
<1> DEFINE Inside == {"top", "submit", "ended", "read", "back", "wait", "cancel", "caught", "stop",
                      "free", "caught_freeing"}
           Kept == UNCHANGED <<lock, paused, overlapped, exposed, active, plugged>> /\ doubt' \in BOOLEAN
           Flows == ~StreamStarting /\ plugged' /\ ~doubt' /\ (doubt \/ ep = "halted") => ep' = "halted"
<1>2. Kept /\ Goes(Reader, Inside \cup {"flow"}) /\ (StreamStarting \/ Goes(Reader, Inside)) /\ Flows
  <2>1. CASE ReaderStart
    <3>1. PICK ok \in {"top", "submit"}, failed \in {"top", "ended"} : StartBulk(Reader, "halt", "flow", ok, failed)
      BY <2>1 DEF ReaderStart
    <3>2. UNCHANGED <<lock, paused, overlapped, exposed, active>>
      BY <2>1 DEF ReaderStart, stream
    <3> QED BY <1>1, <3>1, <3>2, StartBulkMoves DEF StreamStarting, Goes
  <2>2. CASE ReaderRead
    <3>1. BulkChunk(Reader, "back") /\ UNCHANGED <<lock, paused, overlapped, exposed, active>>
      BY <2>2 DEF ReaderRead, stream
    <3> QED BY <1>1, <3>1, BulkChunkMoves DEF Goes, Flags, Types
  <2>3. CASE ReaderStop
    <3>1. WriteEp(Reader, "halted", "free", "free") /\ UNCHANGED <<lock, paused, overlapped, exposed, active>>
      BY <2>3 DEF ReaderStop, StopBulk, stream
    <3> QED BY <1>1, <3>1, WriteEpMoves DEF Goes
  <2>4. CASE ReaderTop \/ ReaderBack \/ ReaderSubmit \/ ReaderWait \/ ReaderCancel \/ Report(Reader)
    <3>1. Kept /\ UNCHANGED <<ep, doubt>>
      BY <2>4 DEF Flags, Types, ReaderTop, ReaderBack, ReaderSubmit, ReaderWait, ReaderCancel, Report,
                  device, stream
    <3>2. Goes(Reader, Inside)
      BY <2>4 DEF ReaderTop, ReaderBack, ReaderSubmit, ReaderWait, ReaderCancel, ReaderReaps, Report,
                  Goto, Goes
    <3> QED BY <3>1, <3>2 DEF Goes
  <2> QED BY <2>1, <2>2, <2>3, <2>4 DEF ReaderStep
<1>3. Types'
  <2>1. Inside \cup {"flow"} \in SUBSET Places
    BY DEF Places
  <2>2. pc' \in [Threads -> Places]
    BY <1>1, <1>2, <2>1, WhoGoes
  <2> QED BY <1>2, <2>2 DEF Flags, Types
<1>4. \A t \in Callers : pc'[t] = pc[t]
  BY <1>1, <1>2 DEF Flags, Types, Goes
<1>5. StreamStarting' => StreamStarting
  BY <1>1, <1>2 DEF Flags, Types, Goes, StreamStarting
<1> QED BY <1>2, <1>3, <1>4, <1>5 DEF Quiet, NoReadStarts

(* Nor does the loss of the device.                                        *)
LEMMA UnplugIsQuiet ==
    ASSUME Types, Unplug
    PROVE  Quiet
BY DEF Flags, Types, Unplug, Quiet, NoReadStarts, StreamStarting, stream, device

(* A caller that stays outside the lock, or inside it and does not come to *)
(* its tuning, and lets the endpoint flow only for a read_sync.            *)
LEMMA CallerIsQuiet ==
    ASSUME Types, NEW t \in Callers, NEW places \in SUBSET Places, Goes(t, places),
           UNCHANGED <<lock, paused, overlapped, exposed, plugged>>,
           active' => active, Flags',
           \A p \in places : p # "tune" /\ (p \in Locked <=> pc[t] \in Locked),
           NoReadStarts => \A p \in places : p \notin {"read_halt", "read_flow"},
           /\ NoReadStarts /\ ~StreamStarting
           /\ plugged' /\ ~doubt' /\ (doubt \/ ep = "halted")
           => ep' = "halted"
    PROVE  Quiet
<1>1. Reader \in Threads /\ Callers \subseteq Threads /\ Reader \notin Callers
  BY BulkEndpointAssumption DEF Threads
<1>2. /\ pc' \in [Threads -> Places]
      /\ \A u \in Threads : u # t => pc'[u] = pc[u]
      /\ pc'[t] = pc[t] \/ pc'[t] \in places
  BY <1>1, WhoGoes
<1>3. Types'
  BY <1>2 DEF Flags, Types
<1>4. StreamStarting' => StreamStarting
  BY <1>1, <1>2 DEF StreamStarting
<1>5. \A u \in Callers :
        pc'[u] # pc[u] => pc'[u] # "tune" /\ (pc'[u] \in Locked <=> pc[u] \in Locked)
  BY <1>1, <1>2
<1>6. NoReadStarts => NoReadStarts'
  BY <1>1, <1>2 DEF NoReadStarts
<1>7. UNCHANGED <<lock, paused, overlapped, exposed>> /\ (active' => active) /\ (plugged' => plugged)
  OBVIOUS
<1>8. NoReadStarts /\ ~StreamStarting /\ plugged' /\ ~doubt' /\ (doubt \/ ep = "halted") => ep' = "halted"
  OBVIOUS
<1> QED BY <1>3, <1>4, <1>5, <1>6, <1>7, <1>8 DEF Quiet

(* The calls' steps, but those that take or give the lock, pause, resume,  *)
(* or begin a stream or a read.                                            *)
LEMMA CallIsQuiet ==
    ASSUME Types, NEW t \in Callers,
           \/ Stop(t) \/ Close(t) \/ Tune(t) \/ ReadStart(t) \/ Read(t) \/ ReadStop(t) \/ ReadReturn(t)
           \/ Join(t) \/ TunerDown(t) \/ CloseHalt(t) \/ Report(t)
    PROVE  Quiet
<1> USE DEF Locked, Places
<1>1. t \in Threads
  BY DEF Threads
<1>2. CASE Tune(t)
  <2>1. /\ pc[t] = "tune" /\ Goes(t, {"resume_halt", "unlock"})
        /\ UNCHANGED <<lock, paused, overlapped, exposed, plugged, active, ep, doubt>>
    BY <1>2 DEF Tune, At, AfterTuning, Goto, Goes, Vanished, device, stream
  <2> QED BY <2>1, CallerIsQuiet DEF Flags, Types
<1>3. CASE ReadStart(t)
  <2>1. /\ StartBulk(t, "read_halt", "read_flow", "read", "idle")
        /\ UNCHANGED <<lock, paused, overlapped, exposed, active>>
    BY <1>3 DEF ReadStart, stream
  <2>2. /\ pc[t] \in {"read_halt", "read_flow"} /\ Goes(t, {"read_flow", "read", "idle"})
        /\ plugged' = plugged /\ doubt' \in BOOLEAN
    BY <1>1, <2>1, StartBulkMoves
  <2>3. Flags' /\ ~NoReadStarts
    BY <2>1, <2>2 DEF Flags, Types, NoReadStarts
  <2> QED BY <2>1, <2>2, <2>3, CallerIsQuiet
<1>4. CASE Read(t)
  <2>1. pc[t] = "read" /\ BulkChunk(t, "read_stop") /\ UNCHANGED <<lock, paused, overlapped, exposed, active>>
    BY <1>4 DEF Read, At, stream
  <2>2. Goes(t, {"read_stop"}) /\ UNCHANGED <<plugged, doubt, ep>>
    BY <1>1, <2>1, BulkChunkMoves
  <2>3. Flags'
    BY <2>1, <2>2 DEF Flags, Types
  <2> QED BY <2>1, <2>2, <2>3, CallerIsQuiet
<1>5. CASE ReadStop(t) \/ CloseHalt(t)
  <2>1. PICK next \in {"return", "idle"} : WriteEp(t, "halted", next, next)
    BY <1>5 DEF ReadStop, CloseHalt, StopBulk
  <2>2. pc[t] \notin Locked /\ UNCHANGED <<lock, paused, overlapped, exposed, active>>
    BY <1>5 DEF ReadStop, CloseHalt, StopBulk, At, stream
  <2>3. Goes(t, {next}) /\ plugged' = plugged /\ doubt' \in BOOLEAN /\ (plugged' /\ ~doubt' => ep' = "halted")
    BY <1>1, <2>1, WriteEpMoves DEF Goes
  <2>4. Flags'
    BY <2>2, <2>3 DEF Flags, Types
  <2> QED BY <2>2, <2>3, <2>4, CallerIsQuiet
<1>6. CASE Stop(t) \/ Close(t) \/ ReadReturn(t) \/ Join(t) \/ TunerDown(t) \/ Report(t)
  <2>1. /\ Goes(t, {"stop_join", "close_join", "tuner_down", "idle", "close_halt"})
        /\ pc' # pc => pc[t] \notin Locked
    BY <1>6 DEF Stop, Close, ReadReturn, Join, TunerDown, Report, Begin, At, Goto, Goes
  <2>2. UNCHANGED <<lock, paused, overlapped, exposed, plugged, ep, doubt>>
    BY <1>6 DEF Stop, Close, ReadReturn, Join, TunerDown, Report, Vanished, device, stream
  <2>3. active' = active \/ active' = FALSE
    BY <1>6 DEF Stop, Close, ReadReturn, Join, TunerDown, Report, stream
  <2>4. Flags' /\ (active' => active)
    <3>1. CASE UNCHANGED active
      BY <2>2, <3>1 DEF Flags, Types
    <3>2. CASE active' = FALSE
      BY <2>2, <3>2 DEF Flags, Types
    <3> QED BY <2>3, <3>1, <3>2
  <2>5. CASE pc' = pc
    <3>1. Goes(t, {})
      BY <2>5 DEF Goes
    <3> QED BY <2>2, <2>4, <3>1, CallerIsQuiet
  <2>6. CASE pc' # pc
    BY <2>1, <2>2, <2>6, <2>4, CallerIsQuiet
  <2> QED BY <2>5, <2>6
<1> QED BY <1>2, <1>3, <1>4, <1>5, <1>6

-----------------------------------------------------------------------------
(* The steps that are not quiet                                            *)

(* A stream or a read that begins under a pause exposes it.                *)
LEMMA StartAndReadKeepPauseInv ==
    ASSUME PauseInv, NEW t \in Callers, Start(t) \/ \E n \in 1..MaxChunks : ReadSync(t, n)
    PROVE  PauseInv'
<1>1. Reader \in Threads /\ Callers \subseteq Threads /\ Reader \notin Callers
  BY BulkEndpointAssumption DEF Threads
<1>2. Types /\ LockIsHeld /\ PauseIsLocked /\ NoStarter /\ TunedHalted
  BY DEF PauseInv
<1>3. CASE Start(t)
  <2>1. /\ UNCHANGED <<lock, paused, plugged, ep, doubt>> /\ active' = TRUE
        /\ pc' = [pc EXCEPT ![Reader] = "halt"]
        /\ overlapped' \in BOOLEAN /\ exposed' = exposed \cup Paused
    BY <1>2, <1>3 DEF Start, Goto, device, Flags, Types
  <2>2. Types'
    BY <1>1, <1>2, <2>1 DEF Flags, Types, Places
  <2>3. \A u \in Callers : pc'[u] = pc[u]
    BY <1>1, <1>2, <2>1 DEF Flags, Types
  <2>4. \A u \in Callers : paused'[u] => u \in exposed'
    BY <2>1 DEF Paused
  <2> QED BY <1>2, <2>1, <2>2, <2>3, <2>4 DEF PauseInv, LockIsHeld, PauseIsLocked, NoStarter, TunedHalted
<1>4. CASE \E n \in 1..MaxChunks : ReadSync(t, n)
  <2>1. /\ UNCHANGED <<lock, paused, plugged, ep, doubt, active>>
        /\ overlapped' \in BOOLEAN
        /\ exposed' = IF active THEN exposed ELSE exposed \cup Paused
        /\ pc[t] = "idle"
        /\ IF active THEN pc' = pc ELSE pc' = [pc EXCEPT ![t] = "read_halt"]
    BY <1>2, <1>4 DEF ReadSync, Begin, Goto, device, stream, Flags, Types
  <2>2. Types'
    BY <1>1, <1>2, <2>1 DEF Flags, Types, Places
  <2>3. \A u \in Threads : pc'[u] = pc[u] \/ (u = t /\ ~active /\ pc'[u] = "read_halt")
    BY <1>1, <1>2, <2>1 DEF Flags, Types
  <2>4. LockIsHeld' /\ PauseIsLocked' /\ TunedHalted'
    BY <1>1, <1>2, <2>1, <2>3 DEF LockIsHeld, PauseIsLocked, TunedHalted, Locked, Flags, Types
  <2>5. NoStarter'
    <3>1. CASE active
      <4>1. pc' = pc /\ exposed' = exposed
        BY <2>1, <3>1
      <4> QED BY <1>2, <2>1, <4>1 DEF NoStarter, NoReadStarts, StreamStarting
    <3>2. CASE ~active
      <4>1. \A u \in Callers : paused'[u] => u \in exposed'
        BY <2>1, <3>2 DEF Paused
      <4> QED BY <4>1 DEF NoStarter
    <3> QED BY <3>1, <3>2
  <2> QED BY <2>2, <2>4, <2>5 DEF PauseInv
<1> QED BY <1>3, <1>4

(* set_frequency and set_gain: only the thread with the lock pauses, tunes *)
(* and resumes.                                                            *)
LEMMA LockedStepKeepsPauseInv ==
    ASSUME PauseInv, NEW t \in Callers, Configure(t) \/ Pause(t) \/ Resume(t) \/ Unlock(t)
    PROVE  PauseInv'
<1>1. t \in Threads /\ Callers \subseteq Threads /\ Reader \notin Callers /\ NoThread \notin Callers
  BY BulkEndpointAssumption DEF Threads
<1>2. Types /\ LockIsHeld /\ PauseIsLocked /\ NoStarter /\ TunedHalted
  BY DEF PauseInv
<1>3. CASE Configure(t)
  <2>1. /\ pc[t] = "idle" /\ lock = NoThread /\ lock' = t
        /\ paused' = [paused EXCEPT ![t] = active /\ tuner = "FC0012"]
        /\ pc' = [pc EXCEPT ![t] = IF paused'[t] THEN "pause" ELSE "tune"]
        /\ overlapped' \in BOOLEAN
        /\ exposed' = IF paused'[t] /\ (StreamStarting \/ ReadStarting) THEN exposed \cup {t} ELSE exposed
        /\ UNCHANGED <<plugged, ep, doubt, active>>
    BY <1>2, <1>3 DEF Configure, Begin, LockFree, Goto, device, stream, Flags, Types
  <2>2. /\ \A u \in Callers : u # t => pc'[u] = pc[u] /\ paused'[u] = paused[u]
        /\ pc'[t] \in {"pause", "tune"} /\ (paused'[t] => active /\ pc'[t] = "pause")
        /\ pc'[Reader] = pc[Reader]
    BY <1>1, <1>2, <2>1 DEF Flags, Types, Threads
  <2>3. Types'
    BY <1>1, <1>2, <2>1 DEF Flags, Types, Places, Locked
  <2>4. \A u \in Callers : pc[u] \notin Locked /\ ~paused[u]
    BY <1>1, <1>2, <2>1 DEF LockIsHeld, PauseIsLocked
  <2>5. LockIsHeld' /\ PauseIsLocked' /\ TunedHalted'
    BY <2>1, <2>2, <2>4 DEF LockIsHeld, PauseIsLocked, TunedHalted, Locked
  <2>6. NoStarter'
    <3> SUFFICES ASSUME NEW u \in Callers, paused'[u], u \notin exposed'
                 PROVE  NoReadStarts' /\ ~StreamStarting'
      BY DEF NoStarter
    <3>1. u = t
      BY <2>2, <2>4
    <3>2. ~StreamStarting /\ ~ReadStarting
      BY <2>1, <3>1
    <3> QED BY <2>2, <3>2 DEF NoReadStarts, ReadStarting, StreamStarting
  <2> QED BY <2>3, <2>5, <2>6 DEF PauseInv
<1>4. CASE Pause(t) \/ Resume(t) \/ Unlock(t)
  <2>1. /\ pc[t] \in Locked /\ UNCHANGED <<overlapped, active>>
        /\ \A u \in Callers : paused'[u] => paused[u] /\ (u \in exposed' <=> u \in exposed)
        /\ paused' \in [Callers -> BOOLEAN]
    BY <1>2, <1>4 DEF Pause, Resume, Unlock, StopBulk, StartBulk, At, Locked, stream, Flags, Types
  <2>2. Goes(t, {"tune", "resume_flow", "unlock", "idle"}) /\ plugged' = plugged /\ doubt' \in BOOLEAN
    <3>1. CASE Pause(t)
      <4>1. WriteEp(t, "halted", "tune", "tune")
        BY <3>1 DEF Pause, StopBulk
      <4> QED BY <1>1, <1>2, <4>1, WriteEpMoves DEF Goes
    <3>2. CASE Resume(t)
      <4>1. StartBulk(t, "resume_halt", "resume_flow", "unlock", "unlock")
        BY <3>2 DEF Resume
      <4> QED BY <1>1, <1>2, <4>1, StartBulkMoves DEF Goes
    <3>3. CASE Unlock(t)
      BY <1>2, <3>3 DEF Unlock, Goto, Goes, device, Flags, Types
    <3> QED BY <1>4, <3>1, <3>2, <3>3
  <2>3. Types' /\ \A u \in Threads : u # t => pc'[u] = pc[u]
    <3>1. {"tune", "resume_flow", "unlock", "idle"} \in SUBSET Places
      BY DEF Places, Locked
    <3> QED BY <1>1, <1>2, <2>1, <2>2, <3>1, WhoGoes DEF Flags, Types
  <2>4. \A u \in Callers : u # t => pc[u] \notin Locked /\ ~paused[u]
    BY <1>2, <2>1 DEF LockIsHeld, PauseIsLocked
  <2>5. LockIsHeld' /\ PauseIsLocked'
    <3>1. CASE Unlock(t)
      <4>1. pc'[t] = "idle" /\ ~paused'[t]
        BY <1>1, <1>2, <3>1 DEF Unlock, Goto, Flags, Types
      <4> QED BY <1>1, <2>1, <2>3, <2>4, <4>1 DEF LockIsHeld, PauseIsLocked, Locked
    <3>2. CASE Pause(t) \/ Resume(t)
      <4>1. lock' = lock /\ pc'[t] \in Locked
        BY <1>1, <1>2, <3>2 DEF Pause, Resume, StopBulk, StartBulk, WriteEp, Goto, Flags, Types, Locked
      <4> QED BY <1>1, <1>2, <2>1, <2>3, <2>4, <4>1 DEF LockIsHeld, PauseIsLocked
    <3> QED BY <1>4, <3>1, <3>2
  <2>6. NoStarter'
    <3>1. Reader # t /\ Reader \in Threads
      BY <1>1 DEF Threads
    <3>2. pc'[t] \notin {"read_halt", "read_flow"} /\ pc'[Reader] = pc[Reader]
      BY <1>1, <1>2, <2>1, <2>2, <2>3, <3>1 DEF Goes, Flags, Types, Locked
    <3>3. (NoReadStarts => NoReadStarts') /\ StreamStarting' = StreamStarting
      BY <1>1, <2>3, <3>2 DEF NoReadStarts, StreamStarting
    <3> QED BY <1>2, <2>1, <3>3 DEF NoStarter
  <2>7. TunedHalted'
    <3> SUFFICES ASSUME pc'[t] = "tune", paused'[t], plugged', ~doubt'
                 PROVE  ep' = "halted"
      BY <2>1, <2>4 DEF TunedHalted
    <3>1. Pause(t)
      BY <1>1, <1>2, <1>4 DEF Resume, Unlock, StartBulk, WriteEp, Goto, Flags, Types
    <3>2. WriteEp(t, "halted", "tune", "tune")
      BY <3>1 DEF Pause, StopBulk
    <3> QED BY <1>1, <1>2, <3>2, WriteEpMoves
  <2> QED BY <2>3, <2>5, <2>6, <2>7 DEF PauseInv
<1> QED BY <1>3, <1>4

(* At first every thread is idle and nobody has paused anything.           *)
LEMMA InitPauseInv ==
    ASSUME Init
    PROVE  PauseInv
<1>1. \A t \in Threads : pc[t] \in {"idle", "ended"}
  BY DEF Init
<1>2. \A t \in Callers : ~paused[t]
  BY DEF Init
<1>3. Types
  BY DEF Init, Flags, Types, Places
<1> QED
  BY <1>1, <1>2, <1>3
  DEF PauseInv, LockIsHeld, PauseIsLocked, NoStarter, NoReadStarts, TunedHalted, Locked, Threads, Init

(* Every step of the system preserves the invariant of the pause.          *)
LEMMA StepKeepsPauseInv ==
    ASSUME PauseInv, [Next]_vars
    PROVE  PauseInv'
<1>1. Types
  BY DEF PauseInv
<1>2. CASE UNCHANGED vars
  <2>1. UNCHANGED <<plugged, active, doubt, overlapped, exposed, pc, paused, lock, ep>>
    BY <1>2 DEF vars, device, stream
  <2> QED BY <2>1 DEF PauseInv, Flags, Types, LockIsHeld, PauseIsLocked, NoStarter, NoReadStarts, StreamStarting,
                      TunedHalted
<1>3. CASE ReaderStep \/ Unplug
  BY <1>1, <1>3, ReaderIsQuiet, UnplugIsQuiet, QuietKeepsPauseInv
<1>4. ASSUME NEW t \in Callers, Configure(t) \/ Pause(t) \/ Resume(t) \/ Unlock(t)
      PROVE  PauseInv'
  BY <1>4, LockedStepKeepsPauseInv
<1>5. ASSUME NEW t \in Callers, Start(t) \/ \E n \in 1..MaxChunks : ReadSync(t, n)
      PROVE  PauseInv'
  BY <1>5, StartAndReadKeepPauseInv
<1>6. ASSUME NEW t \in Callers,
             \/ Stop(t) \/ Close(t) \/ Tune(t) \/ ReadStart(t) \/ Read(t) \/ ReadStop(t) \/ ReadReturn(t)
             \/ Join(t) \/ TunerDown(t) \/ CloseHalt(t) \/ Report(t)
      PROVE  PauseInv'
  BY <1>1, <1>6, CallIsQuiet, QuietKeepsPauseInv
<1> QED BY <1>2, <1>3, <1>4, <1>5, <1>6 DEF Next, CallStep

(* The pause of set_frequency and set_gain is ended by no other call that  *)
(* configures or stops and not by the reader that runs, however many       *)
(* threads there are and whatever has failed or overlapped before.  It is  *)
(* not claimed of a pause whose own write failed (doubt), nor of one under *)
(* which a reader starts or a read_sync begins (exposed): those do end it. *)
THEOREM PauseAlwaysHolds == Spec => []PauseHolds
<1>1. Init => PauseInv
  BY InitPauseInv
<1>2. PauseInv /\ [Next]_vars => PauseInv'
  BY StepKeepsPauseInv
<1>3. PauseInv => PauseHolds
  BY DEF PauseInv, TunedHalted, PauseHolds, At
<1> QED BY <1>1, <1>2, <1>3, PTL DEF Spec

-----------------------------------------------------------------------------
(* Sequences of blocks                                                     *)

(* The blocks of a sequence ascend.                                        *)
Ascending(s) == \A i, j \in DOMAIN s : i < j => s[i] < s[j]

(* One more block at the end of a sequence.                                *)
LEMMA OneMore ==
    ASSUME NEW s \in Seq(Nat), NEW b \in Nat
    PROVE  /\ Append(s, b) \in Seq(Nat) /\ Append(s, b) # <<>>
           /\ ToSet(Append(s, b)) = ToSet(s) \cup {b}
           /\ IsInjective(s) /\ b \notin ToSet(s) => IsInjective(Append(s, b))
           /\ Ascending(s) /\ (\A c \in ToSet(s) : c < b) => Ascending(Append(s, b))
<1>1. /\ Append(s, b) \in Seq(Nat) /\ Append(s, b) # <<>>
      /\ Len(s) \in Nat /\ DOMAIN s = 1..Len(s) /\ DOMAIN Append(s, b) = 1..Len(s) + 1
      /\ \A i \in 1..Len(s) : Append(s, b)[i] = s[i]
      /\ Append(s, b)[Len(s) + 1] = b
  BY AppendProperties, LenProperties
<1>2. ToSet(Append(s, b)) = ToSet(s) \cup {b}
  <2>1. ASSUME NEW i \in 1..Len(s) + 1
        PROVE  i \in 1..Len(s) \/ i = Len(s) + 1
    BY <1>1
  <2>2. 1..Len(s) \subseteq 1..Len(s) + 1 /\ Len(s) + 1 \in 1..Len(s) + 1
    BY <1>1
  <2> QED BY Zenon, <1>1, <2>1, <2>2 DEF ToSet
<1>3. ASSUME IsInjective(s), b \notin ToSet(s)
      PROVE  IsInjective(Append(s, b))
  <2>1. \A i \in 1..Len(s) : s[i] # b
    BY <1>1, <1>3 DEF ToSet
  <2> QED BY <1>1, <1>3, <2>1 DEF IsInjective
<1>4. ASSUME Ascending(s), \A c \in ToSet(s) : c < b
      PROVE  Ascending(Append(s, b))
  <2>1. \A i \in 1..Len(s) : s[i] < b
    BY <1>1, <1>4 DEF ToSet
  <2> QED BY <1>1, <1>4, <2>1 DEF Ascending
<1> QED BY <1>1, <1>2, <1>3, <1>4

(* One sequence after the other.                                           *)
LEMMA OneAfterTheOther ==
    ASSUME NEW s \in Seq(Nat), NEW r \in Seq(Nat)
    PROVE  /\ s \o r \in Seq(Nat)
           /\ ToSet(s \o r) = ToSet(s) \cup ToSet(r)
           /\ IsInjective(s) /\ IsInjective(r) /\ ToSet(s) \cap ToSet(r) = {} => IsInjective(s \o r)
           /\ /\ Ascending(s) /\ Ascending(r)
              /\ \A b \in ToSet(s), c \in ToSet(r) : b < c
              => Ascending(s \o r)
<1>1. /\ s \o r \in Seq(Nat)
      /\ Len(s) \in Nat /\ DOMAIN s = 1..Len(s) /\ Len(r) \in Nat /\ DOMAIN r = 1..Len(r)
      /\ DOMAIN (s \o r) = 1..Len(s) + Len(r)
      /\ \A i \in 1..Len(s) + Len(r) :
            (s \o r)[i] = IF i <= Len(s) THEN s[i] ELSE r[i - Len(s)]
  BY ConcatProperties, LenProperties
<1> DEFINE cat == s \o r
<1> HIDE DEF cat
<1>2. \A i \in DOMAIN cat : \/ i \in DOMAIN s /\ cat[i] = s[i]
                            \/ i > Len(s) /\ i - Len(s) \in DOMAIN r /\ cat[i] = r[i - Len(s)]
  <2> SUFFICES ASSUME NEW i \in 1..Len(s) + Len(r)
               PROVE  \/ i \in DOMAIN s /\ cat[i] = s[i]
                      \/ i > Len(s) /\ i - Len(s) \in DOMAIN r /\ cat[i] = r[i - Len(s)]
    BY <1>1 DEF cat
  <2>1. cat[i] = IF i <= Len(s) THEN s[i] ELSE r[i - Len(s)]
    BY <1>1 DEF cat
  <2>2. i <= Len(s) => i \in DOMAIN s
    BY <1>1
  <2>3. i > Len(s) => i - Len(s) \in DOMAIN r
    BY <1>1
  <2>4. i <= Len(s) \/ (i > Len(s) /\ ~(i <= Len(s)))
    BY <1>1
  <2> QED BY <2>1, <2>2, <2>3, <2>4
<1>3. \A i \in DOMAIN s : i \in DOMAIN cat /\ cat[i] = s[i]
  BY <1>1 DEF cat
<1>4. \A i \in DOMAIN r : i + Len(s) \in DOMAIN cat /\ cat[i + Len(s)] = r[i]
  <2> SUFFICES ASSUME NEW i \in DOMAIN r
               PROVE  i + Len(s) \in DOMAIN cat /\ cat[i + Len(s)] = r[i]
    OBVIOUS
  <2>1. i + Len(s) \in 1..Len(s) + Len(r) /\ ~(i + Len(s) <= Len(s)) /\ (i + Len(s)) - Len(s) = i
    BY <1>1
  <2> QED BY <1>1, <2>1 DEF cat
<1>5. ToSet(cat) = ToSet(s) \cup ToSet(r)
  <2>1. ASSUME NEW i \in DOMAIN cat
        PROVE  cat[i] \in ToSet(s) \cup ToSet(r)
    BY <1>2 DEF ToSet
  <2>2. ASSUME NEW i \in DOMAIN s
        PROVE  s[i] \in ToSet(cat)
    BY <1>3 DEF ToSet
  <2>3. ASSUME NEW i \in DOMAIN r
        PROVE  r[i] \in ToSet(cat)
    BY <1>4 DEF ToSet
  <2>4. ToSet(s) \subseteq ToSet(cat) /\ ToSet(r) \subseteq ToSet(cat)
    BY Zenon, <2>2, <2>3 DEF ToSet
  <2>5. ToSet(cat) \subseteq ToSet(s) \cup ToSet(r)
    <3>1. ASSUME NEW b \in ToSet(cat)
          PROVE  b \in ToSet(s) \cup ToSet(r)
      <4>1. PICK i \in DOMAIN cat : b = cat[i]
        BY Zenon DEF ToSet
      <4> QED BY <2>1, <4>1
    <3> QED BY <3>1
  <2> QED BY <2>4, <2>5
<1>6. DOMAIN cat \subseteq Int /\ DOMAIN s \subseteq Int /\ \A i \in DOMAIN s : i <= Len(s)
  BY <1>1 DEF cat
<1>7. ASSUME IsInjective(s), IsInjective(r), ToSet(s) \cap ToSet(r) = {}
      PROVE  IsInjective(cat)
  <2>1. \A i \in DOMAIN s, j \in DOMAIN r : s[i] # r[j]
    BY <1>7 DEF ToSet
  <2> SUFFICES ASSUME NEW i \in DOMAIN cat, NEW j \in DOMAIN cat, cat[i] = cat[j]
               PROVE  i = j
    BY DEF IsInjective
  <2>2. CASE i \in DOMAIN s /\ cat[i] = s[i]
    BY <1>2, <1>7, <2>1, <2>2 DEF IsInjective
  <2>3. CASE i - Len(s) \in DOMAIN r /\ cat[i] = r[i - Len(s)]
    <3>1. j - Len(s) \in DOMAIN r /\ cat[j] = r[j - Len(s)]
      BY <1>2, <2>1, <2>3
    <3>2. i - Len(s) = j - Len(s)
      BY <1>7, <2>3, <3>1 DEF IsInjective
    <3> QED BY <1>1, <1>6, <3>2
  <2> QED BY <1>2, <2>2, <2>3
<1>8. ASSUME Ascending(s), Ascending(r), \A b \in ToSet(s), c \in ToSet(r) : b < c
      PROVE  Ascending(cat)
  <2>1. \A i \in DOMAIN s, j \in DOMAIN r : s[i] < r[j]
    BY <1>8 DEF ToSet
  <2> SUFFICES ASSUME NEW i \in DOMAIN cat, NEW j \in DOMAIN cat, i < j
               PROVE  cat[i] < cat[j]
    BY DEF Ascending
  <2>2. CASE j \in DOMAIN s /\ cat[j] = s[j]
    <3>1. i \in DOMAIN s /\ cat[i] = s[i]
      BY <1>1, <1>2, <1>6, <2>2
    <3> QED BY <1>8, <2>2, <3>1 DEF Ascending
  <2>3. CASE j > Len(s) /\ j - Len(s) \in DOMAIN r /\ cat[j] = r[j - Len(s)]
    <3>1. CASE i \in DOMAIN s /\ cat[i] = s[i]
      BY <2>1, <2>3, <3>1
    <3>2. CASE i > Len(s) /\ i - Len(s) \in DOMAIN r /\ cat[i] = r[i - Len(s)]
      <4>1. i - Len(s) < j - Len(s)
        BY <1>1, <1>6
      <4> QED BY <1>8, <2>3, <3>2, <4>1 DEF Ascending
    <3> QED BY <1>2, <3>1, <3>2
  <2> QED BY <1>2, <2>2, <2>3
<1> QED BY <1>1, <1>5, <1>7, <1>8 DEF cat

-----------------------------------------------------------------------------
(* The blocks                                                              *)

\* Where a thread's buffer may hold blocks
Holding == {"read", "read_stop", "return", "back"}

BlockTypes ==
    /\ pc \in [Threads -> Places]
    /\ active \in BOOLEAN
    /\ sent \in Nat
    /\ ring \in Seq(Nat) /\ taken \in Seq(Nat)
    /\ got \in [Threads -> Seq(Nat)]
    /\ result \in [Threads -> {"ok", "error"}]

\* Only a bulk_read that has not returned has blocks.
BufferFits == \A t \in Threads : got[t] # <<>> => pc[t] \in Holding

\* A bulk_read that reports an error has brought nothing.
ResultFits == \A t \in Threads : result[t] = "error" => got[t] = <<>> /\ pc[t] \in Holding \ {"read"}

\* What the reader has in its buffer is newer than the ring.
ReaderFits ==
    /\ active \/ pc[Reader] = "ended"
    /\ Ascending(got[Reader])
    /\ \A b \in ToSet(ring), c \in ToSet(got[Reader]) : b < c

BlockInv == BlockTypes /\ BlocksAccounted /\ BufferFits /\ ResultFits /\ ReaderFits

\* Where block b is
IsKept(b) == b \in ToSet(ring) \/ b \in ToSet(taken) \/ \E u \in Threads : b \in ToSet(got[u])

(* A block is kept exactly if the device has handed it over.               *)
LEMMA KeptAreSent ==
    ASSUME BlocksAccounted
    PROVE  \A b : IsKept(b) <=> b \in 1..sent
<1>1. ToSet(ring) \cup ToSet(taken) \cup UNION {ToSet(got[t]) : t \in Threads} = 1..sent
  BY DEF BlocksAccounted
<1> QED BY Zenon, <1>1 DEF IsKept

(* A step that moves no block and takes no thread from its bulk_read but   *)
(* to its return.                                                          *)
Still ==
    /\ UNCHANGED <<sent, ring, taken, got, result>>
    /\ pc' \in [Threads -> Places] /\ active' \in BOOLEAN
    /\ active' \/ pc'[Reader] = "ended"
    /\ \A t \in Threads :
        /\ pc[t] \in Holding => pc'[t] \in Holding
        /\ pc[t] \in Holding \ {"read"} => pc'[t] \in Holding \ {"read"}

(* Still steps preserve the invariant.                                     *)
LEMMA StillKeepsBlockInv ==
    ASSUME BlockInv, Still
    PROVE  BlockInv'
<1>1. BlockTypes'
  BY DEF BlockInv, BlockTypes, Still
<1>2. BlocksAccounted'
  BY DEF BlockInv, BlocksAccounted, Still
<1>3. BufferFits' /\ ResultFits'
  BY DEF BlockInv, BufferFits, ResultFits, Still
<1>4. ReaderFits'
  BY DEF BlockInv, ReaderFits, Still
<1> QED BY <1>1, <1>2, <1>3, <1>4 DEF BlockInv

(* A block that arrives is new to everyone.                                *)
LEMMA ArrivalKeepsAccount ==
    ASSUME BlockTypes, BlocksAccounted, NEW t \in Threads,
           sent' = sent + 1, got' = [got EXCEPT ![t] = Append(@, sent + 1)], UNCHANGED <<ring, taken>>
    PROVE  BlocksAccounted'
<1> DEFINE new == sent + 1
<1>1. sent \in Nat /\ new \in Nat /\ new \notin 1..sent /\ 1..sent' = 1..sent \cup {new}
  BY DEF BlockTypes
<1> HIDE DEF new
<1>2. \A b : IsKept(b) <=> b \in 1..sent
  BY KeptAreSent
<1>3. ~IsKept(new)
  BY <1>1, <1>2
<1>4. got[t] \in Seq(Nat) /\ IsInjective(got[t])
  BY DEF BlockTypes, BlocksAccounted
<1>5. /\ got'[t] = Append(got[t], new)
      /\ \A u \in Threads : u # t => got'[u] = got[u]
  BY DEF BlockTypes, new
<1>6. ToSet(got'[t]) = ToSet(got[t]) \cup {new} /\ IsInjective(got'[t])
  BY Zenon, <1>1, <1>3, <1>4, <1>5, OneMore DEF IsKept
<1>7. \A u \in Threads : \A b : b \in ToSet(got'[u]) <=> b \in ToSet(got[u]) \/ (u = t /\ b = new)
  BY Zenon, <1>5, <1>6
<1>8. \A b : IsKept(b)' <=> IsKept(b) \/ b = new
  BY Zenon, <1>7 DEF IsKept
<1>9. ToSet(ring') \cup ToSet(taken') \cup UNION {ToSet(got'[u]) : u \in Threads} = 1..sent'
  <2>1. \A b : IsKept(b)' <=> b \in 1..sent'
    BY <1>1, <1>2, <1>8
  <2> QED BY Zenon, <2>1 DEF IsKept
<1>10. \A u \in Threads :
          /\ IsInjective(got'[u])
          /\ ToSet(got'[u]) \cap (ToSet(ring) \cup ToSet(taken)) = {}
          /\ \A v \in Threads \ {u} : ToSet(got'[u]) \cap ToSet(got'[v]) = {}
  <2> SUFFICES ASSUME NEW u \in Threads
               PROVE  /\ IsInjective(got'[u])
                      /\ ToSet(got'[u]) \cap (ToSet(ring) \cup ToSet(taken)) = {}
                      /\ \A v \in Threads \ {u} : ToSet(got'[u]) \cap ToSet(got'[v]) = {}
    OBVIOUS
  <2>1. IsInjective(got'[u])
    BY <1>5, <1>6 DEF BlocksAccounted
  <2>2. ToSet(got'[u]) \cap (ToSet(ring) \cup ToSet(taken)) = {}
    <3>1. ToSet(got[u]) \cap (ToSet(ring) \cup ToSet(taken)) = {}
      BY DEF BlocksAccounted
    <3> QED BY Zenon, <1>3, <1>7, <3>1 DEF IsKept
  <2>3. ASSUME NEW v \in Threads \ {u}
        PROVE  ToSet(got'[u]) \cap ToSet(got'[v]) = {}
    <3>1. ToSet(got[u]) \cap ToSet(got[v]) = {}
      BY DEF BlocksAccounted
    <3>2. new \notin ToSet(got[u]) /\ new \notin ToSet(got[v])
      BY <1>3 DEF IsKept
    <3> QED BY Zenon, <1>7, <3>1, <3>2
  <2> QED BY <2>1, <2>2, <2>3
<1>11. /\ IsInjective(taken) /\ ToSet(ring) \cap ToSet(taken) = {}
       /\ \A i, j \in DOMAIN ring : i < j => ring[i] < ring[j]
  BY DEF BlocksAccounted
<1> QED BY <1>9, <1>10, <1>11 DEF BlocksAccounted

(* A buffer that is emptied into the ring or into the caller's hands.      *)
LEMMA DeliveryKeepsAccount ==
    ASSUME BlockTypes, BlocksAccounted, NEW t \in Threads,
           got' = [got EXCEPT ![t] = <<>>], UNCHANGED sent,
           \/ /\ ring' = ring \o got[t] /\ taken' = taken
              /\ Ascending(got[t])
              /\ \A b \in ToSet(ring), c \in ToSet(got[t]) : b < c
           \/ taken' = taken \o got[t] /\ ring' = ring
           \/ got[t] = <<>> /\ UNCHANGED <<ring, taken>>
    PROVE  BlocksAccounted'
<1>1. /\ ring \in Seq(Nat) /\ taken \in Seq(Nat) /\ got[t] \in Seq(Nat)
      /\ ToSet(<<>>) = {} /\ IsInjective(<<>>)
  BY DEF BlockTypes, ToSet, IsInjective
<1>2. \A b : IsKept(b) <=> b \in 1..sent
  BY KeptAreSent
<1>3. /\ got'[t] = <<>>
      /\ \A u \in Threads : u # t => got'[u] = got[u]
  BY DEF BlockTypes
<1>4. /\ IsInjective(taken) /\ Ascending(ring) /\ IsInjective(got[t])
      /\ ToSet(ring) \cap ToSet(taken) = {}
      /\ ToSet(got[t]) \cap (ToSet(ring) \cup ToSet(taken)) = {}
  BY Zenon DEF BlocksAccounted, Ascending
<1>5. /\ ToSet(ring') \cup ToSet(taken') = ToSet(ring) \cup ToSet(taken) \cup ToSet(got[t])
      /\ ToSet(ring') \cap ToSet(taken') = {}
      /\ IsInjective(taken') /\ Ascending(ring')
  <2>1. CASE /\ ring' = ring \o got[t] /\ taken' = taken
             /\ Ascending(got[t])
             /\ \A b \in ToSet(ring), c \in ToSet(got[t]) : b < c
    <3>1. ToSet(ring') = ToSet(ring) \cup ToSet(got[t]) /\ Ascending(ring')
      BY Zenon, <1>1, <1>4, <2>1, OneAfterTheOther
    <3> QED BY Zenon, <1>4, <2>1, <3>1
  <2>2. CASE taken' = taken \o got[t] /\ ring' = ring
    <3>1. ToSet(taken) \cap ToSet(got[t]) = {}
      BY Zenon, <1>4
    <3>2. ToSet(taken') = ToSet(taken) \cup ToSet(got[t]) /\ IsInjective(taken')
      BY Zenon, <1>1, <1>4, <2>2, <3>1, OneAfterTheOther
    <3> QED BY Zenon, <1>4, <2>2, <3>2
  <2>3. CASE got[t] = <<>> /\ UNCHANGED <<ring, taken>>
    <3>1. ToSet(got[t]) = {} /\ ring' = ring /\ taken' = taken
      BY <1>1, <2>3
    <3> QED BY Zenon, <1>4, <3>1
  <2> QED BY <2>1, <2>2, <2>3
<1>6. \A u \in Threads : \A b : b \in ToSet(got'[u]) <=> b \in ToSet(got[u]) /\ u # t
  BY Zenon, <1>1, <1>3
<1>7. ToSet(ring') \cup ToSet(taken') \cup UNION {ToSet(got'[u]) : u \in Threads} = 1..sent'
  <2>1. \A b : IsKept(b)' <=> IsKept(b)
    BY Zenon, <1>5, <1>6 DEF IsKept
  <2>2. \A b : IsKept(b)' <=> b \in 1..sent'
    BY <1>2, <2>1
  <2> QED BY Zenon, <2>2 DEF IsKept
<1>8. ASSUME NEW u \in Threads
      PROVE  /\ IsInjective(got'[u])
             /\ ToSet(got'[u]) \cap (ToSet(ring') \cup ToSet(taken')) = {}
             /\ \A v \in Threads \ {u} : ToSet(got'[u]) \cap ToSet(got'[v]) = {}
  <2>1. IsInjective(got'[u])
    BY <1>1, <1>3 DEF BlocksAccounted
  <2>2. ToSet(got'[u]) \cap (ToSet(ring') \cup ToSet(taken')) = {}
    <3>1. CASE u = t
      BY Zenon, <1>6, <3>1
    <3>2. CASE u # t
      <4>1. /\ ToSet(got[u]) \cap (ToSet(ring) \cup ToSet(taken)) = {}
            /\ ToSet(got[u]) \cap ToSet(got[t]) = {}
        BY <3>2 DEF BlocksAccounted
      <4> QED BY Zenon, <1>5, <1>6, <4>1
    <3> QED BY <3>1, <3>2
  <2>3. ASSUME NEW v \in Threads \ {u}
        PROVE  ToSet(got'[u]) \cap ToSet(got'[v]) = {}
    <3>1. ToSet(got[u]) \cap ToSet(got[v]) = {}
      BY DEF BlocksAccounted
    <3> QED BY Zenon, <1>6, <3>1
  <2> QED BY <2>1, <2>2, <2>3
<1> QED BY <1>5, <1>7, <1>8 DEF BlocksAccounted, Ascending

(* A round of bulk_read: a block more in the buffer, or the end of the     *)
(* call, with an error only if the buffer is empty.                        *)
LEMMA ChunkKeepsBlockInv ==
    ASSUME BlockInv, NEW t \in Threads, NEW next \in {"read_stop", "back"},
           pc[t] = "read", BulkChunk(t, next), UNCHANGED <<ring, taken, active>>
    PROVE  BlockInv'
<1> DEFINE Ends == pc' = [pc EXCEPT ![t] = next]
           Arrives == sent' = sent + 1 /\ got' = [got EXCEPT ![t] = Append(@, sent + 1)]
           Rests == sent' = sent /\ got' = got
<1>1. BlockTypes /\ BlocksAccounted /\ BufferFits /\ ResultFits /\ ReaderFits
  BY DEF BlockInv
<1>2. next \in Places /\ next \in Holding \ {"read"} /\ "read" \in Holding /\ next # "ended"
  BY DEF Places, Holding
<1>3. result[t] = "ok"
  BY <1>1 DEF ResultFits, BlockTypes
<1>4. \/ Arrives /\ (pc' = pc \/ Ends) /\ (result' = result \/ result' = [result EXCEPT ![t] = "ok"])
      \/ Rests /\ Ends /\ \/ result' = [result EXCEPT ![t] = "ok"]
                          \/ result' = [result EXCEPT ![t] = RcOfFailure(got[t])]
  BY DEF BulkChunk, Done, Goto, Vanished, device, removal
<1>5. /\ Arrives \/ Rests
      /\ pc' \in [Threads -> Places] /\ result' \in [Threads -> {"ok", "error"}]
      /\ \A u \in Threads : u # t => pc'[u] = pc[u] /\ result'[u] = result[u]
      /\ pc'[t] \in Holding
      /\ result'[t] = "error" => Rests /\ got[t] = <<>> /\ pc'[t] = next
  BY <1>1, <1>2, <1>3, <1>4 DEF BlockTypes, RcOfFailure
<1>6. /\ got' \in [Threads -> Seq(Nat)] /\ sent' \in Nat
      /\ \A u \in Threads : u # t => got'[u] = got[u]
      /\ Rests \/ got'[t] = Append(got[t], sent + 1)
  <2>1. CASE Rests
    BY <1>1, <2>1 DEF BlockTypes
  <2>2. CASE Arrives
    <3>1. Append(got[t], sent + 1) \in Seq(Nat) /\ sent + 1 \in Nat
      BY <1>1, AppendProperties DEF BlockTypes
    <3> QED BY <1>1, <2>2, <3>1 DEF BlockTypes
  <2> QED BY <1>5, <2>1, <2>2
<1> HIDE DEF Ends, Arrives
<1>7. BlockTypes'
  BY <1>1, <1>5, <1>6 DEF BlockTypes
<1>8. BlocksAccounted'
  <2>1. CASE Rests
    BY <1>1, <2>1 DEF BlocksAccounted
  <2>2. CASE Arrives
    BY <1>1, <2>2, ArrivalKeepsAccount DEF Arrives
  <2> QED BY <1>5, <2>1, <2>2
<1>9. BufferFits'
  BY <1>1, <1>5, <1>6 DEF BufferFits
<1>10. ResultFits'
  BY <1>1, <1>2, <1>5, <1>6 DEF ResultFits
<1>11. ReaderFits'
  <2>1. active' \/ pc'[Reader] = "ended"
    BY <1>1, <1>5 DEF ReaderFits, Threads, Holding
  <2>2. CASE got'[Reader] = got[Reader]
    BY <1>1, <2>1, <2>2 DEF ReaderFits
  <2>3. CASE t = Reader /\ got'[t] = Append(got[t], sent + 1)
    <3>1. got[t] \in Seq(Nat) /\ sent + 1 \in Nat
      BY <1>1 DEF BlockTypes
    <3>2. \A b : IsKept(b) <=> b \in 1..sent
      BY <1>1, KeptAreSent
    <3>3. \A b : IsKept(b) => b < sent + 1
      BY <1>1, <3>2 DEF BlockTypes
    <3>4. /\ \A b \in ToSet(ring) : b < sent + 1
          /\ \A b \in ToSet(got[t]) : b < sent + 1
      BY <3>3 DEF IsKept
    <3>5. Ascending(got'[t]) /\ ToSet(got'[t]) = ToSet(got[t]) \cup {sent + 1}
      BY <1>1, <2>3, <3>1, <3>4, OneMore DEF ReaderFits
    <3>6. \A b \in ToSet(ring), c \in ToSet(got'[t]) : b < c
      BY <1>1, <2>3, <3>4, <3>5 DEF ReaderFits
    <3> QED BY <2>1, <2>3, <3>5, <3>6 DEF ReaderFits
  <2> QED BY <1>6, <2>2, <2>3 DEF Threads
<1> QED BY <1>7, <1>8, <1>9, <1>10, <1>11 DEF BlockInv

(* The reader's delivery and the return of read_sync: the buffer is empty  *)
(* if there was an error, and is handed over if there was none.            *)
LEMMA DeliveryKeepsBlockInv ==
    ASSUME BlockInv, ReaderBack \/ \E t \in Callers : ReadReturn(t)
    PROVE  BlockInv'
<1>1. BlockTypes /\ BlocksAccounted /\ BufferFits /\ ResultFits /\ ReaderFits
  BY DEF BlockInv
<1>2. Reader \in Threads /\ Callers \subseteq Threads /\ Reader \notin Callers
  BY BulkEndpointAssumption DEF Threads
<1>3. PICK t \in Threads, place \in {"idle", "ended", "top"} :
          /\ pc[t] \in {"return", "back"} /\ pc' = [pc EXCEPT ![t] = place]
          /\ got' = [got EXCEPT ![t] = <<>>] /\ result' = [result EXCEPT ![t] = "ok"]
          /\ UNCHANGED <<sent, active>>
          /\ \/ result[t] = "ok" /\ t = Reader /\ ring' = ring \o got[t] /\ taken' = taken
             \/ result[t] = "ok" /\ t # Reader /\ taken' = taken \o got[t] /\ ring' = ring
             \/ result[t] # "ok" /\ UNCHANGED <<ring, taken>>
  <2>1. CASE ReaderBack
    <3>1. PICK place \in {"ended", "top"} : pc' = [pc EXCEPT ![Reader] = place]
      BY <2>1 DEF ReaderBack, Goto
    <3>2. /\ pc[Reader] = "back"
          /\ got' = [got EXCEPT ![Reader] = <<>>] /\ result' = [result EXCEPT ![Reader] = "ok"]
          /\ UNCHANGED <<sent, active, taken>>
          /\ IF result[Reader] = "ok" THEN ring' = ring \o got[Reader] ELSE ring' = ring
      BY <2>1 DEF ReaderBack, At, device
    <3> QED BY <1>2, <3>1, <3>2
  <2>2. ASSUME NEW t \in Callers, ReadReturn(t)
        PROVE  /\ pc[t] = "return" /\ pc' = [pc EXCEPT ![t] = "idle"]
               /\ got' = [got EXCEPT ![t] = <<>>] /\ result' = [result EXCEPT ![t] = "ok"]
               /\ UNCHANGED <<sent, active, ring>>
               /\ IF result[t] = "ok" THEN taken' = taken \o got[t] ELSE taken' = taken
    BY <2>2 DEF ReadReturn, At, Goto, device, stream
  <2>3. CASE \E t \in Callers : ReadReturn(t)
    <3>1. PICK t \in Callers : ReadReturn(t)
      BY <2>3
    <3> QED BY <1>2, <2>2, <3>1
  <2> QED BY <2>1, <2>3
<1>4. /\ got[t] \in Seq(Nat) /\ <<>> \in Seq(Nat) /\ ToSet(<<>>) = {} /\ Ascending(<<>>)
      /\ place \in Places /\ place \notin Holding /\ pc[t] # "ended"
  BY <1>1, <1>3 DEF BlockTypes, ToSet, Ascending, Places, Holding
<1>5. /\ got'[t] = <<>> /\ pc'[t] = place /\ result'[t] = "ok"
      /\ \A u \in Threads : u # t => got'[u] = got[u] /\ pc'[u] = pc[u] /\ result'[u] = result[u]
  BY <1>1, <1>3 DEF BlockTypes
<1>6. result[t] # "ok" => got[t] = <<>>
  BY <1>1 DEF ResultFits, BlockTypes
<1>7. BlockTypes'
  <2>1. ring \o got[t] \in Seq(Nat) /\ taken \o got[t] \in Seq(Nat)
    BY <1>1, <1>4, ConcatProperties DEF BlockTypes
  <2>2. ring' \in Seq(Nat) /\ taken' \in Seq(Nat)
    BY <1>1, <1>3, <2>1 DEF BlockTypes
  <2> QED BY <1>1, <1>3, <1>4, <2>2 DEF BlockTypes
<1>8. BlocksAccounted'
  <2>1. t = Reader => /\ Ascending(got[t])
                      /\ \A b \in ToSet(ring), c \in ToSet(got[t]) : b < c
    BY <1>1 DEF ReaderFits
  <2> QED BY <1>1, <1>3, <1>6, <2>1, DeliveryKeepsAccount
<1>9. BufferFits' /\ ResultFits'
  BY <1>1, <1>5 DEF BufferFits, ResultFits
<1>10. ReaderFits'
  <2>1. active' \/ pc'[Reader] = "ended"
    BY <1>1, <1>2, <1>3, <1>4, <1>5 DEF ReaderFits
  <2>2. CASE t = Reader
    BY <1>4, <1>5, <2>1, <2>2 DEF ReaderFits
  <2>3. CASE t # Reader
    <3>1. ring' = ring /\ got'[Reader] = got[Reader]
      BY <1>2, <1>3, <1>5, <2>3
    <3> QED BY <1>1, <2>1, <3>1 DEF ReaderFits
  <2> QED BY <2>2, <2>3
<1> QED BY <1>7, <1>8, <1>9, <1>10 DEF BlockInv

(* Thread t goes where it holds no less, and the reader where it may.      *)
LEMMA GoingIsStill ==
    ASSUME BlockInv, NEW t \in Threads, NEW places \in SUBSET Places, Goes(t, places),
           UNCHANGED <<sent, ring, taken, got, result>>,
           active' \in BOOLEAN, active' \/ pc'[Reader] = "ended",
           pc[t] \notin Holding \/ pc' = pc \/ (pc[t] = "read_stop" /\ places \subseteq Holding \ {"read"})
    PROVE  Still
<1>1. BlockTypes
  BY DEF BlockInv
<1>2. /\ pc' \in [Threads -> Places]
      /\ \A u \in Threads : u # t => pc'[u] = pc[u]
      /\ pc'[t] = pc[t] \/ pc'[t] \in places
  <2>1. CASE pc' = pc
    BY <1>1, <2>1 DEF BlockTypes
  <2>2. CASE \E place \in places : pc' = [pc EXCEPT ![t] = place]
    BY <1>1, <2>2 DEF BlockTypes
  <2> QED BY <2>1, <2>2 DEF Goes
<1>3. ASSUME NEW u \in Threads
      PROVE  /\ pc[u] \in Holding => pc'[u] \in Holding
             /\ pc[u] \in Holding \ {"read"} => pc'[u] \in Holding \ {"read"}
  BY <1>2
<1> QED BY <1>2, <1>3 DEF Still

(* A control write moves no block.                                         *)
LEMMA WriteMovesNoBlock ==
    ASSUME NEW t, NEW value, NEW ok \in Places, NEW failed \in Places, WriteEp(t, value, ok, failed)
    PROVE  sent' = sent /\ Goes(t, Places)
BY DEF WriteEp, Vanished, Goto, Goes

(* What the threads do beside their bulk reads and deliveries.             *)
LEMMA OthersAreStill ==
    ASSUME BlockInv, Next,
           ~ReaderRead, ~ReaderBack, \A t \in Callers : ~Read(t) /\ ~ReadReturn(t)
    PROVE  Still
<1> USE DEF Holding
<1>1. BlockTypes /\ BufferFits /\ ReaderFits
  BY DEF BlockInv
<1>2. Reader \in Threads /\ Callers \subseteq Threads /\ Reader \notin Callers
  BY BulkEndpointAssumption DEF Threads
<1>0. /\ {"idle", "ended", "halt", "flow", "top", "read", "submit", "wait", "cancel",
        "caught", "stop", "free", "caught_freeing", "read_halt"} \subseteq Places
      /\ {"read_flow", "return", "stop_join", "close_join", "tuner_down", "close_halt"} \subseteq Places
      /\ {"pause", "tune", "resume_halt", "resume_flow", "unlock"} \subseteq Places
  BY DEF Locked, Places
<1>3. CASE ReaderStart \/ ReaderTop \/ ReaderSubmit \/ ReaderWait \/ ReaderCancel \/ ReaderStop
  <2>1. /\ pc[Reader] \notin Holding /\ pc[Reader] # "ended"
        /\ UNCHANGED <<ring, taken, result, active>>
    BY <1>3 DEF ReaderStart, ReaderTop, ReaderSubmit, ReaderWait, ReaderCancel, ReaderReaps, ReaderStop, StartBulk, StopBulk, At,
                stream, reading
  <2>2. sent' = sent /\ Goes(Reader, Places)
    <3>1. CASE ReaderStart \/ ReaderStop
      <4>1. PICK value \in {"halted", "flowing"}, ok \in Places, failed \in Places : WriteEp(Reader, value, ok, failed)
        BY <1>0, <3>1 DEF ReaderStart, ReaderStop, StartBulk, StopBulk
      <4> QED BY <4>1, WriteMovesNoBlock
    <3>2. CASE ReaderTop \/ ReaderSubmit \/ ReaderWait \/ ReaderCancel
      BY <1>0, <3>2 DEF ReaderTop, ReaderSubmit, ReaderWait, ReaderCancel, ReaderReaps, Goto, Goes, device
    <3> QED BY <1>3, <3>1, <3>2
  <2>3. got' = got
    <3>1. got[Reader] = <<>>
      BY <1>1, <1>2, <2>1 DEF BufferFits
    <3>2. got' = got \/ got' = [got EXCEPT ![Reader] = <<>>]
      BY <1>3 DEF ReaderStart, ReaderTop, ReaderSubmit, ReaderWait, ReaderCancel, ReaderReaps, ReaderStop, reading
    <3> QED BY <1>1, <1>2, <3>1, <3>2 DEF BlockTypes
  <2>4. active' = TRUE
    BY <1>1, <2>1 DEF ReaderFits, BlockTypes
  <2> QED BY <1>2, <2>1, <2>2, <2>3, <2>4, GoingIsStill
<1>4. ASSUME NEW t \in Callers,
             \/ Configure(t) \/ Pause(t) \/ Tune(t) \/ Resume(t) \/ Unlock(t)
             \/ \E n \in 1..MaxChunks : ReadSync(t, n)
             \/ ReadStart(t) \/ ReadStop(t) \/ Stop(t) \/ Close(t) \/ TunerDown(t) \/ CloseHalt(t)
      PROVE  Still
  <2>1. /\ pc[t] \notin Holding \/ ReadStop(t)
        /\ UNCHANGED <<ring, taken, result, active>>
    BY <1>4 DEF Configure, Pause, Tune, Resume, Unlock, ReadSync, ReadStart, ReadStop, Stop, Close, TunerDown,
                CloseHalt, StartBulk, StopBulk, Begin, At, stream, reading
  <2>2. sent' = sent /\ Goes(t, Places)
    <3>1. CASE Pause(t) \/ Resume(t) \/ ReadStart(t) \/ ReadStop(t) \/ CloseHalt(t)
      <4>1. PICK value \in {"halted", "flowing"}, ok \in Places, failed \in Places : WriteEp(t, value, ok, failed)
        BY <1>0, <3>1 DEF Pause, Resume, ReadStart, ReadStop, CloseHalt, StartBulk, StopBulk
      <4> QED BY <4>1, WriteMovesNoBlock
    <3>2. CASE Configure(t) \/ Tune(t) \/ Unlock(t) \/ Stop(t) \/ Close(t) \/ TunerDown(t)
      BY <1>0, <3>2 DEF Configure, Tune, AfterTuning, Unlock, Stop, Close, TunerDown, Vanished, Goto, Goes, device
    <3>3. CASE \E n \in 1..MaxChunks : ReadSync(t, n)
      BY <1>0, <3>3 DEF ReadSync, Goto, Goes, device
    <3> QED BY <1>4, <3>1, <3>2, <3>3
  <2>3. got' = got
    <3>1. got' = got \/ (pc[t] = "idle" /\ got' = [got EXCEPT ![t] = <<>>])
      BY <1>4 DEF Configure, Pause, Tune, Resume, Unlock, ReadSync, ReadStart, ReadStop, Stop, Close, TunerDown,
                  CloseHalt, Begin, reading
    <3> QED BY <1>1, <1>2, <3>1 DEF BlockTypes, BufferFits
  <2>4. pc'[Reader] = pc[Reader]
    BY <1>1, <1>2, <2>2 DEF Goes, BlockTypes
  <2>5. active' \in BOOLEAN /\ (active' \/ pc'[Reader] = "ended")
    BY <1>1, <2>1, <2>4 DEF ReaderFits, BlockTypes
  <2>6. CASE ReadStop(t)
    <3>1. pc[t] = "read_stop" /\ WriteEp(t, "halted", "return", "return")
      BY <2>6 DEF ReadStop, StopBulk, At
    <3>2. Goes(t, {"return"})
      BY <3>1 DEF WriteEp, Goto, Goes
    <3> QED BY <1>0, <1>2, <2>1, <2>2, <2>3, <2>5, <3>1, <3>2, GoingIsStill
  <2>7. CASE ~ReadStop(t)
    BY <1>2, <2>1, <2>2, <2>3, <2>5, <2>7, GoingIsStill
  <2> QED BY <2>6, <2>7
<1>5. ASSUME NEW t \in Callers, Start(t)
      PROVE  Still
  <2>1. /\ active' = TRUE /\ ~active /\ pc' = [pc EXCEPT ![Reader] = "halt"]
        /\ UNCHANGED <<sent, ring, taken, got, result>>
    BY <1>5 DEF Start, Goto, device, reading
  <2>2. pc[Reader] \notin Holding /\ Goes(Reader, Places)
    BY <1>0, <1>1, <2>1 DEF ReaderFits, Goes
  <2> QED BY <1>2, <2>1, <2>2, GoingIsStill
<1>6. ASSUME NEW t \in Callers, Join(t)
      PROVE  Still
  <2>1. /\ active' = FALSE /\ pc[Reader] = "ended" /\ pc[t] \notin Holding
        /\ Goes(t, Places)
        /\ UNCHANGED <<sent, ring, taken, got, result>>
    BY <1>0, <1>6 DEF Join, At, Goto, Goes, device, reading
  <2>2. pc'[Reader] = "ended"
    BY <1>1, <1>2, <2>1 DEF Goes, BlockTypes
  <2> QED BY <1>2, <2>1, <2>2, GoingIsStill
<1>7. ASSUME Unplug \/ \E t \in Threads : Report(t)
      PROVE  Still
  <2>1. UNCHANGED <<sent, ring, taken, got, result, pc, active>>
    BY <1>7 DEF Unplug, Report, device, stream, reading
  <2> QED BY <1>1, <2>1 DEF Still, BlockTypes, ReaderFits
<1> QED BY <1>2, <1>3, <1>4, <1>5, <1>6, <1>7 DEF Next, ReaderStep, CallStep

(* At first there are no blocks.                                           *)
LEMMA InitBlockInv ==
    ASSUME Init
    PROVE  BlockInv
<1>1. /\ sent = 0 /\ ring = <<>> /\ taken = <<>> /\ active = FALSE
      /\ \A t \in Threads : got[t] = <<>> /\ result[t] = "ok"
      /\ pc[Reader] = "ended" /\ Reader \in Threads
  BY DEF Init, Threads
<1>2. BlockTypes
  <2>1. {"idle", "ended"} \subseteq Places /\ <<>> \in Seq(Nat) /\ 0 \in Nat
    BY DEF Places
  <2>2. /\ pc = [t \in Threads |-> IF t = Reader THEN "ended" ELSE "idle"]
        /\ got = [t \in Threads |-> <<>>] /\ result = [t \in Threads |-> "ok"]
    BY DEF Init
  <2>3. pc \in [Threads -> Places]
    BY <2>1, <2>2
  <2> QED BY <1>1, <2>1, <2>2, <2>3 DEF BlockTypes
<1>3. ToSet(<<>>) = {} /\ IsInjective(<<>>) /\ 1..0 = {}
  BY DEF ToSet, IsInjective
<1>4. BlocksAccounted
  BY <1>1, <1>3 DEF BlocksAccounted
<1>5. BufferFits /\ ResultFits
  BY <1>1 DEF BufferFits, ResultFits
<1>6. ReaderFits
  BY <1>1, <1>3 DEF ReaderFits, Ascending
<1> QED BY <1>2, <1>4, <1>5, <1>6 DEF BlockInv

(* No block is lost, duplicated or reordered between the device and the    *)
(* ring or the caller of read_sync, whatever transfers fail: the loop of   *)
(* usb::bulk_read, the reader's delivery and read_sync's return, for any   *)
(* number of threads, blocks and chunks.                                   *)
THEOREM BlocksAlwaysAccounted == Spec => []BlocksAccounted
<1>1. Init => BlockInv
  BY InitBlockInv
<1>2. BlockInv /\ [Next]_vars => BlockInv'
  <2> SUFFICES ASSUME BlockInv, [Next]_vars
               PROVE  BlockInv'
    OBVIOUS
  <2>1. CASE UNCHANGED vars
    <3>1. UNCHANGED <<sent, ring, taken, got, result, pc, active>>
      BY <2>1 DEF vars, device, stream, reading
    <3>2. Still
      BY <3>1 DEF Still, BlockInv, BlockTypes, ReaderFits
    <3> QED BY <3>2, StillKeepsBlockInv
  <2>2. CASE ReaderRead
    <3>1. /\ pc[Reader] = "read" /\ BulkChunk(Reader, "back") /\ Reader \in Threads
          /\ UNCHANGED <<ring, taken, active>>
      BY <2>2 DEF ReaderRead, At, Threads, stream
    <3> QED BY <3>1, ChunkKeepsBlockInv
  <2>3. ASSUME NEW t \in Callers, Read(t)
        PROVE  BlockInv'
    <3>1. /\ pc[t] = "read" /\ BulkChunk(t, "read_stop") /\ t \in Threads
          /\ UNCHANGED <<ring, taken, active>>
      BY <2>3 DEF Read, At, Threads, stream
    <3> QED BY <3>1, ChunkKeepsBlockInv
  <2>4. CASE ReaderBack \/ \E t \in Callers : ReadReturn(t)
    BY <2>4, DeliveryKeepsBlockInv
  <2>5. CASE Next /\ ~ReaderRead /\ ~ReaderBack /\ \A t \in Callers : ~Read(t) /\ ~ReadReturn(t)
    BY <2>5, OthersAreStill, StillKeepsBlockInv
  <2> QED BY <2>1, <2>2, <2>3, <2>4, <2>5
<1>3. BlockInv => BlocksAccounted
  BY DEF BlockInv
<1> QED BY <1>1, <1>2, <1>3, PTL DEF Spec

-----------------------------------------------------------------------------
(* The endpoint and the stream                                             *)

\* Where the R820T's reader has its endpoint flowing, and where it has it so or is about to
\* halt it
Flowing == {"submit", "wait", "cancel", "caught"}
Receiving == Flowing \cup {"stop"}

USE DEF Flowing, Receiving

\* Where a caller uses the endpoint for itself
Alone == {"read_halt", "read_flow", "read", "read_stop", "tuner_down", "close_halt"}

\* Where close is
Closing == {"close_join", "tuner_down", "close_halt"}

\* Where a call has the endpoint to itself once it was paused
Pausing == {"tune", "resume_halt", "resume_flow"}

\* What the places of the threads say of each other
Roles ==
    /\ tuner \in {"R820T", "FC0012"}
    /\ active \/ pc[Reader] = "ended"
    /\ tuner = "FC0012" => pc[Reader] \notin Receiving
    /\ ~overlapped /\ active => \A u \in Callers : pc[u] \notin Alone
    /\ \A u \in Callers : pc[u] \in {"pause", "resume_halt", "resume_flow"} => paused[u]
    /\ tuner = "R820T" => \A u \in Callers : ~paused[u]
    /\ \A u \in Callers : pc[u] \in Closing => ~open /\ \A v \in Callers : v # u => pc[v] = "idle"
    /\ ~open => \A u \in Callers : pc[u] \in Closing \cup {"idle"}
    /\ ~open /\ (\A u \in Callers : pc[u] # "close_join") => pc[Reader] = "ended"

\* A device that is known or found to be gone is.
GoneIsUnplugged == health = "disconnected" \/ noticing # {} => ~plugged

\* The last write of the endpoint has done what it was to do.
Known == plugged /\ ~doubt

\* The R820T's endpoint flows only for its reader or for a read_sync.
FlowsForSomebody ==
    Known /\ tuner = "R820T" /\ ep = "flowing" =>
        pc[Reader] \in Receiving \/ \E u \in Callers : pc[u] \in {"read", "read_stop"}

\* ... and does flow for its reader.
FlowsForStream ==
    Known /\ tuner = "R820T" /\ ~overlapped /\ pc[Reader] \in Flowing => ep = "flowing"

\* The FC0012's flows for its reader unless a call has paused it.
FlowsUnlessPaused ==
    /\ Known /\ tuner = "FC0012" /\ ~overlapped /\ active /\ ~StreamStarting
    /\ \A u \in Callers : pc[u] \in Pausing => ~paused[u]
    => ep = "flowing"

\* close has halted it.
HaltedIfClosed == Known /\ ~open /\ (\A u \in Callers : pc[u] = "idle") => ep = "halted"

EpFits == FlowsForSomebody /\ FlowsForStream /\ FlowsUnlessPaused /\ HaltedIfClosed

FollowInv == PauseInv /\ Roles /\ GoneIsUnplugged /\ EpFits

(* A device once gone stays away, and only then is it noticed.             *)
LEMMA StepKeepsGone ==
    ASSUME Types, GoneIsUnplugged, [Next]_vars
    PROVE  GoneIsUnplugged'
<1>1. plugged' => plugged
  <2>1. CASE UNCHANGED vars \/ Unplug
    BY <2>1 DEF vars, device, Unplug
  <2>2. CASE ReaderStep
    <3>1. ReaderStep => plugged' = plugged
      BY DEF ReaderStep, ReaderStart, StartBulk, WriteEp, ReaderTop, ReaderRead, BulkChunk,
             ReaderBack, ReaderSubmit, ReaderWait, ReaderCancel, ReaderReaps, ReaderStop, StopBulk,
             Vanished, Report, device
    <3> QED BY <2>2, <3>1
  <2>3. ASSUME NEW t \in Callers, Configure(t) \/ Start(t) \/ Stop(t) \/ Close(t)
                                  \/ \E n \in 1..MaxChunks : ReadSync(t, n)
        PROVE  plugged' = plugged
    BY <2>3 DEF Configure, Start, Stop, Close, ReadSync, device
  <2>4. ASSUME NEW t \in Callers, CallStep(t)
        PROVE  plugged' = plugged
    BY <2>4 DEF CallStep, Pause, Tune, Resume, Unlock, ReadStart, Read, ReadStop, ReadReturn, Join, TunerDown,
                CloseHalt, StartBulk, StopBulk, WriteEp, BulkChunk, Vanished, Report, device
  <2> QED BY <2>1, <2>2, <2>3, <2>4 DEF Next
<1>2. PICK t \in Threads : Removal(t)
  BY StepIsRemoval
<1>3. CASE UNCHANGED removal
  BY <1>1, <1>3 DEF GoneIsUnplugged, removal
<1>4. CASE Vanished(t)
  BY <1>1, <1>4 DEF Vanished, GoneIsUnplugged
<1>5. CASE Report(t)
  BY <1>1, <1>5 DEF Report, GoneIsUnplugged
<1> QED BY <1>2, <1>3, <1>4, <1>5 DEF Removal

(* What a control write does when it is known to have worked.              *)
LEMMA WriteEpSets ==
    ASSUME Types, NEW t \in Threads, NEW value, NEW ok, NEW failed, WriteEp(t, value, ok, failed)
    PROVE  /\ plugged' = plugged
           /\ pc'[t] \in {ok, failed}
           /\ \A u \in Threads : u # t => pc'[u] = pc[u]
           /\ Known' => ep' = value /\ pc'[t] = ok
BY DEF Types, WriteEp, Vanished, Goto, Known

(* The reader switches the endpoint on as it starts and off as it ends.    *)
LEMMA ReaderFollows ==
    ASSUME Types, Roles, EpFits, ReaderStep
    PROVE  Roles' /\ EpFits'
<1>1. Reader \in Threads /\ Callers \subseteq Threads /\ Reader \notin Callers
  BY BulkEndpointAssumption DEF Threads
<1> DEFINE Rests == /\ UNCHANGED <<ep, doubt, plugged>> /\ pc[Reader] \notin {"halt", "flow"}
                    /\ pc'[Reader] \notin {"halt", "flow"}
                    /\ pc[Reader] \in Receiving <=> pc'[Reader] \in Receiving
                    /\ pc'[Reader] \in Flowing => pc[Reader] \in Flowing
           Starts == /\ pc[Reader] \in {"halt", "flow"}
                     /\ pc'[Reader] \in {"flow", "submit", "ended", "top"}
                     /\ tuner = "FC0012" => pc'[Reader] \in {"flow", "top"}
                     /\ \/ ~Known'
                        \/ ep' = "halted" /\ pc'[Reader] = "flow"
                        \/ /\ ep' = "flowing"
                           /\ pc'[Reader] = IF tuner = "FC0012" THEN "top" ELSE "submit"
           Stops == pc[Reader] = "stop" /\ pc'[Reader] = "free" /\ (Known' => ep' = "halted")
<1>2. /\ UNCHANGED <<tuner, open, active, paused, overlapped>>
      /\ \A u \in Callers : pc'[u] = pc[u]
      /\ pc[Reader] = "ended" => pc'[Reader] = "ended" /\ UNCHANGED <<ep, doubt, plugged>>
      /\ Rests \/ Starts \/ Stops \/ (pc' = pc /\ UNCHANGED <<ep, doubt, plugged>>)
  <2>1. CASE ReaderStart
    <3>1. /\ UNCHANGED <<tuner, open, active, paused, overlapped>>
          /\ \E ok \in {"top", "submit"}, failed \in {"top", "ended"} :
                /\ StartBulk(Reader, "halt", "flow", ok, failed)
                /\ IF tuner = "FC0012" THEN ok = "top" /\ failed = "top" ELSE ok = "submit" /\ failed = "ended"
      BY <2>1 DEF ReaderStart, stream
    <3>2. PICK ok \in {"top", "submit"}, failed \in {"top", "ended"} :
                /\ StartBulk(Reader, "halt", "flow", ok, failed)
                /\ IF tuner = "FC0012" THEN ok = "top" /\ failed = "top" ELSE ok = "submit" /\ failed = "ended"
      BY <3>1
    <3>3. CASE At(Reader, "halt") /\ WriteEp(Reader, "halted", "flow", failed)
      <4>1. /\ pc[Reader] = "halt" /\ plugged' = plugged /\ pc'[Reader] \in {"flow", failed}
            /\ \A u \in Threads : u # Reader => pc'[u] = pc[u]
            /\ Known' => ep' = "halted" /\ pc'[Reader] = "flow"
        BY <1>1, <3>3, WriteEpSets DEF At
      <4>2. Starts
        BY <3>2, <4>1
      <4> QED BY <1>1, <3>1, <4>1, <4>2
    <3>4. CASE At(Reader, "flow") /\ WriteEp(Reader, "flowing", ok, failed)
      <4>1. /\ pc[Reader] = "flow" /\ plugged' = plugged /\ pc'[Reader] \in {ok, failed}
            /\ \A u \in Threads : u # Reader => pc'[u] = pc[u]
            /\ Known' => ep' = "flowing" /\ pc'[Reader] = ok
        BY <1>1, <3>4, WriteEpSets DEF At
      <4>2. Starts
        BY <3>2, <4>1
      <4> QED BY <1>1, <3>1, <4>1, <4>2
    <3> QED BY <3>2, <3>3, <3>4 DEF StartBulk
  <2>2. CASE ReaderStop
    <3>1. /\ pc[Reader] = "stop" /\ WriteEp(Reader, "halted", "free", "free")
          /\ UNCHANGED <<tuner, open, active, paused, overlapped>>
      BY <2>2 DEF ReaderStop, StopBulk, At, stream
    <3>2. /\ pc'[Reader] = "free" /\ \A u \in Threads : u # Reader => pc'[u] = pc[u]
          /\ Known' => ep' = "halted"
      BY <1>1, <3>1, WriteEpSets
    <3>3. Stops
      BY <3>1, <3>2
    <3> QED BY <1>1, <3>1, <3>2, <3>3
  <2>3. CASE ReaderRead
    <3>1. pc[Reader] = "read" /\ BulkChunk(Reader, "back") /\ UNCHANGED <<tuner, open, active, paused, overlapped>>
      BY <2>3 DEF ReaderRead, At, stream
    <3>2. UNCHANGED <<plugged, doubt, ep>> /\ Goes(Reader, {"back"})
      BY <1>1, <3>1, BulkChunkMoves
    <3>3. pc'[Reader] \in {"read", "back"} /\ \A u \in Threads : u # Reader => pc'[u] = pc[u]
      BY <1>1, <3>1, <3>2 DEF Goes, Types
    <3>4. Rests
      BY <3>1, <3>2, <3>3
    <3> QED BY <1>1, <3>1, <3>2, <3>3, <3>4
  <2>4. CASE ReaderTop \/ ReaderBack \/ ReaderSubmit \/ ReaderWait \/ ReaderCancel
    <3>1. UNCHANGED <<tuner, open, active, paused, overlapped, ep, doubt, plugged>>
      BY <2>4 DEF ReaderTop, ReaderBack, ReaderSubmit, ReaderWait, ReaderCancel, stream, device
    <3>2. PICK place \in {"ended", "read", "top", "wait", "cancel", "caught", "stop", "caught_freeing"} :
              pc' = [pc EXCEPT ![Reader] = place]
      BY <2>4 DEF ReaderTop, ReaderBack, ReaderSubmit, ReaderWait, ReaderCancel, ReaderReaps, Goto
    <3>3. \/ pc[Reader] \in {"top", "back"} /\ place \in {"ended", "read", "top"}
          \/ pc[Reader] = "submit" /\ place \in {"wait", "stop"}
          \/ pc[Reader] = "wait" /\ place = "cancel"
          \/ pc[Reader] \in {"cancel", "caught"} /\ place \in {"caught", "stop"}
          \/ pc[Reader] \in {"free", "caught_freeing"} /\ place \in {"caught_freeing", "ended"}
      <4>1. pc'[Reader] = place
        BY <1>1, <3>2 DEF Types
      <4> QED BY <1>1, <2>4, <4>1
              DEF ReaderTop, ReaderBack, ReaderSubmit, ReaderWait, ReaderCancel, ReaderReaps, Goto, At, Types
    <3>4. pc'[Reader] = place /\ \A u \in Threads : u # Reader => pc'[u] = pc[u]
      BY <1>1, <3>2 DEF Types
    <3>5. Rests
      BY <3>1, <3>3, <3>4
    <3> QED BY <1>1, <3>1, <3>3, <3>4, <3>5
  <2>5. CASE Report(Reader)
    BY <2>5 DEF Report, stream, device
  <2> QED BY <2>1, <2>2, <2>3, <2>4, <2>5 DEF ReaderStep
<1> HIDE DEF Rests, Starts, Stops
<1>3. pc[Reader] # "ended" => active
  BY DEF Roles
<1>4. tuner = "FC0012" => pc'[Reader] \notin Receiving
  BY <1>2 DEF Roles, Rests, Starts, Stops
<1>5. Roles'
  <2>1. (active \/ pc[Reader] = "ended")'
    BY <1>2, <1>3
  <2>2. (~open /\ (\A u \in Callers : pc[u] # "close_join") => pc[Reader] = "ended")'
    BY <1>2 DEF Roles
  <2>3. (\A u \in Callers : pc[u] \in Closing => ~open /\ \A v \in Callers : v # u => pc[v] = "idle")'
    BY <1>2 DEF Roles
  <2> QED BY <1>2, <1>4, <2>1, <2>2, <2>3 DEF Roles
<1> DEFINE Same == plugged' = plugged /\ doubt' = doubt /\ ep' = ep
<1>0. Same => (Known' <=> Known)
  BY DEF Known
<1>6. FlowsForSomebody'
  <2> SUFFICES ASSUME Known', tuner = "R820T", ep' = "flowing"
               PROVE  \/ pc'[Reader] \in Receiving
                      \/ \E u \in Callers : pc[u] \in {"read", "read_stop"}
    BY <1>2 DEF FlowsForSomebody
  <2>1. CASE Starts
    BY <2>1 DEF Starts
  <2>2. CASE Stops
    BY <2>2 DEF Stops
  <2>3. CASE Rests \/ (pc' = pc /\ UNCHANGED <<ep, doubt, plugged>>)
    <3>1. Same /\ (pc[Reader] \in Receiving <=> pc'[Reader] \in Receiving)
      BY <2>3 DEF Rests
    <3> QED BY <1>0, <3>1 DEF EpFits, FlowsForSomebody
  <2> QED BY <1>2, <2>1, <2>2, <2>3
<1>7. FlowsForStream'
  <2> SUFFICES ASSUME Known', tuner = "R820T", ~overlapped, pc'[Reader] \in Flowing
               PROVE  ep' = "flowing"
    BY <1>2 DEF FlowsForStream
  <2>1. CASE Starts
    BY <2>1 DEF Starts
  <2>2. CASE Stops
    BY <2>2 DEF Stops
  <2>3. CASE Rests \/ (pc' = pc /\ UNCHANGED <<ep, doubt, plugged>>)
    <3>1. Same /\ pc[Reader] \in Flowing
      BY <2>3 DEF Rests
    <3> QED BY <1>0, <3>1 DEF EpFits, FlowsForStream
  <2> QED BY <1>2, <2>1, <2>2, <2>3
<1>8. FlowsUnlessPaused'
  <2> SUFFICES ASSUME Known', tuner = "FC0012", ~overlapped, active, ~StreamStarting',
                      \A u \in Callers : pc[u] \in Pausing => ~paused[u]
               PROVE  ep' = "flowing"
    BY <1>2 DEF FlowsUnlessPaused
  <2>1. CASE Starts
    BY <2>1 DEF Starts, StreamStarting
  <2>2. CASE Rests \/ (pc' = pc /\ UNCHANGED <<ep, doubt, plugged>>)
    <3>1. Same
      BY <2>2 DEF Rests
    <3>2. Known
      BY <1>0, <3>1
    <3>3. ~StreamStarting
      BY <2>2 DEF Rests, StreamStarting
    <3> QED BY <3>1, <3>2, <3>3 DEF EpFits, FlowsUnlessPaused
  <2>3. CASE Stops
    BY <2>3 DEF Stops, Roles
  <2> QED BY <1>2, <2>1, <2>2, <2>3
<1>9. HaltedIfClosed'
  <2> SUFFICES ASSUME Known', ~open, \A u \in Callers : pc[u] = "idle"
               PROVE  ep' = "halted"
    BY <1>2 DEF HaltedIfClosed
  <2>1. pc[Reader] = "ended"
    BY DEF Roles
  <2>2. Same /\ Known
    BY <1>0, <1>2, <2>1
  <2> QED BY <2>2 DEF EpFits, HaltedIfClosed
<1> QED BY <1>5, <1>6, <1>7, <1>8, <1>9 DEF EpFits

(* A caller that is in the middle of a call, or begins one that needs no   *)
(* place of its own.                                                       *)
LEMMA CallerKeepsRoles ==
    ASSUME Types, Roles, NEW t \in Callers,
           UNCHANGED <<tuner, open, active>>, ~overlapped' => ~overlapped,
           \A u \in Threads : u # t => pc'[u] = pc[u],
           \A u \in Callers : paused'[u] => paused[u],
           \A u \in Callers : u # t => paused'[u] = paused[u],
           pc'[t] \in Alone => pc[t] \in Alone \/ ~active,
           pc'[t] \in {"pause", "resume_halt", "resume_flow"} => paused'[t],
           pc'[t] \in Closing => pc[t] \in Closing,
           pc[t] = "close_join" => pc'[t] = "close_join",
           open \/ pc'[t] \in Closing \cup {"idle"}
    PROVE  Roles'
<1>1. Reader \in Threads /\ Callers \subseteq Threads /\ Reader \notin Callers
  BY BulkEndpointAssumption DEF Threads
<1>2. pc'[Reader] = pc[Reader] /\ \A u \in Callers : u # t => pc'[u] = pc[u]
  BY <1>1
<1>3. (active \/ pc[Reader] = "ended")' /\ (tuner = "FC0012" => pc[Reader] \notin Receiving)'
  BY <1>2 DEF Roles
<1>4. (~overlapped /\ active => \A u \in Callers : pc[u] \notin Alone)'
  BY <1>2 DEF Roles
<1>5. (\A u \in Callers : pc[u] \in {"pause", "resume_halt", "resume_flow"} => paused[u])'
  BY <1>2 DEF Roles
<1>6. (tuner = "R820T" => \A u \in Callers : ~paused[u])'
  BY DEF Roles
<1>7. (\A u \in Callers : pc[u] \in Closing => ~open /\ \A v \in Callers : v # u => pc[v] = "idle")'
  <2> SUFFICES ASSUME NEW u \in Callers, pc'[u] \in Closing
               PROVE  ~open /\ \A v \in Callers : v # u => pc'[v] = "idle"
    OBVIOUS
  <2>1. pc[u] \in Closing
    BY <1>2
  <2>2. ~open /\ \A v \in Callers : v # u => pc[v] = "idle"
    BY <2>1 DEF Roles
  <2>3. u # t => pc'[t] = "idle"
    <3> SUFFICES ASSUME u # t
                 PROVE  pc'[t] = "idle"
      OBVIOUS
    <3>1. pc[t] = "idle" /\ pc'[t] \in Closing \cup {"idle"}
      BY <2>2
    <3> QED BY <3>1 DEF Closing
  <2> QED BY <1>2, <2>2, <2>3
<1>8. (~open => \A u \in Callers : pc[u] \in Closing \cup {"idle"})'
  BY <1>2 DEF Roles
<1>9. (~open /\ (\A u \in Callers : pc[u] # "close_join") => pc[Reader] = "ended")'
  BY <1>2 DEF Roles
<1> QED BY <1>3, <1>4, <1>5, <1>6, <1>7, <1>8, <1>9 DEF Roles

(* A caller that does not write the endpoint.                              *)
LEMMA RestingKeepsEpFits ==
    ASSUME Types, EpFits, NEW t \in Callers,
           UNCHANGED <<tuner, open, active, ep, doubt, plugged>>, ~overlapped' => ~overlapped,
           \A u \in Threads : u # t => pc'[u] = pc[u],
           \A u \in Callers : u # t => paused'[u] = paused[u],
           pc[t] \in {"read", "read_stop"} => pc'[t] \in {"read", "read_stop"},
           pc[t] \in Pausing /\ paused[t] => pc'[t] \in Pausing /\ paused'[t],
           pc'[t] = "idle" => open \/ pc[t] = "idle" \/ ~plugged
    PROVE  EpFits'
<1>1. Reader \in Threads /\ Callers \subseteq Threads /\ Reader \notin Callers
  BY BulkEndpointAssumption DEF Threads
<1>2. pc'[Reader] = pc[Reader] /\ \A u \in Callers : u # t => pc'[u] = pc[u]
  BY <1>1
<1>3. FlowsForSomebody' /\ FlowsForStream'
  BY <1>2 DEF EpFits, FlowsForSomebody, FlowsForStream, Known
<1>4. FlowsUnlessPaused'
  BY <1>2 DEF EpFits, FlowsUnlessPaused, Known, StreamStarting
<1>5. HaltedIfClosed'
  BY <1>2 DEF EpFits, HaltedIfClosed, Known
<1> QED BY <1>3, <1>4, <1>5 DEF EpFits

(* The steps of a call that leave the endpoint alone, in the order of the  *)
(* calls.                                                                  *)
LEMMA CallFollows ==
    ASSUME Types, Roles, GoneIsUnplugged, EpFits, NEW t \in Callers,
           \/ Tune(t) \/ Unlock(t) \/ (\E n \in 1..MaxChunks : ReadSync(t, n)) \/ Read(t) \/ ReadReturn(t)
           \/ Stop(t) \/ TunerDown(t) \/ Report(t)
    PROVE  Roles' /\ EpFits'
<1> USE DEF Alone, Closing, Pausing
<1>1. t \in Threads /\ Callers \subseteq Threads
  BY DEF Threads
<1>2. pc[t] \notin Closing \cup {"idle"} => open
  BY DEF Roles
<1>3. CASE Tune(t)
  <2>1. /\ pc[t] = "tune" /\ pc' = [pc EXCEPT ![t] = IF paused[t] THEN "resume_halt" ELSE "unlock"]
        /\ UNCHANGED <<tuner, open, active, ep, doubt, plugged, overlapped, paused>>
    BY <1>3 DEF Tune, At, AfterTuning, Goto, Vanished, device, stream
  <2>2. /\ pc'[t] = IF paused[t] THEN "resume_halt" ELSE "unlock"
        /\ \A u \in Threads : u # t => pc'[u] = pc[u]
    BY <1>1, <2>1 DEF Types
  <2>3. Roles'
    BY <1>2, <2>1, <2>2, CallerKeepsRoles
  <2>4. EpFits'
    BY <1>2, <2>1, <2>2, RestingKeepsEpFits
  <2> QED BY <2>3, <2>4
<1>4. CASE Unlock(t)
  <2>1. /\ pc[t] = "unlock" /\ pc' = [pc EXCEPT ![t] = "idle"] /\ paused' = [paused EXCEPT ![t] = FALSE]
        /\ UNCHANGED <<tuner, open, active, ep, doubt, plugged, overlapped>>
    BY <1>4 DEF Unlock, At, Goto, device, stream
  <2>2. /\ pc'[t] = "idle" /\ ~paused'[t]
        /\ \A u \in Threads : u # t => pc'[u] = pc[u]
        /\ \A u \in Callers : u # t => paused'[u] = paused[u]
    BY <1>1, <2>1 DEF Types
  <2>3. Roles'
    BY <1>2, <2>1, <2>2, CallerKeepsRoles
  <2>4. EpFits'
    BY <1>2, <2>1, <2>2, RestingKeepsEpFits
  <2> QED BY <2>3, <2>4
<1>5. CASE \E n \in 1..MaxChunks : ReadSync(t, n)
  <2>1. /\ open /\ pc[t] = "idle"
        /\ IF active THEN pc' = pc ELSE pc' = [pc EXCEPT ![t] = "read_halt"]
        /\ UNCHANGED <<tuner, open, active, ep, doubt, plugged, paused>> /\ (~overlapped' => ~overlapped)
    BY <1>5 DEF ReadSync, Begin, Goto, device, stream
  <2>2. /\ pc'[t] = IF active THEN "idle" ELSE "read_halt"
        /\ \A u \in Threads : u # t => pc'[u] = pc[u]
    BY <1>1, <2>1 DEF Types
  <2>3. Roles'
    BY <2>1, <2>2, CallerKeepsRoles
  <2>4. EpFits'
    BY <2>1, <2>2, RestingKeepsEpFits
  <2> QED BY <2>3, <2>4
<1>6. CASE Read(t)
  <2>1. /\ pc[t] = "read" /\ BulkChunk(t, "read_stop")
        /\ UNCHANGED <<tuner, open, active, overlapped, paused>>
    BY <1>6 DEF Read, At, stream
  <2>2. UNCHANGED <<plugged, doubt, ep>> /\ Goes(t, {"read_stop"})
    BY <1>1, <2>1, BulkChunkMoves
  <2>3. pc'[t] \in {"read", "read_stop"} /\ \A u \in Threads : u # t => pc'[u] = pc[u]
    BY <1>1, <2>1, <2>2 DEF Goes, Types
  <2>4. Roles'
    BY <1>2, <2>1, <2>2, <2>3, CallerKeepsRoles
  <2>5. EpFits'
    BY <1>2, <2>1, <2>2, <2>3, RestingKeepsEpFits
  <2> QED BY <2>4, <2>5
<1>7. CASE ReadReturn(t) \/ Stop(t)
  <2>1. /\ pc[t] = "return" \/ (pc[t] = "idle" /\ open)
        /\ pc' = [pc EXCEPT ![t] = IF pc[t] = "return" THEN "idle" ELSE "stop_join"]
        /\ UNCHANGED <<tuner, open, active, ep, doubt, plugged, overlapped, paused>>
    BY <1>7 DEF ReadReturn, Stop, Begin, At, Goto, device, stream
  <2>2. /\ pc'[t] \in {"idle", "stop_join"} /\ \A u \in Threads : u # t => pc'[u] = pc[u]
    BY <1>1, <2>1 DEF Types
  <2>3. open
    BY <1>2, <2>1
  <2>4. Roles'
    BY <2>1, <2>2, <2>3, CallerKeepsRoles
  <2>5. EpFits'
    BY <2>1, <2>2, <2>3, RestingKeepsEpFits
  <2> QED BY <2>4, <2>5
<1>8. CASE TunerDown(t)
  <2>1. /\ pc[t] = "tuner_down"
        /\ pc' = [pc EXCEPT ![t] = IF health = "disconnected" THEN "idle" ELSE "close_halt"]
        /\ UNCHANGED <<tuner, open, active, ep, doubt, plugged, overlapped, paused>>
    BY <1>8 DEF TunerDown, At, Goto, Vanished, device, stream
  <2>2. /\ pc'[t] = IF health = "disconnected" THEN "idle" ELSE "close_halt"
        /\ \A u \in Threads : u # t => pc'[u] = pc[u]
    BY <1>1, <2>1 DEF Types
  <2>3. pc'[t] = "idle" => ~plugged
    BY <2>2 DEF GoneIsUnplugged
  <2>4. Roles'
    BY <2>1, <2>2, CallerKeepsRoles
  <2>5. EpFits'
    BY <2>1, <2>2, <2>3, RestingKeepsEpFits
  <2> QED BY <2>4, <2>5
<1>9. CASE Report(t)
  <2>1. UNCHANGED <<tuner, open, active, ep, doubt, plugged, overlapped, paused, pc>>
    BY <1>9 DEF Report, device, stream
  <2>2. Roles'
    BY <2>1 DEF Roles
  <2>3. EpFits'
    BY <2>1 DEF EpFits, FlowsForSomebody, FlowsForStream, FlowsUnlessPaused, HaltedIfClosed, Known, StreamStarting
  <2> QED BY <2>2, <2>3
<1> QED BY <1>3, <1>4, <1>5, <1>6, <1>7, <1>8, <1>9

(* set_frequency and set_gain pause the FC0012 of a running stream; close  *)
(* begins when nothing else is under way.                                  *)
LEMMA BeginFollows ==
    ASSUME Types, Roles, EpFits, NEW t \in Callers, Configure(t) \/ Close(t)
    PROVE  Roles' /\ EpFits'
<1> USE DEF Alone, Closing, Pausing
<1>1. Reader \in Threads /\ Callers \subseteq Threads /\ Reader \notin Callers
  BY BulkEndpointAssumption DEF Threads
<1>2. CASE Configure(t)
  <2>1. /\ open /\ pc[t] = "idle"
        /\ paused' = [paused EXCEPT ![t] = active /\ tuner = "FC0012"]
        /\ pc' = [pc EXCEPT ![t] = IF paused'[t] THEN "pause" ELSE "tune"]
        /\ UNCHANGED <<tuner, open, active, ep, doubt, plugged>> /\ (~overlapped' => ~overlapped)
    BY <1>2 DEF Configure, Begin, Goto, device, stream
  <2>2. /\ pc'[t] = IF paused'[t] THEN "pause" ELSE "tune"
        /\ paused'[t] => tuner = "FC0012"
        /\ \A u \in Threads : u # t => pc'[u] = pc[u]
        /\ \A u \in Callers : u # t => paused'[u] = paused[u]
    BY <1>1, <2>1 DEF Types
  <2>3. pc'[Reader] = pc[Reader] /\ \A u \in Callers : u # t => pc'[u] = pc[u]
    BY <1>1, <2>2
  <2>4. (\A u \in Callers : pc[u] \in {"pause", "resume_halt", "resume_flow"} => paused[u])'
    BY <2>2, <2>3 DEF Roles
  <2>5. (tuner = "R820T" => \A u \in Callers : ~paused[u])'
    BY <2>1, <2>2 DEF Roles
  <2>6. (~overlapped /\ active => \A u \in Callers : pc[u] \notin Alone)'
    BY <2>1, <2>2, <2>3 DEF Roles
  <2>7. (\A u \in Callers : pc[u] \in Closing => ~open /\ \A v \in Callers : v # u => pc[v] = "idle")'
    <3>1. \A u \in Callers : pc'[u] \notin Closing
      BY <2>1, <2>2, <2>3 DEF Roles
    <3> QED BY <3>1
  <2>8. Roles'
    BY <2>1, <2>3, <2>4, <2>5, <2>6, <2>7 DEF Roles
  <2>9. EpFits'
    BY <2>1, <2>2, RestingKeepsEpFits
  <2> QED BY <2>8, <2>9
<1>3. CASE Close(t)
  <2>1. /\ open /\ open' = FALSE /\ \A u \in Callers : pc[u] = "idle"
        /\ pc' = [pc EXCEPT ![t] = IF active THEN "close_join" ELSE "tuner_down"]
        /\ UNCHANGED <<tuner, active, ep, doubt, plugged, overlapped, paused>>
    BY <1>3 DEF Close, Goto, device
  <2>2. /\ pc'[t] = IF active THEN "close_join" ELSE "tuner_down"
        /\ pc'[Reader] = pc[Reader]
        /\ \A u \in Callers : u # t => pc'[u] = "idle"
    BY <1>1, <2>1 DEF Types
  <2>3. Roles'
    <3>1. (\A u \in Callers : pc[u] \in {"pause", "resume_halt", "resume_flow"} => paused[u])'
      BY <2>2
    <3>2. (~overlapped /\ active => \A u \in Callers : pc[u] \notin Alone)'
      BY <2>1, <2>2
    <3>3. (\A u \in Callers : pc[u] \in Closing => ~open /\ \A v \in Callers : v # u => pc[v] = "idle")'
      BY <2>1, <2>2
    <3>4. (~open => \A u \in Callers : pc[u] \in Closing \cup {"idle"})'
      BY <2>2
    <3>5. (~open /\ (\A u \in Callers : pc[u] # "close_join") => pc[Reader] = "ended")'
      BY <2>1, <2>2 DEF Roles
    <3> QED BY <2>1, <2>2, <3>1, <3>2, <3>3, <3>4, <3>5 DEF Roles
  <2>4. FlowsForSomebody' /\ FlowsForStream'
    BY <2>1, <2>2 DEF EpFits, FlowsForSomebody, FlowsForStream, Known
  <2>5. FlowsUnlessPaused'
    BY <2>1, <2>2 DEF EpFits, FlowsUnlessPaused, Known, StreamStarting
  <2>6. HaltedIfClosed'
    BY <2>2 DEF HaltedIfClosed
  <2> QED BY <2>3, <2>4, <2>5, <2>6 DEF EpFits
<1> QED BY <1>2, <1>3

(* start wakes the reader, the join ends the stream.                       *)
LEMMA StreamFollows ==
    ASSUME Types, Roles, EpFits, NEW t \in Callers, Start(t) \/ Join(t)
    PROVE  Roles' /\ EpFits'
<1> USE DEF Alone, Closing, Pausing
<1>1. Reader \in Threads /\ Callers \subseteq Threads /\ Reader \notin Callers
  BY BulkEndpointAssumption DEF Threads
<1>2. CASE Start(t)
  <2>1. /\ open /\ ~active /\ active' = TRUE /\ pc' = [pc EXCEPT ![Reader] = "halt"]
        /\ UNCHANGED <<tuner, open, ep, doubt, plugged, paused>>
        /\ ~overlapped' => ~overlapped /\ \A u \in Callers : pc[u] = "idle"
    BY <1>2 DEF Start, Begin, Goto, device
  <2>2. pc'[Reader] = "halt" /\ \A u \in Callers : pc'[u] = pc[u]
    BY <1>1, <2>1 DEF Types
  <2>3. Roles'
    <3>1. (~overlapped /\ active => \A u \in Callers : pc[u] \notin Alone)'
      BY <2>1, <2>2
    <3>2. (\A u \in Callers : pc[u] \in Closing => ~open /\ \A v \in Callers : v # u => pc[v] = "idle")'
      BY <2>1, <2>2 DEF Roles
    <3> QED BY <2>1, <2>2, <3>1, <3>2 DEF Roles
  <2>4. FlowsForSomebody'
    <3>1. pc[Reader] = "ended"
      BY <2>1 DEF Roles
    <3> QED BY <2>1, <2>2, <3>1 DEF EpFits, FlowsForSomebody, Known
  <2>5. FlowsForStream' /\ FlowsUnlessPaused' /\ HaltedIfClosed'
    BY <2>1, <2>2 DEF FlowsForStream, FlowsUnlessPaused, HaltedIfClosed, StreamStarting
  <2> QED BY <2>3, <2>4, <2>5 DEF EpFits
<1>3. CASE Join(t)
  <2>1. /\ pc[Reader] = "ended" /\ active' = FALSE
        /\ pc[t] \in {"stop_join", "close_join"}
        /\ pc' = [pc EXCEPT ![t] = IF pc[t] = "stop_join" THEN "idle" ELSE "tuner_down"]
        /\ UNCHANGED <<tuner, open, ep, doubt, plugged, overlapped, paused>>
    BY <1>3 DEF Join, At, Goto, device
  <2>2. /\ pc'[t] = IF pc[t] = "stop_join" THEN "idle" ELSE "tuner_down"
        /\ pc'[Reader] = "ended"
        /\ \A u \in Callers : u # t => pc'[u] = pc[u]
    BY <1>1, <2>1 DEF Types
  <2>3. open \/ pc[t] = "close_join"
    BY <2>1 DEF Roles
  <2>4. Roles'
    <3>1. (\A u \in Callers : pc[u] \in {"pause", "resume_halt", "resume_flow"} => paused[u])'
      BY <2>1, <2>2 DEF Roles
    <3>2. (\A u \in Callers : pc[u] \in Closing => ~open /\ \A v \in Callers : v # u => pc[v] = "idle")'
      <4> SUFFICES ASSUME NEW u \in Callers, pc'[u] \in Closing
                   PROVE  ~open /\ \A v \in Callers : v # u => pc'[v] = "idle"
        BY <2>1
      <4>1. pc[u] \in Closing
        BY <2>1, <2>2
      <4>2. ~open /\ \A v \in Callers : v # u => pc[v] = "idle"
        BY <4>1 DEF Roles
      <4> QED BY <2>1, <2>2, <4>2
    <3>3. (~open => \A u \in Callers : pc[u] \in Closing \cup {"idle"})'
      BY <2>1, <2>2 DEF Roles
    <3> QED BY <2>1, <2>2, <3>1, <3>2, <3>3 DEF Roles
  <2>5. FlowsForSomebody' /\ FlowsForStream'
    BY <2>1, <2>2 DEF EpFits, FlowsForSomebody, FlowsForStream, Known
  <2>6. FlowsUnlessPaused'
    BY <2>1 DEF FlowsUnlessPaused
  <2>7. HaltedIfClosed'
    BY <2>1, <2>2, <2>3 DEF HaltedIfClosed
  <2> QED BY <2>4, <2>5, <2>6, <2>7 DEF EpFits
<1> QED BY <1>2, <1>3

(* A caller that halts the endpoint or lets it flow: the pause of a stream *)
(* that tolerates it, a read_sync without a stream, or the end of close.   *)
LEMMA WritingFollows ==
    ASSUME Types, Roles, EpFits, NEW t \in Callers,
           Pause(t) \/ Resume(t) \/ ReadStart(t) \/ ReadStop(t) \/ CloseHalt(t)
    PROVE  Roles' /\ EpFits'
<1> USE DEF Alone, Closing, Pausing
<1>1. Reader \in Threads /\ Callers \subseteq Threads /\ Reader \notin Callers
  BY BulkEndpointAssumption DEF Threads
<1>2. UNCHANGED <<tuner, open, active, paused, overlapped>>
  BY DEF Pause, Resume, ReadStart, ReadStop, CloseHalt, stream
<1>3. PICK value \in {"halted", "flowing"},
           ok \in {"tune", "resume_flow", "unlock", "read_flow", "read", "return", "idle"},
           failed \in {"tune", "unlock", "idle", "return"} :
          /\ WriteEp(t, value, ok, failed)
          /\ \/ pc[t] = "pause" /\ value = "halted" /\ ok = "tune" /\ failed = "tune"
             \/ pc[t] = "resume_halt" /\ value = "halted" /\ ok = "resume_flow" /\ failed = "unlock"
             \/ pc[t] = "resume_flow" /\ value = "flowing" /\ ok = "unlock" /\ failed = "unlock"
             \/ pc[t] = "read_halt" /\ value = "halted" /\ ok = "read_flow" /\ failed = "idle"
             \/ pc[t] = "read_flow" /\ value = "flowing" /\ ok = "read" /\ failed = "idle"
             \/ pc[t] = "read_stop" /\ value = "halted" /\ ok = "return" /\ failed = "return"
             \/ pc[t] = "close_halt" /\ value = "halted" /\ ok = "idle" /\ failed = "idle"
  BY DEF Pause, Resume, ReadStart, ReadStop, CloseHalt, StartBulk, StopBulk, At
<1>4. /\ pc'[t] \in {ok, failed} /\ plugged' = plugged
      /\ \A u \in Threads : u # t => pc'[u] = pc[u]
      /\ Known' => ep' = value /\ pc'[t] = ok
  BY <1>1, <1>3, WriteEpSets
<1>5. pc'[Reader] = pc[Reader] /\ \A u \in Callers : u # t => pc'[u] = pc[u]
  BY <1>1, <1>4
<1>6. pc[t] \in {"pause", "resume_halt", "resume_flow"} => paused[t] /\ tuner = "FC0012"
  BY DEF Roles
<1>7. pc[t] \in Alone => overlapped \/ ~active
  BY DEF Roles
<1>8. pc[t] \notin Closing => open
  BY <1>3 DEF Roles
<1>9. Roles'
  BY <1>1, <1>2, <1>3, <1>4, <1>6, <1>8, CallerKeepsRoles
<1>10. FlowsForSomebody'
  BY <1>2, <1>3, <1>4, <1>5, <1>6 DEF FlowsForSomebody
<1>11. FlowsForStream'
  <2>1. ~active => pc[Reader] = "ended"
    BY DEF Roles
  <2> QED BY <1>2, <1>3, <1>5, <1>6, <1>7, <2>1 DEF FlowsForStream
<1>12. FlowsUnlessPaused'
  BY <1>2, <1>3, <1>4, <1>6, <1>7 DEF FlowsUnlessPaused
<1>13. HaltedIfClosed'
  BY <1>2, <1>3, <1>4, <1>8 DEF HaltedIfClosed
<1> QED BY <1>9, <1>10, <1>11, <1>12, <1>13 DEF EpFits

(* At first the endpoint is halted and there is nobody to use it.          *)
LEMMA InitFollowInv ==
    ASSUME Init
    PROVE  FollowInv
<1>1. tuner \in {"R820T", "FC0012"}
  BY BulkEndpointAssumption DEF Init
<1>2. /\ open = TRUE /\ active = FALSE /\ ep = "halted" /\ pc[Reader] = "ended"
      /\ \A t \in Callers : pc[t] = "idle" /\ ~paused[t]
  BY BulkEndpointAssumption DEF Init, Threads
<1>3. Roles
  BY <1>1, <1>2 DEF Roles, Closing
<1>4. EpFits
  BY <1>2 DEF EpFits, FlowsForSomebody, FlowsForStream, FlowsUnlessPaused, HaltedIfClosed
<1>5. GoneIsUnplugged
  BY DEF Init, GoneIsUnplugged
<1> QED BY <1>3, <1>4, <1>5, InitPauseInv DEF FollowInv

(* With its writes done and believed, the endpoint is as the stream wants  *)
(* it, whatever was tuned, read, stopped and closed in between: start_bulk *)
(* and stop_bulk in the reader, read_sync, the pause of set_frequency and  *)
(* set_gain, and close, for any number of threads, calls and failures.     *)
THEOREM EndpointAlwaysFollows == Spec => []EndpointFollowsStream
<1>1. Init => FollowInv
  BY InitFollowInv
<1>2. FollowInv /\ [Next]_vars => FollowInv'
  <2> SUFFICES ASSUME FollowInv, [Next]_vars
               PROVE  FollowInv'
    OBVIOUS
  <2>1. PauseInv /\ Types /\ Roles /\ GoneIsUnplugged /\ EpFits
    BY DEF FollowInv, PauseInv
  <2>2. PauseInv' /\ GoneIsUnplugged'
    BY <2>1, StepKeepsPauseInv, StepKeepsGone
  <2>3. CASE UNCHANGED vars \/ Unplug
    <3>1. /\ UNCHANGED <<tuner, ep, doubt, open, active, pc, paused, overlapped>>
          /\ Known' => Known
      BY <2>1, <2>3 DEF vars, device, stream, Unplug, Known, Types, Flags
    <3>2. Roles'
      BY <2>1, <3>1 DEF Roles
    <3>3. EpFits'
      BY <2>1, <3>1 DEF EpFits, FlowsForSomebody, FlowsForStream, FlowsUnlessPaused, HaltedIfClosed, StreamStarting
    <3> QED BY <2>2, <3>2, <3>3 DEF FollowInv
  <2>4. CASE ReaderStep
    BY <2>1, <2>2, <2>4, ReaderFollows DEF FollowInv
  <2>5. ASSUME NEW t \in Callers, Configure(t) \/ Close(t)
        PROVE  Roles' /\ EpFits'
    BY <2>1, <2>5, BeginFollows
  <2>6. ASSUME NEW t \in Callers, Start(t) \/ Join(t)
        PROVE  Roles' /\ EpFits'
    BY <2>1, <2>6, StreamFollows
  <2>7. ASSUME NEW t \in Callers, Pause(t) \/ Resume(t) \/ ReadStart(t) \/ ReadStop(t) \/ CloseHalt(t)
        PROVE  Roles' /\ EpFits'
    BY <2>1, <2>7, WritingFollows
  <2>8. ASSUME NEW t \in Callers,
               \/ Tune(t) \/ Unlock(t) \/ (\E n \in 1..MaxChunks : ReadSync(t, n)) \/ Read(t) \/ ReadReturn(t)
               \/ Stop(t) \/ TunerDown(t) \/ Report(t)
        PROVE  Roles' /\ EpFits'
    BY <2>1, <2>8, CallFollows
  <2> QED BY <2>2, <2>3, <2>4, <2>5, <2>6, <2>7, <2>8 DEF Next, CallStep, FollowInv
<1>3. FollowInv => EndpointFollowsStream
  <2> SUFFICES ASSUME Roles, EpFits, Known, ~overlapped, \A t \in Threads : ~WritesEp(t)
               PROVE  /\ tuner = "FC0012" /\ active => ep = "flowing"
                      /\ tuner = "R820T" => (ep = "flowing" <=> pc[Reader] \in Flowing)
                      /\ ~open => (ep = "halted" \/ \E t \in Callers : pc[t] = "close_join")
    BY DEF FollowInv, EndpointFollowsStream, Known
  <2>1. /\ pc[Reader] \notin {"halt", "flow", "stop"}
        /\ \A t \in Callers : pc[t] \notin {"tune", "resume_halt", "resume_flow", "read", "read_stop",
                                            "tuner_down", "close_halt"}
    BY DEF WritesEp, Threads
  <2>2. tuner = "FC0012" /\ active => ep = "flowing"
    BY <2>1 DEF EpFits, FlowsUnlessPaused, StreamStarting, Pausing
  <2>3. tuner = "R820T" => (ep = "flowing" <=> pc[Reader] \in Flowing)
    BY <2>1 DEF EpFits, FlowsForSomebody, FlowsForStream
  <2>4. ~open => (ep = "halted" \/ \E t \in Callers : pc[t] = "close_join")
    BY <2>1 DEF EpFits, HaltedIfClosed, Roles, Closing
  <2> QED BY <2>2, <2>3, <2>4
<1> QED BY <1>1, <1>2, <1>3, PTL DEF Spec
=============================================================================
