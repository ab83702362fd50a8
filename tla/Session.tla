------------------------------- MODULE Session -------------------------------
(***************************************************************************)
(* Contexts and devices, src/sdrgg_core.cpp 126-426: create, destroy,      *)
(* open_path with its phases A to D and rollback_session, close; and the   *)
(* USB and power levels of src/sdrgg_reset.cpp.  Devices may vanish and    *)
(* come back between any two steps, every step of open_path can fail, and  *)
(* several threads open and close at the same time; ctx->lock makes        *)
(* changes of the device table atomic and protects nothing else.           *)
(*                                                                         *)
(* usbdevfs is modelled as the code uses it: an interface has one driver,  *)
(* which is the kernel's own or one descriptor's claim; USBDEVFS_DISCONNECT*)
(* and USBDEVFS_RESET detach either; closing a descriptor releases its     *)
(* claim; and a descriptor of a device that vanished stays dead.  Where    *)
(* the kernel's driver has bound itself is not part of the state: it may   *)
(* make any claim fail.  Transfers to registers need no claim.  Nothing    *)
(* here waits, so there is no fairness.                                    *)
(***************************************************************************)
EXTENDS Integers, FiniteSets, FiniteSetsExt

CONSTANTS
    Paths,        \* the USB devices there may be
    Sessions,     \* memory for sdrgg_dev_t: one for each open call under way or device open
    MaxDevices,   \* SDRGG_MAX_DEVICES
    Gone,         \* what a descriptor leads to when its device has vanished
    None

ASSUME SessionAssumption ==
    /\ IsFiniteSet(Sessions)
    /\ MaxDevices \in Nat \ {0}
    /\ None \notin Paths \cup Sessions \cup {Gone}
    /\ Gone \notin Paths

Slots == 0..(MaxDevices - 1)

VARIABLES
    plugged,      \* the devices that are there
    claimed,      \* who has claimed the interface of each
    chip,         \* each device's demodulator and tuner
    ctx,          \* the context: "none", "up" or "closing" (in destroy)
    table,        \* ctx->devices
    dev_count,    \* ctx->dev_count
    pending,      \* devices destroy has collected and not closed yet
    pc,           \* where each session is
    fd,           \* identity.fd: the device its descriptor leads to, Gone or None
    health,       \* dev->health
    slot_index,   \* identity.slot_index
    disputed      \* the devices of which a session lost the interface while it used it (history)

usb == <<plugged, claimed, chip>>
context == <<ctx, table, dev_count, pending>>
session == <<fd, health, slot_index>>
vars == <<usb, context, session, pc, disputed>>

Init ==
    /\ plugged = {}
    /\ claimed = [p \in Paths |-> None]
    /\ chip = [p \in Paths |-> "cold"]
    /\ ctx = "none"
    /\ table = [i \in Slots |-> None]
    /\ dev_count = 0
    /\ pending = {}
    /\ pc = [s \in Sessions |-> "none"]
    /\ fd = [s \in Sessions |-> None]
    /\ health = [s \in Sessions |-> "ok"]
    /\ slot_index = [s \in Sessions |-> 0]
    /\ disputed = {}

At(s, places) == pc[s] \in places
Goto(s, place) == pc' = [pc EXCEPT ![s] = place]

\* Does the descriptor of s still lead to its device?
Linked(s) == fd[s] \in Paths

\* The chip of s becomes c, unless the device is gone, which the transfer shows:
\* control_write and control_read mark it.
Transfer(s, c) ==
    /\ chip' = IF Linked(s) THEN [chip EXCEPT ![fd[s]] = c] ELSE chip
    /\ health' = IF Linked(s) THEN health ELSE [health EXCEPT ![s] = "disconnected"]

\* The claim of s, if it has one, is given up.
Unclaim(s) ==
    claimed' = [p \in Paths |-> IF claimed[p] = s THEN None ELSE claimed[p]]

\* Nobody's claim of the interface of s is left.
DetachAny(s) == claimed' = [p \in Paths |-> IF fd[s] = p THEN None ELSE claimed[p]]

\* A dispute is over when every session of the device has closed its descriptor.
Undisputed == disputed' = {p \in disputed : \E s \in Sessions : fd'[s] = p}

-----------------------------------------------------------------------------
(* Devices come and go.                                                    *)

Plug(p) ==
    /\ p \notin plugged
    /\ plugged' = plugged \cup {p}
    /\ UNCHANGED <<claimed, chip, context, session, pc, disputed>>

\* Whoever has it open is left with a dead descriptor.
Vanish(p) ==
    /\ plugged' = plugged \ {p}
    /\ claimed' = [claimed EXCEPT ![p] = None]
    /\ fd' = [s \in Sessions |-> IF fd[s] = p THEN Gone ELSE fd[s]]
    /\ chip' = [chip EXCEPT ![p] = "cold"]
    /\ Undisputed
    /\ UNCHANGED <<context, health, slot_index>>

Unplug(p) ==
    /\ p \in plugged
    /\ Vanish(p)
    /\ UNCHANGED pc

-----------------------------------------------------------------------------
(* Contexts.                                                               *)

Create ==
    /\ ctx = "none"
    /\ ctx' = "up"
    /\ table' = [i \in Slots |-> None]
    /\ dev_count' = 0
    /\ pending' = {}
    /\ UNCHANGED <<usb, session, pc, disputed>>

\* destroy collects the devices of the slots below dev_count.  The application
\* has no other call on the context under way.
Destroy ==
    /\ ctx = "up"
    /\ \A s \in Sessions : At(s, {"none", "open"})
    /\ ctx' = "closing"
    /\ pending' = {table[i] : i \in 0..(dev_count - 1)} \ {None}
    /\ table' = [i \in Slots |-> IF i < dev_count THEN None ELSE table[i]]
    /\ UNCHANGED <<usb, session, pc, dev_count, disputed>>

\* It closes one after the other ...
CloseNext(s) ==
    /\ ctx = "closing"
    /\ s \in pending
    /\ \A t \in Sessions : At(t, {"none", "open"})
    /\ pending' = pending \ {s}
    /\ Goto(s, "unregister")
    /\ UNCHANGED <<usb, session, ctx, table, dev_count, disputed>>

\* ... and frees the context.
FreeContext ==
    /\ ctx = "closing"
    /\ pending = {}
    /\ \A t \in Sessions : At(t, {"none", "open"})
    /\ ctx' = "none"
    /\ UNCHANGED <<usb, session, pc, table, dev_count, pending, disputed>>

-----------------------------------------------------------------------------
(* open_path.                                                              *)

\* Mutant of UndoFrom: phase B is undone as soon as it has begun.
UndoFromEarly(place) ==
    CASE place \in {"interface", "boot", "reboot", "probe"} -> "deinit"
      [] place = "register" -> "standby"

\* Where rollback_session begins: with the last of the phases done.
UndoFrom(place) ==
    CASE place \in {"interface", "boot", "reboot"} -> "free" \* A
      [] place = "probe" -> "deinit"                         \* B
      [] place = "register" -> "standby"                     \* C

Undo(s) == Goto(s, UndoFrom(pc[s]))

\* Phase A; what fails in it leaves nothing.
OpenFd(s) ==
    \E p \in plugged :
        /\ ctx = "up"
        /\ At(s, {"none"})
        /\ fd' = [fd EXCEPT ![s] = p]
        /\ health' = [health EXCEPT ![s] = "ok"]
        /\ Goto(s, "claim")
        /\ UNCHANGED <<usb, context, slot_index, disputed>>

\* Phase B: the driver of the interface is detached, whoever's it is ...
Detach(s) ==
    /\ At(s, {"claim"})
    /\ DetachAny(s)
    /\ disputed' = disputed \cup {p \in Paths : fd[s] = p /\ claimed[p] # None}
    /\ Goto(s, "interface")
    /\ UNCHANGED <<plugged, chip, context, session>>

\* ... and the interface claimed.  Another open or the kernel may be faster.
Claim(s) ==
    /\ At(s, {"interface"})
    /\ Linked(s) /\ claimed[fd[s]] = None
    /\ claimed' = [claimed EXCEPT ![fd[s]] = s]
    /\ Goto(s, "boot")
    /\ UNCHANGED <<plugged, chip, context, session, disputed>>

ClaimFails(s) ==
    /\ At(s, {"interface"})
    /\ Undo(s)
    /\ UNCHANGED <<usb, context, session, disputed>>

\* The baseband is booted.
Boot(s) ==
    /\ At(s, {"boot", "reboot"})
    /\ Linked(s)
    /\ Transfer(s, "demod")
    /\ Goto(s, "probe")
    /\ UNCHANGED <<plugged, claimed, context, fd, slot_index, disputed>>

\* rtl::init fails, before or after it switched the demodulator on; open_path
\* releases the interface itself, phase B not being done.
BootFails(s) ==
    /\ At(s, {"boot", "reboot"})
    /\ \/ Transfer(s, "demod")
       \/ Linked(s) /\ UNCHANGED <<chip, health>>
    /\ Unclaim(s)
    /\ Undo(s)
    /\ UNCHANGED <<plugged, context, fd, slot_index, disputed>>

\* When the first transfers fail rtl::init resets the device, which detaches every
\* driver, ...
BootResets(s) ==
    /\ At(s, {"boot"})
    /\ DetachAny(s)
    /\ \/ Linked(s) /\ UNCHANGED health
       \/ ~Linked(s) /\ health' = [health EXCEPT ![s] = "disconnected"]
    /\ Goto(s, "reclaim")
    /\ UNCHANGED <<plugged, chip, context, fd, slot_index, disputed>>

\* ... claims the interface again, this time without detaching anybody and without
\* looking whether it gets it, and goes on.
Reclaim(s) ==
    /\ At(s, {"reclaim"})
    /\ \/ /\ Linked(s) /\ claimed[fd[s]] = None
          /\ claimed' = [claimed EXCEPT ![fd[s]] = s]
          /\ UNCHANGED disputed
       \/ /\ disputed' = disputed \cup {p \in Paths : fd[s] = p}
          /\ UNCHANGED claimed
    /\ Goto(s, "reboot")
    /\ UNCHANGED <<plugged, chip, context, session>>

\* Phase C: a tuner of one of the families answers and is started.
StartTuner(s) ==
    /\ At(s, {"probe"})
    /\ Linked(s)
    /\ Transfer(s, "tuner")
    /\ Goto(s, "register")
    /\ UNCHANGED <<plugged, claimed, context, fd, slot_index, disputed>>

\* None answers, or its preparation or its start fails half-way.
StartTunerFails(s) ==
    /\ At(s, {"probe"})
    /\ Transfer(s, "tuner") \/ (Linked(s) /\ UNCHANGED <<chip, health>>)
    /\ Undo(s)
    /\ UNCHANGED <<plugged, claimed, context, fd, slot_index, disputed>>

FreeSlots == {i \in Slots : table[i] = None}

\* Mutant of Register: dev_count follows the slot down as well.
RegisterRecounts(s) ==
    /\ At(s, {"register"})
    /\ FreeSlots # {}
    /\ LET slot == Min(FreeSlots)
       IN  /\ table' = [table EXCEPT ![slot] = s]
           /\ slot_index' = [slot_index EXCEPT ![s] = slot]
           /\ dev_count' = slot + 1
    /\ Goto(s, "open")
    /\ UNCHANGED <<usb, ctx, pending, fd, health, disputed>>

\* Phase D: the first free slot, under ctx->lock.
Register(s) ==
    /\ At(s, {"register"})
    /\ FreeSlots # {}
    /\ LET slot == Min(FreeSlots)
       IN  /\ table' = [table EXCEPT ![slot] = s]
           /\ slot_index' = [slot_index EXCEPT ![s] = slot]
           /\ dev_count' = IF slot >= dev_count THEN slot + 1 ELSE dev_count
    /\ Goto(s, "open")
    /\ UNCHANGED <<usb, ctx, pending, fd, health, disputed>>

RegisterFails(s) ==
    /\ At(s, {"register"})
    /\ FreeSlots = {}
    /\ Undo(s)
    /\ UNCHANGED <<usb, context, session, disputed>>

-----------------------------------------------------------------------------
(* An open device.                                                         *)

\* A configuration call or the stream finds the device gone.
NoticeGone(s) ==
    /\ At(s, {"open"})
    /\ ~Linked(s)
    /\ Transfer(s, "tuner")
    /\ UNCHANGED <<plugged, claimed, context, fd, slot_index, pc, disputed>>

\* reset_usb, also as the last part of reset_full, which takes a device that works
\* to it whatever the other levels do.  "The device fd becomes invalid after this
\* call" (src/sdrgg_reset.cpp:99).
ResetUsb(s) ==
    /\ At(s, {"open"})
    /\ Linked(s)
    /\ fd' = [fd EXCEPT ![s] = Gone]
    /\ DetachAny(s)
    /\ Undisputed
    /\ UNCHANGED <<plugged, chip, context, health, slot_index, pc>>

\* reset_power takes the power away ...
PowerOff(s) ==
    /\ ctx = "up"
    /\ At(s, {"open"})
    /\ Linked(s)
    /\ Vanish(fd[s])
    /\ Goto(s, "power")

\* ... and brings it back, if the attribute can be opened again.
PowerOn(s) ==
    /\ At(s, {"power"})
    /\ \/ \E p \in Paths : plugged' = plugged \cup {p}
       \/ UNCHANGED plugged
    /\ Goto(s, "open")
    /\ UNCHANGED <<claimed, chip, context, session, disputed>>

-----------------------------------------------------------------------------
(* close, whose end is that of rollback_session too.                       *)

Close(s) ==
    /\ ctx = "up"
    /\ At(s, {"open"})
    /\ Goto(s, "unregister")
    /\ UNCHANGED <<usb, context, session, disputed>>

\* Mutant of Unregister: the last of the slots in use is not looked at.
UnregisterButLast(s) ==
    /\ At(s, {"unregister"})
    /\ table' = [i \in Slots |->
                    IF i < dev_count - 1 /\ table[i] = s THEN None ELSE table[i]]
    /\ Goto(s, "stop")
    /\ UNCHANGED <<usb, session, ctx, dev_count, pending, disputed>>

Unregister(s) ==
    /\ At(s, {"unregister"})
    /\ table' = [i \in Slots |->
                    IF i < dev_count /\ table[i] = s THEN None ELSE table[i]]
    /\ Goto(s, "stop")
    /\ UNCHANGED <<usb, session, ctx, dev_count, pending, disputed>>

\* After its stream was stopped, a device known to be gone is left alone.
CheckHealth(s) ==
    /\ At(s, {"stop"})
    /\ Goto(s, IF health[s] = "disconnected" THEN "release" ELSE "standby")
    /\ UNCHANGED <<usb, context, session, disputed>>

\* Only an R820T is put to sleep.
Standby(s) ==
    /\ At(s, {"standby"})
    /\ Transfer(s, "demod") \/ (Linked(s) /\ UNCHANGED <<chip, health>>)
    /\ Goto(s, "deinit")
    /\ UNCHANGED <<plugged, claimed, context, fd, slot_index, disputed>>

Deinit(s) ==
    /\ At(s, {"deinit"})
    /\ Transfer(s, "off")
    /\ Goto(s, "release")
    /\ UNCHANGED <<plugged, claimed, context, fd, slot_index, disputed>>

Release(s) ==
    /\ At(s, {"release"})
    /\ Unclaim(s)
    /\ Goto(s, "free")
    /\ UNCHANGED <<plugged, chip, context, session, disputed>>

\* The descriptor is closed and the memory freed.
Free(s) ==
    /\ At(s, {"free"})
    /\ Unclaim(s)
    /\ fd' = [fd EXCEPT ![s] = None]
    /\ health' = [health EXCEPT ![s] = "ok"]
    /\ slot_index' = [slot_index EXCEPT ![s] = 0]
    /\ Goto(s, "none")
    /\ Undisputed
    /\ UNCHANGED <<plugged, chip, context>>

-----------------------------------------------------------------------------

Opening(s) ==
    \/ Detach(s) \/ Claim(s) \/ ClaimFails(s)
    \/ Boot(s) \/ BootFails(s) \/ BootResets(s) \/ Reclaim(s)
    \/ StartTuner(s) \/ StartTunerFails(s) \/ Register(s) \/ RegisterFails(s)

Closing(s) ==
    \/ Unregister(s) \/ CheckHealth(s) \/ Standby(s) \/ Deinit(s) \/ Release(s) \/ Free(s)

Using(s) ==
    \/ OpenFd(s) \/ NoticeGone(s) \/ ResetUsb(s) \/ PowerOff(s) \/ Close(s)

Destroying == FreeContext \/ \E s \in Sessions : CloseNext(s)

Next ==
    \/ \E p \in Paths : Plug(p) \/ Unplug(p)
    \/ Create \/ Destroy \/ Destroying
    \/ \E s \in Sessions : Using(s) \/ PowerOn(s) \/ Opening(s) \/ Closing(s)

Spec == Init /\ [][Next]_vars

-----------------------------------------------------------------------------

\* The values each variable can have.
TypeOK ==
    /\ plugged \subseteq Paths
    /\ claimed \in [Paths -> Sessions \cup {None}]
    /\ chip \in [Paths -> {"cold", "off", "demod", "tuner"}]
    /\ ctx \in {"none", "up", "closing"}
    /\ table \in [Slots -> Sessions \cup {None}]
    /\ dev_count \in 0..MaxDevices
    /\ pending \subseteq Sessions
    /\ pc \in [Sessions -> {"none", "claim", "interface", "boot", "reclaim", "reboot", "probe",
                            "register", "open", "power", "unregister", "stop", "standby",
                            "deinit", "release", "free"}]
    /\ fd \in [Sessions -> Paths \cup {Gone, None}]
    /\ health \in [Sessions -> {"ok", "disconnected"}]
    /\ slot_index \in [Sessions -> Slots]
    /\ disputed \subseteq Paths

\* Each open device of a context has the slot it was told, below dev_count, and
\* every slot in use is that of such a device: first-fit reuse, closes in any
\* order and failing opens neither lose nor share one.  (Every variable has its type.)
SlotsAgree ==
    /\ TypeOK
    /\ \A s \in Sessions :
         (ctx = "up" /\ At(s, {"open", "power", "unregister"})) =>
             table[slot_index[s]] = s
    /\ \A i \in Slots :
         table[i] # None =>
             /\ i < dev_count
             /\ At(table[i], {"open", "power", "unregister"})
             /\ slot_index[table[i]] = i

\* A session that is over, by close or by the rollback of any phase, has left no
\* descriptor, claim or slot behind; nobody else has its device's claim; and destroy
\* has closed every device of the context: none is left open without one.
NothingLeft ==
    /\ ctx = "none" => \A s \in Sessions : At(s, {"none"})
    /\ \A s \in Sessions :
         At(s, {"none"}) => fd[s] = None /\ \A i \in Slots : table[i] # s
    /\ \A p \in Paths :
         claimed[p] # None => fd[claimed[p]] = p

\* Nothing another session does, in particular the rollback of a second open of the
\* same device that found its interface claimed, takes the interface from an open
\* device or switches its chip off -- unless that second open detached the first or an
\* rtl::init went on without the interface after its reset; and then only until every
\* session of that device is closed.
OpenDeviceWorks ==
    \A s \in Sessions :
        (At(s, {"open"}) /\ Linked(s) /\ fd[s] \notin disputed) =>
            claimed[fd[s]] = s /\ chip[fd[s]] = "tuner"
=============================================================================
