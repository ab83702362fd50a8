---------------------------- MODULE SessionProofs ----------------------------
(***************************************************************************)
(* SlotsAgree, NothingLeft and OpenDeviceWorks of Session, proved for any  *)
(* number of USB devices, sessions and slots.                              *)
(*                                                                         *)
(* The three hold together or not at all.  That a slot in use is that of   *)
(* an open device needs to know where a session can be while the context   *)
(* is created, used and destroyed; that an open device works needs to know *)
(* that whoever writes to its chip has the claim of its interface, from    *)
(* claiming to releasing it and not only while it is open.  A second open  *)
(* can take that claim away (Detach), and then the device is disputed:     *)
(* nothing is said of it until its sessions are closed.                    *)
(***************************************************************************)
EXTENDS Session, FiniteSetTheorems, TLAPS

\* The steps of close and of rollback_session
Ending == {"unregister", "stop", "standby", "deinit", "release", "free"}

\* No session outlives its context, and one that is being destroyed opens none: the open
\* ones are those it has not come to yet.
PhasesFit ==
    /\ ctx = "none" => \A s \in Sessions : pc[s] = "none"
    /\ ctx = "closing" =>
           \A s \in Sessions : pc[s] \in {"none"} \cup Ending \/ (pc[s] = "open" /\ s \in pending)

\* Everywhere between claiming the interface and releasing it, with the chance of a reset
Holding == {"boot", "reboot", "probe", "register", "open", "power"} \cup (Ending \ {"free"})

\* Whoever writes to a chip has the claim of its interface, unless it was taken away.
ClaimsHeld ==
    \A s \in Sessions :
        pc[s] \in Holding /\ Linked(s) /\ fd[s] \notin disputed => claimed[fd[s]] = s

\* A tuner that was started stays so until its session ends.
Started ==
    \A s \in Sessions :
        pc[s] \in {"register", "open", "power"} /\ Linked(s) /\ fd[s] \notin disputed =>
            chip[fd[s]] = "tuner"

Inv == PhasesFit /\ SlotsAgree /\ NothingLeft /\ ClaimsHeld /\ Started

-----------------------------------------------------------------------------
(* The first free slot.                                                    *)

(* A set of slots has a least element, found by the well-founded order of  *)
(* the finite sets of the numbers below each.                              *)
LEMMA LeastElement ==
    ASSUME NEW n \in Nat, NEW S \in SUBSET (0..n), S # {}
    PROVE  \E x \in S : \A y \in S : x <= y
<1> DEFINE Below(x) == {z \in 0..n : z <= x}
           Belows == {Below(x) : x \in S}
<1>1. IsWellFoundedOn(StrictSubsetOrdering(0..n), SUBSET (0..n))
    <2>1. IsFiniteSet(0..n)
        BY FS_Interval
    <2> QED BY <2>1, FS_FiniteSubsetsOfFinite, FS_StrictSubsetOrderingWellFounded
<1>2. Belows \subseteq SUBSET (0..n) /\ Belows # {}
    OBVIOUS
<1>3. \E T \in Belows : \A U \in Belows : <<U, T>> \notin StrictSubsetOrdering(0..n)
    <2> HIDE DEF Belows
    <2> QED BY <1>1, <1>2, WFMin
<1>4. PICK x \in S : \A y \in S : <<Below(y), Below(x)>> \notin StrictSubsetOrdering(0..n)
    BY <1>3
<1>5. ASSUME NEW y \in S PROVE x <= y
    <2>1. SUFFICES ASSUME y < x PROVE FALSE
        OBVIOUS
    <2>2. Below(y) \subseteq Below(x) /\ x \in Below(x) /\ x \notin Below(y)
        BY <2>1
    <2>3. Below(y) \in SUBSET (0..n) /\ Below(x) \in SUBSET (0..n) /\ Below(y) # Below(x)
        BY <2>2
    <2> QED BY <1>4, <2>2, <2>3 DEF StrictSubsetOrdering
<1> QED BY <1>5

(* open_path registers a device in a slot that is free                     *)
(* (src/sdrgg_core.cpp 353-370).                                           *)
LEMMA FreeSlot ==
    ASSUME FreeSlots # {}
    PROVE  Min(FreeSlots) \in Slots /\ table[Min(FreeSlots)] = None
<1>1. FreeSlots \in SUBSET (0..MaxDevices) /\ MaxDevices \in Nat
    BY SessionAssumption DEF FreeSlots, Slots
<1>2. \E x \in FreeSlots : \A y \in FreeSlots : x <= y
    BY <1>1, LeastElement
<1>3. Min(FreeSlots) \in FreeSlots
    BY <1>2 DEF Min
<1> QED BY <1>3 DEF FreeSlots

-----------------------------------------------------------------------------
(* Every step keeps the invariant.                                         *)

(* Plugging and unplugging a device                                        *)
LEMMA DevicesKeepInv ==
    ASSUME Inv, NEW p \in Paths, Plug(p) \/ Unplug(p)
    PROVE  Inv'
<1> USE SessionAssumption DEF usb, context, session, At, Goto, Linked, Slots
<1>1. CASE Plug(p)
    BY <1>1
    DEF Plug, Inv, TypeOK, PhasesFit, Ending, Holding,
        SlotsAgree, NothingLeft, ClaimsHeld, Started
<1>2. CASE Unplug(p)
    BY <1>2
    DEF Unplug, Vanish, Undisputed, Inv, TypeOK, PhasesFit, Ending, Holding,
        SlotsAgree, NothingLeft, ClaimsHeld, Started
<1> QED BY <1>1, <1>2

(* create and destroy                                                      *)
LEMMA ContextKeepsInv ==
    ASSUME Inv, Create \/ Destroy \/ Destroying
    PROVE  Inv'
<1> USE SessionAssumption DEF usb, context, session, At, Goto, Linked, Slots
<1>1. CASE Create
    BY <1>1
    DEF Create, Inv, TypeOK, PhasesFit, Ending, Holding,
        SlotsAgree, NothingLeft, ClaimsHeld, Started
<1>2. CASE Destroy
    BY <1>2
    DEF Destroy, Inv, TypeOK, PhasesFit, Ending, Holding,
        SlotsAgree, NothingLeft, ClaimsHeld, Started
<1>3. CASE FreeContext
    <2>1. \A t \in Sessions : pc[t] = "none"
        BY <1>3 DEF FreeContext, Inv, PhasesFit, Ending
    <2>2. TypeOK' /\ SlotsAgree' /\ NothingLeft' /\ ClaimsHeld' /\ Started'
        BY <1>3, <2>1
        DEF FreeContext, Inv, TypeOK, SlotsAgree, NothingLeft, ClaimsHeld, Started, Holding
    <2> QED BY <1>3, <2>1, <2>2 DEF FreeContext, Inv, PhasesFit
<1>4. ASSUME NEW s \in Sessions, CloseNext(s) PROVE Inv'
    BY <1>4
    DEF CloseNext, Inv, TypeOK, PhasesFit, Ending, Holding,
        SlotsAgree, NothingLeft, ClaimsHeld, Started
<1> QED BY <1>1, <1>2, <1>3, <1>4 DEF Destroying

(* The steps of open_path after its descriptor                             *)
LEMMA OpeningKeepsInv ==
    ASSUME Inv, NEW s \in Sessions, Opening(s)
    PROVE  Inv'
<1> USE SessionAssumption DEF usb, context, session, At, Goto, Linked, Slots
<1>0. CASE Detach(s)
    BY <1>0
    DEF Detach, DetachAny, Inv, TypeOK, PhasesFit, Ending, Holding,
        SlotsAgree, NothingLeft, ClaimsHeld, Started
<1>1. CASE Claim(s)
    BY <1>1
    DEF Claim, Inv, TypeOK, PhasesFit, Ending, Holding,
        SlotsAgree, NothingLeft, ClaimsHeld, Started
<1>2. CASE ClaimFails(s)
    BY <1>2
    DEF ClaimFails, Undo, UndoFrom, Inv, TypeOK, PhasesFit, Ending, Holding,
        SlotsAgree, NothingLeft, ClaimsHeld, Started
<1>3. CASE Boot(s)
    BY <1>3
    DEF Boot, Transfer, Inv, TypeOK, PhasesFit, Ending, Holding,
        SlotsAgree, NothingLeft, ClaimsHeld, Started
<1>4. CASE BootFails(s)
    <2>1. CASE Transfer(s, "demod")
        BY <1>4, <2>1
        DEF BootFails, Undo, UndoFrom, Unclaim, Transfer, Inv, TypeOK, PhasesFit, Ending,
            Holding, SlotsAgree, NothingLeft, ClaimsHeld, Started
    <2>2. CASE Linked(s) /\ UNCHANGED <<chip, health>>
        BY <1>4, <2>2
        DEF BootFails, Undo, UndoFrom, Unclaim, Transfer, Inv, TypeOK, PhasesFit, Ending,
            Holding, SlotsAgree, NothingLeft, ClaimsHeld, Started
    <2> QED BY <1>4, <2>1, <2>2 DEF BootFails
<1>5. CASE BootResets(s)
    BY <1>5
    DEF BootResets, DetachAny, Inv, TypeOK, PhasesFit, Ending, Holding,
        SlotsAgree, NothingLeft, ClaimsHeld, Started
<1>6. CASE Reclaim(s)
    <2>1. CASE Linked(s) /\ claimed[fd[s]] = None
               /\ claimed' = [claimed EXCEPT ![fd[s]] = s] /\ UNCHANGED disputed
        BY <1>6, <2>1
        DEF Reclaim, Inv, TypeOK, PhasesFit, Ending, Holding,
            SlotsAgree, NothingLeft, ClaimsHeld, Started
    <2>2. CASE disputed' = disputed \cup {p \in Paths : fd[s] = p} /\ UNCHANGED claimed
        BY <1>6, <2>2
        DEF Reclaim, Inv, TypeOK, PhasesFit, Ending, Holding,
            SlotsAgree, NothingLeft, ClaimsHeld, Started
    <2> QED BY <1>6, <2>1, <2>2 DEF Reclaim
<1>7. CASE StartTuner(s)
    BY <1>7
    DEF StartTuner, Transfer, Inv, TypeOK, PhasesFit, Ending, Holding,
        SlotsAgree, NothingLeft, ClaimsHeld, Started
<1>8. CASE StartTunerFails(s)
    <2>1. CASE Transfer(s, "tuner")
        BY <1>8, <2>1
        DEF StartTunerFails, Transfer, Undo, UndoFrom, Inv, TypeOK, PhasesFit, Ending,
            Holding, SlotsAgree, NothingLeft, ClaimsHeld, Started
    <2>2. CASE Linked(s) /\ UNCHANGED <<chip, health>>
        BY <1>8, <2>2
        DEF StartTunerFails, Transfer, Undo, UndoFrom, Inv, TypeOK, PhasesFit, Ending,
            Holding, SlotsAgree, NothingLeft, ClaimsHeld, Started
    <2> QED BY <1>8, <2>1, <2>2 DEF StartTunerFails
<1>9. CASE Register(s)
    BY <1>9, FreeSlot
    DEF Register, Inv, TypeOK, PhasesFit, Ending, Holding,
        SlotsAgree, NothingLeft, ClaimsHeld, Started
<1>10. CASE RegisterFails(s)
    BY <1>10
    DEF RegisterFails, Undo, UndoFrom, Inv, TypeOK, PhasesFit, Ending, Holding,
        SlotsAgree, NothingLeft, ClaimsHeld, Started
<1> QED
    BY <1>0, <1>1, <1>2, <1>3, <1>4, <1>5, <1>6, <1>7, <1>8, <1>9, <1>10 DEF Opening

(* The steps of close and of rollback_session                              *)
LEMMA ClosingKeepsInv ==
    ASSUME Inv, NEW s \in Sessions, Closing(s)
    PROVE  Inv'
<1> USE SessionAssumption DEF usb, context, session, At, Goto, Linked, Slots
<1>1. CASE Unregister(s)
    BY <1>1
    DEF Unregister, Inv, TypeOK, PhasesFit, Ending, Holding,
        SlotsAgree, NothingLeft, ClaimsHeld, Started
<1>2. CASE CheckHealth(s)
    BY <1>2
    DEF CheckHealth, Inv, TypeOK, PhasesFit, Ending, Holding,
        SlotsAgree, NothingLeft, ClaimsHeld, Started
<1>3. CASE Standby(s)
    <2>1. CASE Transfer(s, "demod")
        BY <1>3, <2>1
        DEF Standby, Transfer, Inv, TypeOK, PhasesFit, Ending,
            Holding, SlotsAgree, NothingLeft, ClaimsHeld, Started
    <2>2. CASE Linked(s) /\ UNCHANGED <<chip, health>>
        BY <1>3, <2>2
        DEF Standby, Transfer, Inv, TypeOK, PhasesFit, Ending,
            Holding, SlotsAgree, NothingLeft, ClaimsHeld, Started
    <2> QED BY <1>3, <2>1, <2>2 DEF Standby
<1>4. CASE Deinit(s)
    BY <1>4
    DEF Deinit, Transfer, Inv, TypeOK, PhasesFit, Ending, Holding,
        SlotsAgree, NothingLeft, ClaimsHeld, Started
<1>5. CASE Release(s)
    BY <1>5
    DEF Release, Unclaim, Inv, TypeOK, PhasesFit, Ending, Holding,
        SlotsAgree, NothingLeft, ClaimsHeld, Started
<1>6. CASE Free(s)
    BY <1>6
    DEF Free, Unclaim, Undisputed, Inv, TypeOK, PhasesFit, Ending, Holding,
        SlotsAgree, NothingLeft, ClaimsHeld, Started
<1> QED BY <1>1, <1>2, <1>3, <1>4, <1>5, <1>6 DEF Closing

(* What the application does with a device, and the power coming back      *)
LEMMA UsingKeepsInv ==
    ASSUME Inv, NEW s \in Sessions, Using(s) \/ PowerOn(s)
    PROVE  Inv'
<1> USE SessionAssumption DEF usb, context, session, At, Goto, Linked, Slots
<1>1. CASE OpenFd(s)
    BY <1>1
    DEF OpenFd, Inv, TypeOK, PhasesFit, Ending, Holding,
        SlotsAgree, NothingLeft, ClaimsHeld, Started
<1>2. CASE NoticeGone(s)
    BY <1>2
    DEF NoticeGone, Transfer, Inv, TypeOK, PhasesFit, Ending, Holding,
        SlotsAgree, NothingLeft, ClaimsHeld, Started
<1>3. CASE ResetUsb(s)
    BY <1>3
    DEF ResetUsb, DetachAny, Undisputed, Inv, TypeOK, PhasesFit, Ending, Holding,
        SlotsAgree, NothingLeft, ClaimsHeld, Started
<1>4. CASE PowerOff(s)
    BY <1>4
    DEF PowerOff, Vanish, Undisputed, Inv, TypeOK, PhasesFit, Ending, Holding,
        SlotsAgree, NothingLeft, ClaimsHeld, Started
<1>5. CASE PowerOn(s)
    BY <1>5
    DEF PowerOn, Inv, TypeOK, PhasesFit, Ending, Holding,
        SlotsAgree, NothingLeft, ClaimsHeld, Started
<1>6. CASE Close(s)
    BY <1>6
    DEF Close, Inv, TypeOK, PhasesFit, Ending, Holding,
        SlotsAgree, NothingLeft, ClaimsHeld, Started
<1> QED BY <1>1, <1>2, <1>3, <1>4, <1>5, <1>6 DEF Using

(* The initial states, and steps that change nothing                       *)
LEMMA InitInv == Init => Inv
<1> SUFFICES ASSUME Init PROVE Inv
    OBVIOUS
<1>1. 0 \in Slots /\ 0 \in 0..MaxDevices
    BY SessionAssumption DEF Slots
<1>2. TypeOK
    BY <1>1 DEF Init, TypeOK
<1>3. \A s \in Sessions : ~Linked(s)
    BY SessionAssumption DEF Init, Linked
<1> QED BY <1>2, <1>3, SessionAssumption
        DEF Init, Inv, PhasesFit, SlotsAgree, NothingLeft, ClaimsHeld, Started, At

(* Every step of the session API.                                         *)
LEMMA StepKeepsInv == Inv /\ [Next]_vars => Inv'
<1> SUFFICES ASSUME Inv, [Next]_vars PROVE Inv'
    OBVIOUS
<1>1. CASE UNCHANGED vars
    BY <1>1 DEF vars, usb, context, session, Inv, TypeOK, PhasesFit, SlotsAgree, NothingLeft,
                ClaimsHeld, Started, Linked, At
<1>2. CASE Next
    BY <1>2, DevicesKeepInv, ContextKeepsInv, OpeningKeepsInv, ClosingKeepsInv, UsingKeepsInv
    DEF Next
<1> QED BY <1>1, <1>2

(* The invariant holds of every reachable state.                           *)
LEMMA InvHolds == Spec => []Inv
BY InitInv, StepKeepsInv, PTL DEF Spec

-----------------------------------------------------------------------------
(* The theorems.                                                           *)

(* Slots and open devices agree, however opens and closes interleave, and  *)
(* every variable has its type (open_path phase D, close, destroy).        *)
THEOREM SlotsAlwaysAgree == Spec => []SlotsAgree
<1>1. Inv => SlotsAgree
    BY DEF Inv
<1> QED BY <1>1, InvHolds, PTL

(* A session that is over has left no descriptor, claim or slot, and a     *)
(* context that is gone no session (rollback_session, close, destroy).     *)
THEOREM NothingIsLeft == Spec => []NothingLeft
<1>1. Inv => NothingLeft
    BY DEF Inv
<1> QED BY <1>1, InvHolds, PTL

(* An open device has its interface and its tuner, whatever other sessions *)
(* of it or of other devices do (open_path, close), until usb::claim takes *)
(* its interface for a second open of it (src/sdrgg_usb.cpp 183-193) or an *)
(* rtl::init goes on without it; and again once all of them are closed.    *)
THEOREM OpenDevicesWork == Spec => []OpenDeviceWorks
<1>1. Inv => OpenDeviceWorks
    BY DEF Inv, ClaimsHeld, Started, OpenDeviceWorks, Holding, At, Linked
<1> QED BY <1>1, InvHolds, PTL
=============================================================================
