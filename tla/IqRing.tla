------------------------------- MODULE IqRing -------------------------------
(***************************************************************************)
(* The IQ ring of one device (src/sdrgg_ring.cpp): a single writer, the    *)
(* reader or event-loop thread that runs ring_write, and one consumer      *)
(* thread per subscriber that runs consumer_thread_fn.  Nothing makes the  *)
(* writer wait for a consumer: it publishes write_pos after the samples    *)
(* and each consumer compares it with its own read_pos.                    *)
(*                                                                         *)
(* The unit is a block of bytes.  A sample is its own index in the stream, *)
(* so that a cell of the ring tells which sample it holds.  Each memcpy is *)
(* a series of single-cell copies in any order (the two threads race on    *)
(* the cells: any order and any overlap is an outcome the build can have), *)
(* but the part before the end of the ring precedes the part after it.     *)
(*                                                                         *)
(* Bounds: MaxWritten caps the length of the stream.  sequence, a          *)
(* uint32_t, would wrap only after 2^32 buffers of one subscription.       *)
(***************************************************************************)
EXTENDS Integers

CONSTANTS
    Consumers,     \* subscriber slots of the ring (SDRGG_MAX_SUBSCRIBERS)
    RingSize,      \* SDRGG_RING_SIZE
    SegmentSize,   \* segment_size: what one callback gets
    Modulus,       \* 2^32: write_pos and read_pos are uint32_t
    Lens,          \* the lengths one ring_write can have
    MaxWritten     \* bound: length of the stream

ASSUME IqRingAssumption ==
    /\ RingSize \in Nat \ {0}
    /\ SegmentSize \in 1..RingSize
    /\ Modulus \in Nat /\ Modulus > RingSize /\ Modulus % RingSize = 0
    /\ Lens \subseteq 1..RingSize
    /\ MaxWritten \in Nat

VARIABLES
    data,        \* ring->data: the sample each cell holds, Fill at first
    write_pos,   \* ring->write_pos, modulo Modulus
    wlen,        \* length of the ring_write in progress, 0 between writes
    wtodo,       \* offsets of that write not stored yet
    health,      \* dev->health, as the consumers read it
    pc,          \* where each consumer thread is; "free" when there is none
    cancel,      \* sub->cancel
    read_pos,    \* sub->read_pos, modulo Modulus
    sequence,    \* sub->sequence
    todo,        \* offsets of the segment not copied yet
    buf,         \* delivery_buf
    written,     \* history: samples published since ring_init
    pos,         \* history: index in the stream of the segment being copied
    next         \* history: end of the last delivered segment, or where the
                 \* subscription started

writer == <<data, write_pos, wlen, wtodo, written>>
consumer == <<pc, cancel, read_pos, sequence, todo, buf, pos, next>>
vars == <<writer, health, consumer>>

-----------------------------------------------------------------------------

Fill == -1                       \* ring_init's memset: no sample of the stream
Cells == 0..RingSize-1
Offsets == 0..SegmentSize-1

\* (p & mask) + k, continued at the start of the ring
Cell(p, k) == ((p % RingSize) + k) % RingSize

\* Offsets that memcpy may copy now: those of the first part before the rest.
Copyable(p, offsets) ==
    LET before == {k \in offsets : (p % RingSize) + k < RingSize}
    IN  IF before # {} THEN before ELSE offsets

Init ==
    /\ data = [i \in Cells |-> Fill]
    /\ write_pos = 0
    /\ wlen = 0
    /\ wtodo = {}
    /\ health = "OK"
    /\ pc = [c \in Consumers |-> "free"]
    /\ cancel = [c \in Consumers |-> FALSE]
    /\ read_pos = [c \in Consumers |-> 0]
    /\ sequence = [c \in Consumers |-> 0]
    /\ todo = [c \in Consumers |-> {}]
    /\ buf = [c \in Consumers |-> [k \in Offsets |-> Fill]]
    /\ written = 0
    /\ pos = [c \in Consumers |-> 0]
    /\ next = [c \in Consumers |-> 0]

-----------------------------------------------------------------------------
(* The writer: ring_write, called by the one thread that acquires samples. *)

BeginWrite(len) ==
    /\ wlen = 0
    /\ written + len <= MaxWritten
    /\ wlen' = len
    /\ wtodo' = 0..len-1
    /\ UNCHANGED <<data, write_pos, written, health, consumer>>

\* Mutant: the second memcpy reads from data, not from data + first.
StoreCellRestarts ==
    \E k \in Copyable(write_pos, wtodo) :
        LET first == RingSize - (write_pos % RingSize)
            from  == IF k < first THEN k ELSE k - first
        IN  /\ data' = [data EXCEPT ![Cell(write_pos, k)] = written + from]
            /\ wtodo' = wtodo \ {k}
            /\ UNCHANGED <<write_pos, wlen, written, health, consumer>>

StoreCell ==
    \E k \in Copyable(write_pos, wtodo) :
        /\ data' = [data EXCEPT ![Cell(write_pos, k)] = written + k]
        /\ wtodo' = wtodo \ {k}
        /\ UNCHANGED <<write_pos, wlen, written, health, consumer>>

Publish ==
    /\ wlen > 0
    /\ wtodo = {}
    /\ write_pos' = (write_pos + wlen) % Modulus
    /\ written' = written + wlen
    /\ wlen' = 0
    /\ UNCHANGED <<data, wtodo, health, consumer>>

\* A USB call finds the device gone (usb::bulk_read, control_read/write).
Disconnect ==
    /\ health = "OK"
    /\ health' = "DISCONNECTED"
    /\ UNCHANGED <<writer, consumer>>

-----------------------------------------------------------------------------
(* The owner of a subscription: sdr::subscribe and sdr::unsubscribe.       *)

Subscribe(c) ==
    /\ pc[c] = "free"
    /\ pc' = [pc EXCEPT ![c] = "top"]
    /\ cancel' = [cancel EXCEPT ![c] = FALSE]
    /\ read_pos' = [read_pos EXCEPT ![c] = write_pos]
    /\ sequence' = [sequence EXCEPT ![c] = 0]
    /\ next' = [next EXCEPT ![c] = written]
    /\ UNCHANGED <<writer, health, todo, buf, pos>>

Cancel(c) ==
    /\ pc[c] # "free"
    /\ ~cancel[c]
    /\ cancel' = [cancel EXCEPT ![c] = TRUE]
    /\ UNCHANGED <<writer, health, pc, read_pos, sequence, todo, buf, pos, next>>

Join(c) ==
    /\ pc[c] = "exited"
    /\ cancel[c]
    /\ pc' = [pc EXCEPT ![c] = "free"]
    /\ UNCHANGED <<writer, health, cancel, read_pos, sequence, todo, buf, pos, next>>

-----------------------------------------------------------------------------
(* The consumer thread: consumer_thread_fn.                                *)

CheckCancel(c) ==
    /\ pc[c] = "top"
    /\ pc' = [pc EXCEPT ![c] = IF cancel[c] THEN "exited" ELSE "load"]
    /\ UNCHANGED <<writer, health, cancel, read_pos, sequence, todo, buf, pos, next>>

\* wp - rp in uint32_t arithmetic
Avail(c) == (write_pos - read_pos[c]) % Modulus

\* Mutant: an exact segment is not enough.
StarveAtOneSegment(c) ==
    /\ pc[c] = "load"
    /\ Avail(c) <= SegmentSize
    /\ pc' = [pc EXCEPT ![c] = "starved"]
    /\ UNCHANGED <<writer, health, cancel, read_pos, sequence, todo, buf, pos, next>>

Starve(c) ==
    /\ pc[c] = "load"
    /\ Avail(c) < SegmentSize
    /\ pc' = [pc EXCEPT ![c] = "starved"]
    /\ UNCHANGED <<writer, health, cancel, read_pos, sequence, todo, buf, pos, next>>

\* Mutant: whatever is there is taken for a segment.
ClaimPartial(c) ==
    /\ pc[c] = "load"
    /\ Avail(c) \in 1..RingSize
    /\ pc' = [pc EXCEPT ![c] = "copy"]
    /\ todo' = [todo EXCEPT ![c] = Offsets]
    /\ pos' = [pos EXCEPT ![c] = written - Avail(c)]
    /\ UNCHANGED <<writer, health, cancel, read_pos, sequence, buf, next>>

\* A segment is there and read_pos is at most one ring behind.
Claim(c) ==
    /\ pc[c] = "load"
    /\ Avail(c) \in SegmentSize..RingSize
    /\ pc' = [pc EXCEPT ![c] = "copy"]
    /\ todo' = [todo EXCEPT ![c] = Offsets]
    /\ pos' = [pos EXCEPT ![c] = written - Avail(c)]
    /\ UNCHANGED <<writer, health, cancel, read_pos, sequence, buf, next>>

\* Mutant: a full ring is already a lap.
LapSkipAtFull(c) ==
    /\ pc[c] = "load"
    /\ Avail(c) >= RingSize
    /\ pc' = [pc EXCEPT ![c] = "copy"]
    /\ read_pos' = [read_pos EXCEPT ![c] = (write_pos - SegmentSize) % Modulus]
    /\ todo' = [todo EXCEPT ![c] = Offsets]
    /\ pos' = [pos EXCEPT ![c] = written - SegmentSize]
    /\ UNCHANGED <<writer, health, cancel, sequence, buf, next>>

\* Mutant: the copy still starts at the old position.
LapSkipKeepsPosition(c) ==
    /\ pc[c] = "load"
    /\ Avail(c) > RingSize
    /\ pc' = [pc EXCEPT ![c] = "copy"]
    /\ todo' = [todo EXCEPT ![c] = Offsets]
    /\ pos' = [pos EXCEPT ![c] = written - SegmentSize]
    /\ UNCHANGED <<writer, health, cancel, read_pos, sequence, buf, next>>

\* The writer lapped this consumer: jump to the newest segment.
LapSkip(c) ==
    /\ pc[c] = "load"
    /\ Avail(c) > RingSize
    /\ pc' = [pc EXCEPT ![c] = "copy"]
    /\ read_pos' = [read_pos EXCEPT ![c] = (write_pos - SegmentSize) % Modulus]
    /\ todo' = [todo EXCEPT ![c] = Offsets]
    /\ pos' = [pos EXCEPT ![c] = written - SegmentSize]
    /\ UNCHANGED <<writer, health, cancel, sequence, buf, next>>

\* Mutant: after the sleep, cancel is not looked at.
NapSkipsCancel(c) ==
    /\ pc[c] = "starved"
    /\ pc' = [pc EXCEPT ![c] = IF health = "DISCONNECTED" THEN "exited" ELSE "load"]
    /\ UNCHANGED <<writer, health, cancel, read_pos, sequence, todo, buf, pos, next>>

\* Nothing to deliver: leave if the device is gone, else sleep and retry.
Nap(c) ==
    /\ pc[c] = "starved"
    /\ pc' = [pc EXCEPT ![c] = IF health = "DISCONNECTED" THEN "exited" ELSE "top"]
    /\ UNCHANGED <<writer, health, cancel, read_pos, sequence, todo, buf, pos, next>>

CopyCell(c) ==
    \E k \in Copyable(read_pos[c], todo[c]) :
        /\ pc[c] = "copy"
        /\ buf' = [buf EXCEPT ![c][k] = data[Cell(read_pos[c], k)]]
        /\ todo' = [todo EXCEPT ![c] = @ \ {k}]
        /\ UNCHANGED <<writer, health, pc, cancel, read_pos, sequence, pos, next>>

\* The callback is entered with desc.sequence = the value before the increment.
Deliver(c) ==
    /\ pc[c] = "copy"
    /\ todo[c] = {}
    /\ pc' = [pc EXCEPT ![c] = "callback"]
    /\ sequence' = [sequence EXCEPT ![c] = @ + 1]
    /\ UNCHANGED <<writer, health, cancel, read_pos, todo, buf, pos, next>>

\* Mutant: read_pos goes past 2^32.
ReturnWide(c) ==
    /\ pc[c] = "callback"
    /\ pc' = [pc EXCEPT ![c] = "top"]
    /\ read_pos' = [read_pos EXCEPT ![c] = @ + SegmentSize]
    /\ buf' = [buf EXCEPT ![c] = [k \in Offsets |-> Fill]]
    /\ next' = [next EXCEPT ![c] = pos[c] + SegmentSize]
    /\ UNCHANGED <<writer, health, cancel, sequence, todo, pos>>

\* The callback returns.  The content of delivery_buf is not used any more.
Return(c) ==
    /\ pc[c] = "callback"
    /\ pc' = [pc EXCEPT ![c] = "top"]
    /\ read_pos' = [read_pos EXCEPT ![c] = (@ + SegmentSize) % Modulus]
    /\ buf' = [buf EXCEPT ![c] = [k \in Offsets |-> Fill]]
    /\ next' = [next EXCEPT ![c] = pos[c] + SegmentSize]
    /\ UNCHANGED <<writer, health, cancel, sequence, todo, pos>>

-----------------------------------------------------------------------------

Writer == (\E len \in Lens : BeginWrite(len)) \/ StoreCell \/ Publish

Thread(c) ==
    \/ CheckCancel(c) \/ Starve(c) \/ Claim(c) \/ LapSkip(c) \/ Nap(c)
    \/ CopyCell(c) \/ Deliver(c) \/ Return(c)

Owner(c) == Subscribe(c) \/ Cancel(c) \/ Join(c)

Next ==
    \/ Writer
    \/ Disconnect
    \/ \E c \in Consumers : Thread(c) \/ Owner(c)

Spec == Init /\ [][Next]_vars

\* The scheduler runs the writer until its memcpy ends and the threads of the
\* consumers, and callbacks return.  Whether samples arrive is up to the
\* device, and whether a consumer is subscribed up to the caller.
FairSpec ==
    /\ Spec
    /\ WF_vars(StoreCell \/ Publish)
    /\ \A c \in Consumers : WF_vars(Thread(c))

-----------------------------------------------------------------------------

Copying(c) == pc[c] \in {"copy", "callback"}

\* Where the writer may be storing now: it ends at this sample.
Reserved == written + wlen

\* The values each variable can have.
TypeOK ==
    /\ data \in [Cells -> Int]
    /\ write_pos \in 0..Modulus-1
    /\ wlen \in Lens \cup {0}
    /\ wtodo \in SUBSET (0..wlen-1)
    /\ health \in {"OK", "DISCONNECTED"}
    /\ pc \in [Consumers -> {"free", "top", "load", "starved", "copy",
                             "callback", "exited"}]
    /\ cancel \in [Consumers -> BOOLEAN]
    /\ read_pos \in [Consumers -> 0..Modulus-1]
    /\ sequence \in [Consumers -> Nat]
    /\ todo \in [Consumers -> SUBSET Offsets]
    /\ buf \in [Consumers -> [Offsets -> Int]]
    /\ written \in 0..MaxWritten
    /\ pos \in [Consumers -> Int]
    /\ next \in [Consumers -> Int]

\* A buffer handed to a callback holds exactly the consecutive samples of its
\* segment, as long as the writer is not, at that moment, storing beyond one
\* ring after the start of the segment (ring_write publishes write_pos after
\* the samples, consumer_thread_fn copies in two parts at the end of the ring).
IntactUnlessOverrun ==
    \A c \in Consumers :
        pc[c] = "callback" /\ Reserved <= pos[c] + RingSize
            => \A k \in Offsets : buf[c][k] = pos[c] + k

\* A consumer only copies samples whose ring_write has been published.
NeverReadsUnpublished ==
    \A c \in Consumers : Copying(c) => pos[c] + SegmentSize <= written

\* Segments reach a callback in stream order, none twice, and a gap between
\* two of them means that the writer was more than a ring ahead: a consumer
\* that keeps up loses nothing, whatever the others do.
LossOnlyWhenLapped ==
    \A c \in Consumers :
        Copying(c) =>
            \/ pos[c] = next[c]
            \/ pos[c] > next[c] /\ written - next[c] > RingSize

\* The cells always hold the last RingSize samples stored, each at its index
\* modulo RingSize across the wrap of write_pos at 2^32: the publication order
\* of ring_write, on which consumers rely.
RingHoldsLatest ==
    \A p \in 0..written-1 :
        p >= Reserved - RingSize => data[p % RingSize] = p

\* What a subscriber sees of the ring: its thread waits, runs the callback with
\* the segment at pos, or is gone.
Stream == INSTANCE IqStream WITH
    Subscribers <- Consumers, Segment <- SegmentSize, Lag <- RingSize,
    Lengths <- Lens, published <- written, cursor <- next,
    state <- [c \in Consumers |->
                CASE pc[c] \in {"free", "exited"} -> "off"
                  [] pc[c] = "callback" -> "in"
                  [] OTHER -> "on"],
    piece <- [c \in Consumers |-> IF pc[c] = "callback" THEN pos[c] ELSE 0]

\* The ring implements the lossy stream: in-order segments without overlap, and
\* loss only for a subscriber more than a ring behind.
ImplementsStream == Stream!Spec

\* Unsubscribing ends the consumer thread, whether or not samples arrive, and so does
\* the loss of the device, once the thread has drained the ring: the owner's
\* pthread_join returns.
ThreadsEnd ==
    \A c \in Consumers :
        cancel[c] \/ (health = "DISCONNECTED" /\ pc[c] # "free")
            ~> pc[c] \in {"free", "exited"}

\* A consumer that is behind by a segment gets a callback or is unsubscribed,
\* unless it is not run while 2^32 bytes pass (write_pos - read_pos is then
\* small again and the loss goes unnoticed).
BacklogIsDelivered ==
    \A c \in Consumers :
        (pc[c] = "load" /\ written - next[c] \in SegmentSize..Modulus-1)
            ~> \/ pc[c] = "callback" \/ cancel[c]
               \/ written - next[c] >= Modulus
=============================================================================
