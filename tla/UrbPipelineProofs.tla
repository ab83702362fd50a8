-------------------------- MODULE UrbPipelineProofs --------------------------
(***************************************************************************)
(* The invariants of UrbPipeline, proved for every depth and whatever      *)
(* number of transfers and errors.                                         *)
(***************************************************************************)
EXTENDS UrbPipeline, FiniteSetTheorems, SequenceTheorems, TLAPS

Completions == [urb : Urbs, transfer : 0..MaxTransfers]

\* The kernel has u, in flight or completed.
Has(u) ==
    \/ \E k \in 1..Len(inflight) : inflight[k] = u
    \/ \E k \in 1..Len(completed) : completed[k].urb = u

\* It has none twice.
Distinct ==
    /\ \A i, j \in 1..Len(inflight) : inflight[i] = inflight[j] => i = j
    /\ \A i, j \in 1..Len(completed) : completed[i].urb = completed[j].urb => i = j
    /\ \A i \in 1..Len(inflight), j \in 1..Len(completed) : inflight[i] # completed[j].urb

KernelType == inflight \in Seq(Urbs) /\ completed \in Seq(Completions)

KernelFits == KernelType /\ Distinct

Held == Len(inflight) + Len(completed)

\* The loop has taken its URB from the kernel and not given it back.
HasUrb == loop.pc \in {"check", "callback", "resubmit", "submit"}

HandFits == HasUrb => ~Has(loop.u)

\* URBs that have been given to the kernel so far.
Given ==
    IF ReaderAt("alloc") THEN 0
    ELSE IF ReaderAt("submit") THEN reader.i - 1
    ELSE IF ReaderAt("mark") THEN reader.i
    ELSE Depth

GivenFits == \A u \in Urbs : Has(u) \/ (HasUrb /\ loop.u = u) => u <= Given

IndexFits ==
    reader.pc \in {"submit", "mark", "discard", "discard2", "block", "block2"}
        => reader.i <= Depth

\* Submissions not counted yet.
Unmarked == (IF ReaderAt("mark") THEN 1 ELSE 0) + (IF LoopAt("mark") THEN 1 ELSE 0)

\* A floor of zero makes submitted exceed what the kernel has, by one at most: while
\* both threads are between the ioctl and the count, nobody can reap.
CountFits ==
    /\ Unmarked <= Held + 1
    /\ submitted <= Held - Unmarked + 1

-----------------------------------------------------------------------------

\* Data is completed in order ...
Increasing ==
    /\ \A i, j \in 1..Len(completed) :
           i < j /\ completed[i].transfer # NoTransfer /\ completed[j].transfer # NoTransfer
               => completed[i].transfer < completed[j].transfer
    /\ \A i \in 1..Len(completed) : completed[i].transfer <= transfers

\* ... and comes after what has been delivered.
NoneDelivered ==
    /\ delivered <= transfers
    /\ \A i \in 1..Len(completed) :
           completed[i].transfer # NoTransfer => completed[i].transfer > delivered

\* The loop's own transfer is the next one.
NextInHand ==
    /\ LoopAt("callback") => loop.transfer # NoTransfer
    /\ loop.pc \in {"check", "callback"} /\ loop.transfer # NoTransfer =>
           /\ loop.transfer > delivered /\ loop.transfer <= transfers
           /\ \A i \in 1..Len(completed) :
                  completed[i].transfer # NoTransfer => completed[i].transfer > loop.transfer

Ordered == Increasing /\ NoneDelivered /\ NextInHand

Inv == TypeOK /\ KernelFits /\ HandFits /\ GivenFits /\ IndexFits /\ CountFits /\ Ordered

-----------------------------------------------------------------------------
(* The kernel's two sequences.                                             *)

\* The URB at index k leaves the sequence inflight.
Leaves(k) ==
    /\ inflight' \in Seq(Urbs) /\ Len(inflight') = Len(inflight) - 1
    /\ \A i \in 1..Len(inflight') :
           inflight'[i] = IF i < k THEN inflight[i] ELSE inflight[i + 1]

\* c becomes the last completion.
Arrives(c) ==
    /\ completed' \in Seq(Completions) /\ Len(completed') = Len(completed) + 1
    /\ \A i \in 1..Len(completed) : completed'[i] = completed[i]
    /\ completed'[Len(completed) + 1] = c

\* The first completion is reaped.
Reaps ==
    /\ Len(completed) > 0
    /\ completed' \in Seq(Completions) /\ Len(completed') = Len(completed) - 1
    /\ \A i \in 1..Len(completed') : completed'[i] = completed[i + 1]

(* The oldest URB leaves ...                                               *)
LEMMA OldestLeaves ==
    ASSUME KernelType, inflight # <<>>, inflight' = Tail(inflight)
    PROVE  /\ 1 \in 1..Len(inflight) /\ inflight[1] = Head(inflight) /\ Leaves(1)
<1>1. Len(inflight) \in Nat \ {0}
    BY EmptySeq DEF KernelType
<1>2. /\ Tail(inflight) \in Seq(Urbs) /\ Len(Tail(inflight)) = Len(inflight) - 1
      /\ \A i \in 1..Len(Tail(inflight)) : Tail(inflight)[i] = inflight[i + 1]
    BY HeadTailProperties DEF KernelType
<1>3. Head(inflight) = inflight[1]
    BY DEF KernelType
<1> QED BY <1>1, <1>2, <1>3 DEF Leaves

(* ... or any other.                                                       *)
LEMMA AnyLeaves ==
    ASSUME KernelType, NEW k \in 1..Len(inflight), inflight' = RemoveAt(inflight, k)
    PROVE  Leaves(k)
<1> DEFINE a == SubSeq(inflight, 1, k - 1)
           b == SubSeq(inflight, k + 1, Len(inflight))
<1>1. Len(inflight) \in Nat /\ \A i \in 1..Len(inflight) : inflight[i] \in Urbs
    BY LenProperties, ElementOfSeq DEF KernelType
<1>2. /\ a \in Seq(Urbs) /\ Len(a) = k - 1
      /\ \A i \in 1..(k - 1) : a[i] = inflight[i]
    <2>1. k - 1 \in Int /\ \A i \in 1..(k - 1) : inflight[i] \in Urbs
        BY <1>1
    <2> HIDE DEF a
    <2>2. /\ a \in Seq(Urbs) /\ Len(a) = IF 1 <= k - 1 THEN (k - 1) - 1 + 1 ELSE 0
          /\ \A i \in 1..((k - 1) - 1 + 1) : a[i] = inflight[1 + i - 1]
        BY <2>1, SubSeqProperties DEF a
    <2> QED BY <1>1, <2>2
<1>3. /\ b \in Seq(Urbs) /\ Len(b) = Len(inflight) - k
      /\ \A i \in 1..(Len(inflight) - k) : b[i] = inflight[k + i]
    <2>1. k + 1 \in Int /\ \A i \in (k + 1)..Len(inflight) : inflight[i] \in Urbs
        BY <1>1
    <2> HIDE DEF b
    <2>2. /\ b \in Seq(Urbs)
          /\ Len(b) = IF k + 1 <= Len(inflight) THEN Len(inflight) - (k + 1) + 1 ELSE 0
          /\ \A i \in 1..(Len(inflight) - (k + 1) + 1) : b[i] = inflight[(k + 1) + i - 1]
        BY <1>1, <2>1, SubSeqProperties DEF b
    <2> QED BY <1>1, <2>2
<1>4. inflight' = a \o b
    BY DEF RemoveAt
<1> HIDE DEF a, b
<1>5. /\ a \o b \in Seq(Urbs) /\ Len(a \o b) = Len(inflight) - 1
      /\ \A i \in 1..(Len(inflight) - 1) :
             (a \o b)[i] = IF i <= k - 1 THEN a[i] ELSE b[i - (k - 1)]
    <2>1. /\ a \o b \in Seq(Urbs) /\ Len(a \o b) = Len(a) + Len(b)
          /\ \A i \in 1..Len(a) + Len(b) :
                 (a \o b)[i] = IF i <= Len(a) THEN a[i] ELSE b[i - Len(a)]
        BY <1>2, <1>3, ConcatProperties
    <2> QED BY <1>1, <1>2, <1>3, <2>1
<1> QED BY <1>1, <1>2, <1>3, <1>4, <1>5 DEF Leaves

(* A completion arrives.                                                   *)
LEMMA LastArrives ==
    ASSUME KernelType, NEW c \in Completions, completed' = Append(completed, c)
    PROVE  Arrives(c)
BY AppendProperties DEF KernelType, Arrives

(* The first is reaped.                                                    *)
LEMMA FirstReaped ==
    ASSUME KernelType, completed # <<>>, completed' = Tail(completed)
    PROVE  Reaps /\ Head(completed) = completed[1] /\ completed[1] \in Completions
<1>1. Len(completed) \in Nat \ {0}
    BY EmptySeq DEF KernelType
<1>2. /\ Tail(completed) \in Seq(Completions) /\ Len(Tail(completed)) = Len(completed) - 1
      /\ \A i \in 1..Len(Tail(completed)) : Tail(completed)[i] = completed[i + 1]
      /\ Head(completed) \in Completions
    BY HeadTailProperties DEF KernelType
<1>3. Head(completed) = completed[1]
    BY DEF KernelType
<1> QED BY <1>1, <1>2, <1>3 DEF Reaps

(* An URB that completes stays with the kernel.                            *)
LEMMA KernelCompletes ==
    ASSUME KernelFits, NEW k \in 1..Len(inflight), NEW n \in 0..MaxTransfers,
           Leaves(k), Arrives(Done(inflight[k], n))
    PROVE  KernelFits' /\ Held' = Held /\ \A u \in Urbs : Has(u)' <=> Has(u)
<1>1. Len(inflight) \in Nat /\ Len(completed) \in Nat /\ Len(inflight') \in Nat
      /\ Len(completed') \in Nat
    BY LenProperties DEF KernelFits, KernelType, Leaves, Arrives
<1>2. KernelType' /\ Held' = Held
    BY <1>1 DEF KernelType, Leaves, Arrives, Held
<1>3. Distinct'
    <2> DEFINE was(i) == IF i < k THEN i ELSE i + 1
    <2>1. \A i \in 1..Len(inflight') :
              was(i) \in 1..Len(inflight) /\ was(i) # k /\ inflight'[i] = inflight[was(i)]
        BY <1>1 DEF Leaves
    <2>2. \A i, j \in 1..Len(inflight') : was(i) = was(j) => i = j
        BY <1>1
    <2> HIDE DEF was
    <2>3. \A j \in 1..Len(completed') :
              \/ j \in 1..Len(completed) /\ completed'[j] = completed[j]
              \/ j = Len(completed) + 1 /\ completed'[j].urb = inflight[k]
        BY <1>1 DEF Arrives, Done
    <2>4. \A i, j \in 1..Len(completed') : completed'[i].urb = completed'[j].urb => i = j
        BY ZenonT(30), <1>1, <2>3 DEF KernelFits, Distinct
    <2>5. \A i \in 1..Len(inflight'), j \in 1..Len(completed') :
              inflight'[i] # completed'[j].urb
        BY SMTT(30), <1>1, <2>1, <2>3 DEF KernelFits, Distinct
    <2>6. \A i, j \in 1..Len(inflight') : inflight'[i] = inflight'[j] => was(i) = was(j)
        BY SMTT(30), <2>1 DEF KernelFits, Distinct
    <2> QED BY <2>2, <2>4, <2>5, <2>6 DEF Distinct
<1>4. ASSUME NEW u \in Urbs, Has(u) PROVE Has(u)'
    <2>1. CASE \E i \in 1..Len(inflight) : inflight[i] = u
        <3>1. PICK i \in 1..Len(inflight) : inflight[i] = u
            BY <2>1
        <3>2. CASE i < k
            BY <1>1, <3>1, <3>2 DEF Has, Leaves
        <3>3. CASE i = k
            BY <1>1, <3>1, <3>3 DEF Has, Arrives, Done
        <3>4. CASE i > k
            <4>1. inflight'[i - 1] = u /\ i - 1 \in 1..Len(inflight')
                BY <1>1, <3>1, <3>4 DEF Leaves
            <4> QED BY <4>1 DEF Has
        <3> QED BY <3>2, <3>3, <3>4
    <2>2. CASE \E i \in 1..Len(completed) : completed[i].urb = u
        BY SMTT(30), <1>1, <2>2 DEF Has, Arrives
    <2> QED BY <1>4, <2>1, <2>2 DEF Has
<1>5. ASSUME NEW u \in Urbs, Has(u)' PROVE Has(u)
    <2>1. CASE \E i \in 1..Len(inflight') : inflight'[i] = u
        <3>1. PICK i \in 1..Len(inflight') : inflight'[i] = u
            BY <2>1
        <3>2. inflight[i] = u \/ inflight[i + 1] = u
            BY <3>1 DEF Leaves
        <3>3. i \in 1..Len(inflight) /\ i + 1 \in 1..Len(inflight)
            BY <1>1, <3>1 DEF Leaves
        <3> QED BY <3>2, <3>3 DEF Has
    <2>2. CASE \E i \in 1..Len(completed') : completed'[i].urb = u
        <3>1. PICK i \in 1..Len(completed') : completed'[i].urb = u
            BY <2>2
        <3>2. \/ i \in 1..Len(completed) /\ completed[i].urb = u
              \/ u = inflight[k]
            BY <1>1, <3>1 DEF Arrives, Done
        <3> QED BY <3>2 DEF Has
    <2> QED BY <1>5, <2>1, <2>2 DEF Has
<1> QED BY <1>2, <1>3, <1>4, <1>5 DEF KernelFits

(* An unplugged device gives back all URBs.                                *)
LEMMA KernelDrops ==
    ASSUME KernelFits, inflight' = <<>>,
           completed' = completed \o [k \in DOMAIN inflight |-> Done(inflight[k], NoTransfer)]
    PROVE  /\ KernelFits' /\ Held' = Held /\ \A u \in Urbs : Has(u)' <=> Has(u)
           /\ Len(completed') = Len(completed) + Len(inflight)
           /\ \A i \in 1..Len(completed) : completed'[i] = completed[i]
           /\ \A i \in 1..Len(completed') :
                  i > Len(completed) =>
                      completed'[i] = Done(inflight[i - Len(completed)], NoTransfer)
<1> DEFINE rest == [k \in DOMAIN inflight |-> Done(inflight[k], NoTransfer)]
<1>1. /\ Len(inflight) \in Nat /\ Len(completed) \in Nat
      /\ DOMAIN inflight = 1..Len(inflight)
      /\ \A k \in 1..Len(inflight) : inflight[k] \in Urbs
    BY LenProperties, ElementOfSeq DEF KernelFits, KernelType
<1>2. \A k \in DOMAIN inflight : Done(inflight[k], NoTransfer) \in Completions
    BY <1>1, UrbPipelineAssumption DEF Done, Completions, NoTransfer
<1>3. rest \in [1..Len(inflight) -> Completions]
    BY <1>1, <1>2
<1>4. rest \in Seq(Completions) /\ Len(rest) = Len(inflight)
    <2> HIDE DEF rest
    <2>1. rest \in Seq(Completions)
        BY <1>1, <1>3, SeqDef
    <2> QED BY <1>1, <1>3, <2>1, LenProperties
<1>5. \A k \in 1..Len(inflight) : rest[k] = Done(inflight[k], NoTransfer)
    BY <1>1
<1> HIDE DEF rest
<1>6. /\ completed' \in Seq(Completions) /\ Len(completed') = Len(completed) + Len(inflight)
      /\ \A i \in 1..Len(completed') :
             completed'[i] = IF i <= Len(completed) THEN completed[i]
                                                   ELSE rest[i - Len(completed)]
    <2>1. completed' = completed \o rest
        BY DEF rest
    <2>2. /\ completed \o rest \in Seq(Completions)
          /\ Len(completed \o rest) = Len(completed) + Len(rest)
          /\ \A i \in 1..Len(completed) + Len(rest) :
                 (completed \o rest)[i] = IF i <= Len(completed) THEN completed[i]
                                                                ELSE rest[i - Len(completed)]
        BY <1>4, ConcatProperties DEF KernelFits, KernelType
    <2> QED BY <1>1, <1>4, <2>1, <2>2
<1>7. /\ \A i \in 1..Len(completed) : completed'[i] = completed[i]
      /\ \A i \in 1..Len(completed') :
             i > Len(completed) =>
                 completed'[i] = Done(inflight[i - Len(completed)], NoTransfer)
    BY <1>1, <1>5, <1>6
<1>8. Len(inflight') = 0 /\ inflight' \in Seq(Urbs)
    BY EmptySeq
<1>9. KernelType' /\ Held' = Held
    BY <1>1, <1>6, <1>8 DEF KernelType, Held
<1>10. Distinct'
    BY <1>1, <1>6, <1>7, <1>8 DEF Distinct, KernelFits, Done
<1>11. ASSUME NEW u \in Urbs, Has(u) PROVE Has(u)'
    <2>1. CASE \E i \in 1..Len(inflight) : inflight[i] = u
        <3>1. PICK i \in 1..Len(inflight) : inflight[i] = u
            BY <2>1
        <3>2. /\ completed'[Len(completed) + i].urb = u
              /\ Len(completed) + i \in 1..Len(completed')
            BY <1>1, <1>6, <1>7, <3>1 DEF Done
        <3> QED BY <3>2 DEF Has
    <2>2. CASE \E i \in 1..Len(completed) : completed[i].urb = u
        BY <1>1, <1>6, <1>7, <2>2 DEF Has
    <2> QED BY <1>11, <2>1, <2>2 DEF Has
<1>12. ASSUME NEW u \in Urbs, Has(u)' PROVE Has(u)
    <2>1. PICK i \in 1..Len(completed') : completed'[i].urb = u
        BY <1>8, <1>12 DEF Has
    <2> QED BY <1>1, <1>6, <1>7, <2>1 DEF Has, Done
<1> QED BY <1>6, <1>7, <1>9, <1>10, <1>11, <1>12 DEF KernelFits

(* An URB the kernel does not have is submitted.                           *)
LEMMA KernelTakes ==
    ASSUME KernelFits, NEW u \in Urbs, ~Has(u), inflight' = Append(inflight, u),
           completed' = completed
    PROVE  KernelFits' /\ Held' = Held + 1 /\ \A v \in Urbs : Has(v)' <=> Has(v) \/ v = u
<1>1. /\ inflight' \in Seq(Urbs) /\ Len(inflight') = Len(inflight) + 1
      /\ \A i \in 1..Len(inflight) : inflight'[i] = inflight[i]
      /\ inflight'[Len(inflight) + 1] = u
    BY AppendProperties DEF KernelFits, KernelType
<1>2. Len(inflight) \in Nat /\ Len(completed) \in Nat
    BY LenProperties DEF KernelFits, KernelType
<1>3. KernelType' /\ Held' = Held + 1
    BY <1>1, <1>2 DEF KernelFits, KernelType, Held
<1>4. Distinct'
    BY <1>1, <1>2 DEF KernelFits, Distinct, Has
<1>5. \A v \in Urbs : Has(v)' <=> Has(v) \/ v = u
    BY <1>1, <1>2 DEF Has
<1> QED BY <1>3, <1>4, <1>5 DEF KernelFits

(* A reaped URB is no longer the kernel's.                                 *)
LEMMA KernelGives ==
    ASSUME KernelFits, Reaps, inflight' = inflight, NEW first, first = completed[1].urb
    PROVE  /\ KernelFits' /\ Held' = Held - 1 /\ Held' \in Nat
           /\ Has(first) /\ ~Has(first)'
           /\ \A u \in Urbs : Has(u)' => Has(u)
<1>1. Len(inflight) \in Nat /\ Len(completed) \in Nat /\ Len(completed') \in Nat
    BY LenProperties DEF KernelFits, KernelType, Reaps
<1>2. KernelType' /\ Held' = Held - 1 /\ Held' \in Nat
    BY <1>1 DEF KernelFits, KernelType, Reaps, Held
<1>3. \A i \in 1..Len(completed') :
          completed'[i] = completed[i + 1] /\ i + 1 \in 1..Len(completed)
    BY <1>1 DEF Reaps
<1>4. Distinct'
    <2>1. \A i, j \in 1..Len(completed') :
              completed'[i].urb = completed'[j].urb => i + 1 = j + 1
        BY <1>3 DEF KernelFits, Distinct
    <2>2. \A i, j \in 1..Len(completed') : i + 1 = j + 1 => i = j
        BY <1>1
    <2>3. \A i \in 1..Len(inflight'), j \in 1..Len(completed') :
              inflight'[i] # completed'[j].urb
        BY <1>3 DEF KernelFits, Distinct
    <2> QED BY <2>1, <2>2, <2>3 DEF KernelFits, Distinct
<1>5. Has(first)
    BY <1>1 DEF Reaps, Has
<1>6. ~Has(first)'
    <2>1. 1 \in 1..Len(completed)
        BY <1>1 DEF Reaps
    <2>2. \A i \in 1..Len(inflight) : inflight[i] # first
        BY <2>1 DEF KernelFits, Distinct
    <2>3. \A i \in 1..Len(completed') : completed[i + 1].urb # first
        <3> TAKE i \in 1..Len(completed')
        <3>1. i + 1 \in 1..Len(completed) /\ i + 1 # 1
            BY <1>1, <1>3
        <3> QED BY <2>1, <3>1 DEF KernelFits, Distinct
    <2> QED BY <1>3, <2>2, <2>3 DEF Has
<1>7. \A u \in Urbs : Has(u)' => Has(u)
    BY <1>3 DEF Has
<1> QED BY <1>2, <1>4, <1>5, <1>6, <1>7 DEF KernelFits

(* What the kernel has is one sequence without repetitions ...             *)
LEMMA KernelInjective ==
    ASSUME KernelFits
    PROVE  InKernel \in [1..Held -> Urbs] /\ IsInjective(InKernel) /\ Held \in Nat
<1> DEFINE urbs == [k \in DOMAIN completed |-> completed[k].urb]
<1>1. /\ Len(inflight) \in Nat /\ Len(completed) \in Nat
      /\ DOMAIN completed = 1..Len(completed)
      /\ \A k \in 1..Len(completed) : completed[k].urb \in Urbs
    <2>1. \A k \in 1..Len(completed) : completed[k] \in Completions
        BY ElementOfSeq DEF KernelFits, KernelType
    <2> QED BY <2>1, LenProperties DEF KernelFits, KernelType, Completions
<1>2. urbs \in [1..Len(completed) -> Urbs]
    BY <1>1
<1>3. \A k \in 1..Len(completed) : urbs[k] = completed[k].urb
    BY <1>1
<1>4. InKernel = inflight \o urbs
    BY DEF InKernel
<1> HIDE DEF urbs
<1>5. urbs \in Seq(Urbs) /\ Len(urbs) = Len(completed)
    <2>1. urbs \in Seq(Urbs)
        BY <1>1, <1>2, SeqDef
    <2> QED BY <1>1, <1>2, <2>1, LenProperties
<1>6. /\ InKernel \in Seq(Urbs) /\ Len(InKernel) = Len(inflight) + Len(urbs)
      /\ \A i \in 1..Len(inflight) + Len(urbs) :
             InKernel[i] = IF i <= Len(inflight) THEN inflight[i] ELSE urbs[i - Len(inflight)]
    BY ZenonT(30), <1>4, <1>5, ConcatProperties DEF KernelFits, KernelType
<1>7. \A i \in 1..Held :
          \/ i \in 1..Len(inflight) /\ InKernel[i] = inflight[i]
          \/ /\ i > Len(inflight) /\ i - Len(inflight) \in 1..Len(completed)
             /\ InKernel[i] = completed[i - Len(inflight)].urb
    <2>1. Held = Len(inflight) + Len(completed) /\ Len(urbs) = Len(completed)
        BY <1>5 DEF Held
    <2> SUFFICES ASSUME NEW i \in 1..Held
                 PROVE  \/ i \in 1..Len(inflight) /\ InKernel[i] = inflight[i]
                        \/ /\ i > Len(inflight) /\ i - Len(inflight) \in 1..Len(completed)
                           /\ InKernel[i] = completed[i - Len(inflight)].urb
        OBVIOUS
    <2>2. i \in Int /\ i >= 1 /\ i <= Len(inflight) + Len(completed)
        BY <1>1, <2>1
    <2>3. InKernel[i] = IF i <= Len(inflight) THEN inflight[i] ELSE urbs[i - Len(inflight)]
        BY <1>6, <2>1
    <2>4. CASE i <= Len(inflight)
        BY <1>1, <2>2, <2>3, <2>4
    <2>5. CASE i > Len(inflight)
        <3>1. i - Len(inflight) \in 1..Len(completed)
            BY <1>1, <2>2, <2>5
        <3>2. InKernel[i] = urbs[i - Len(inflight)]
            BY <1>1, <2>2, <2>3, <2>5
        <3> QED BY <1>3, <2>5, <3>1, <3>2
    <2> QED BY <1>1, <2>2, <2>4, <2>5
<1>8. InKernel \in [1..Held -> Urbs] /\ Held \in Nat
    BY <1>1, <1>5, <1>6, LenProperties DEF Held
<1>9. ASSUME NEW i \in 1..Held, NEW j \in 1..Held, InKernel[i] = InKernel[j]
      PROVE  i = j
    <2>1. CASE i \in 1..Len(inflight) /\ j \in 1..Len(inflight)
        BY <1>1, <1>7, <1>9, <2>1 DEF KernelFits, Distinct
    <2>2. CASE i > Len(inflight) /\ j > Len(inflight)
        <3>1. i - Len(inflight) = j - Len(inflight)
            BY <1>1, <1>7, <1>9, <2>2 DEF KernelFits, Distinct
        <3> QED BY <1>1, <3>1
    <2>3. CASE i > Len(inflight) <=> j <= Len(inflight)
        BY <1>1, <1>7, <1>9, <2>3 DEF KernelFits, Distinct
    <2> QED BY <1>1, <2>1, <2>2, <2>3
<1> QED BY <1>8, <1>9 DEF IsInjective

(* ... so it has no more than there are.                                   *)
LEMMA KernelBounded ==
    ASSUME KernelFits
    PROVE  Held \in 0..Depth
<1>1. InKernel \in [1..Held -> Urbs] /\ IsInjective(InKernel) /\ Held \in Nat
    BY KernelInjective
<1>2. /\ IsFiniteSet(1..Held) /\ Cardinality(1..Held) = Held
      /\ IsFiniteSet(Urbs) /\ Cardinality(Urbs) = Depth
    BY <1>1, FS_Interval, UrbPipelineAssumption DEF Urbs
<1>3. ~(Depth < Held)
    <2> SUFFICES ASSUME Depth < Held PROVE FALSE
        OBVIOUS
    <2>1. \E i, j \in 1..Held : i # j /\ InKernel[i] = InKernel[j]
        BY <1>1, <1>2, FS_PigeonHole
    <2> QED BY <1>1, <2>1 DEF IsInjective
<1> QED BY <1>1, <1>3, UrbPipelineAssumption

-----------------------------------------------------------------------------
(* The order of the transfers.                                             *)

(* A completion with the next transfer, or without data, keeps the order.  *)
LEMMA ArrivalKeepsOrder ==
    ASSUME TypeOK, KernelType, Ordered, NEW c \in Completions, Arrives(c),
           UNCHANGED <<loop, delivered>>, transfers' \in 0..MaxTransfers,
           \/ c.transfer = NoTransfer /\ transfers' = transfers
           \/ c.transfer = transfers + 1 /\ transfers' = transfers + 1
    PROVE  Ordered'
<1>1. /\ Len(completed) \in Nat /\ transfers \in Nat /\ MaxTransfers \in Nat
      /\ delivered \in Nat /\ loop.transfer \in Nat
    BY LenProperties, UrbPipelineAssumption DEF KernelType, TypeOK
<1>2. \A i \in 1..Len(completed) : completed[i].transfer \in Nat
    <2>1. \A i \in 1..Len(completed) : completed[i] \in Completions
        BY ElementOfSeq DEF KernelType
    <2> QED BY <2>1, UrbPipelineAssumption DEF Completions
<1>3. \A i \in 1..Len(completed') :
          \/ i \in 1..Len(completed) /\ completed'[i] = completed[i]
          \/ i = Len(completed) + 1 /\ completed'[i] = c
    BY <1>1 DEF Arrives
<1>4. Increasing'
    <2>1. \A i \in 1..Len(completed') : completed'[i].transfer <= transfers'
        BY <1>1, <1>2, <1>3 DEF Ordered, Increasing, NoTransfer
    <2>2. ASSUME NEW i \in 1..Len(completed'), NEW j \in 1..Len(completed'), i < j,
                 completed'[i].transfer # NoTransfer, completed'[j].transfer # NoTransfer
          PROVE  completed'[i].transfer < completed'[j].transfer
        <3>1. i \in 1..Len(completed) /\ completed'[i] = completed[i]
            BY <1>1, <1>3, <2>2 DEF Arrives
        <3>2. CASE j \in 1..Len(completed) /\ completed'[j] = completed[j]
            BY <2>2, <3>1, <3>2 DEF Ordered, Increasing
        <3>3. CASE completed'[j] = c
            <4>1. c.transfer = transfers + 1 /\ completed[i].transfer <= transfers
                BY <2>2, <3>1, <3>3 DEF Ordered, Increasing
            <4> QED BY <1>1, <1>2, <3>1, <3>3, <4>1
        <3> QED BY <1>3, <3>2, <3>3
    <2> QED BY <2>1, <2>2 DEF Increasing
<1>5. NoneDelivered'
    BY <1>1, <1>2, <1>3 DEF Ordered, NoneDelivered, NoTransfer
<1>6. NextInHand'
    BY <1>1, <1>2, <1>3 DEF Ordered, NextInHand, NoTransfer, LoopAt
<1> QED BY <1>4, <1>5, <1>6 DEF Ordered

(* Fewer completions are in order too.                                     *)
LEMMA ReapKeepsOrder ==
    ASSUME KernelType, Ordered, Reaps, UNCHANGED <<transfers, delivered>>
    PROVE  /\ Increasing' /\ NoneDelivered'
           /\ loop' = loop => NextInHand'
           /\ completed[1].transfer # NoTransfer =>
                 /\ completed[1].transfer > delivered /\ completed[1].transfer <= transfers
                 /\ \A i \in 1..Len(completed') :
                        completed'[i].transfer # NoTransfer
                            => completed'[i].transfer > completed[1].transfer
<1>1. Len(completed) \in Nat /\ 1 \in 1..Len(completed)
    BY LenProperties DEF KernelType, Reaps
<1>2. \A i \in 1..Len(completed) : completed[i].transfer \in Nat
    <2>1. \A i \in 1..Len(completed) : completed[i] \in Completions
        BY ElementOfSeq DEF KernelType
    <2> QED BY <2>1, UrbPipelineAssumption DEF Completions
<1>3. \A i \in 1..Len(completed') :
          completed'[i] = completed[i + 1] /\ i + 1 \in 1..Len(completed) /\ 1 < i + 1
    BY <1>1 DEF Reaps
<1>4. \A i, j \in 1..Len(completed') : i < j => i + 1 < j + 1
    BY <1>1
<1>5. Increasing' /\ NoneDelivered' /\ (loop' = loop => NextInHand')
    BY <1>3, <1>4 DEF Ordered, Increasing, NoneDelivered, NextInHand, LoopAt
<1>6. ASSUME completed[1].transfer # NoTransfer
      PROVE  /\ completed[1].transfer > delivered /\ completed[1].transfer <= transfers
             /\ \A i \in 1..Len(completed') :
                    completed'[i].transfer # NoTransfer
                        => completed'[i].transfer > completed[1].transfer
    BY <1>1, <1>2, <1>3, <1>6 DEF Ordered, Increasing, NoneDelivered
<1> QED BY <1>5, <1>6

(* What an unplugged device gives back has no data.                        *)
LEMMA DropKeepsOrder ==
    ASSUME KernelFits, Ordered, inflight' = <<>>,
           completed' = completed \o [k \in DOMAIN inflight |-> Done(inflight[k], NoTransfer)],
           TypeOK, UNCHANGED <<transfers, delivered, loop>>
    PROVE  Ordered'
<1>1. /\ Len(completed') = Len(completed) + Len(inflight)
      /\ \A i \in 1..Len(completed) : completed'[i] = completed[i]
      /\ \A i \in 1..Len(completed') :
             i > Len(completed) =>
                 completed'[i] = Done(inflight[i - Len(completed)], NoTransfer)
    BY KernelDrops
<1>2. Len(completed) \in Nat /\ Len(inflight) \in Nat /\ transfers \in Nat
    BY LenProperties, UrbPipelineAssumption DEF KernelFits, KernelType, TypeOK
<1>3. \A i \in 1..Len(completed') :
          \/ i \in 1..Len(completed) /\ completed'[i] = completed[i]
          \/ completed'[i].transfer = NoTransfer
    BY <1>1, <1>2 DEF Done
<1>4. Increasing'
    <2>1. ASSUME NEW i \in 1..Len(completed'), NEW j \in 1..Len(completed'), i < j,
                 completed'[i].transfer # NoTransfer, completed'[j].transfer # NoTransfer
          PROVE  completed'[i].transfer < completed'[j].transfer
        <3>1. /\ i \in 1..Len(completed) /\ completed'[i] = completed[i]
              /\ j \in 1..Len(completed) /\ completed'[j] = completed[j]
            BY <1>3, <2>1
        <3> QED BY <2>1, <3>1 DEF Ordered, Increasing
    <2>2. \A i \in 1..Len(completed') : completed'[i].transfer <= transfers'
        BY <1>2, <1>3 DEF Ordered, Increasing, NoTransfer
    <2> QED BY <2>1, <2>2 DEF Increasing
<1>5. NoneDelivered' /\ NextInHand'
    BY <1>3 DEF Ordered, NoneDelivered, NextInHand, LoopAt
<1> QED BY <1>4, <1>5 DEF Ordered

(* What leaves the kernel alone keeps all that is said of it.              *)
LEMMA KernelRests ==
    ASSUME KernelFits, UNCHANGED <<inflight, completed>>
    PROVE  KernelFits' /\ Held' = Held /\ \A u \in Urbs : Has(u)' <=> Has(u)
BY DEF KernelFits, KernelType, Distinct, Held, Has

LEMMA OrderRests ==
    ASSUME Ordered, UNCHANGED <<completed, transfers, delivered, loop>>
    PROVE  Ordered'
BY DEF Ordered, Increasing, NoneDelivered, NextInHand, LoopAt

-----------------------------------------------------------------------------
(* Every step keeps the invariant.                                         *)

(* The kernel completes URBs, or loses the device.                         *)
LEMMA KernelKeepsInv ==
    ASSUME Inv, Complete \/ CompleteBadly \/ Unplug
    PROVE  Inv'
<1> USE DEF Inv
<1>0. Held \in 0..Depth
    BY KernelBounded
<1>1. CASE Complete
    <2>1. /\ inflight # <<>> /\ inflight' = Tail(inflight)
          /\ transfers < MaxTransfers /\ transfers' = transfers + 1
          /\ completed' = Append(completed, Done(Head(inflight), transfers + 1))
          /\ UNCHANGED <<plugged, arena, flag, submitted, cancel_requested, health, registered,
                         running, reader, loop, delivered, errors>>
        BY <1>1 DEF Complete, kernel, pipeline, epoll
    <2>2. 1 \in 1..Len(inflight) /\ inflight[1] = Head(inflight) /\ Leaves(1)
        BY <2>1, OldestLeaves DEF KernelFits
    <2>3. transfers + 1 \in 0..MaxTransfers /\ inflight[1] \in Urbs
        BY <2>1, <2>2, ElementOfSeq, UrbPipelineAssumption DEF TypeOK, NoTransfer
    <2>4. Done(inflight[1], transfers + 1) \in Completions
        BY <2>3 DEF Done, Completions
    <2>5. Arrives(Done(inflight[1], transfers + 1))
        BY <2>1, <2>2, <2>4, LastArrives DEF KernelFits
    <2>6. KernelFits' /\ Held' = Held /\ \A u \in Urbs : Has(u)' <=> Has(u)
        BY <2>2, <2>3, <2>5, KernelCompletes
    <2>7. KernelType'
        BY <2>6 DEF KernelFits
    <2>8. CountFits'
        BY <1>0, <2>1, <2>2, <2>3, <2>4, <2>5, <2>6, <2>7
        DEF CountFits, Unmarked, ReaderAt, LoopAt, TypeOK
    <2>9. TypeOK'
        BY <1>0, <2>1, <2>2, <2>3, <2>4, <2>5, <2>6, <2>7, <2>8, UrbPipelineAssumption
        DEF TypeOK, CountFits, Unmarked, KernelType, Urbs, ReaderPCs, LoopPCs, Completions,
            IndexFits, ReaderAt, LoopAt
    <2>10. HandFits' /\ GivenFits'
        BY <1>0, <2>1, <2>2, <2>3, <2>4, <2>5, <2>6, <2>7, UrbPipelineAssumption
        DEF HandFits, GivenFits, HasUrb, Given, ReaderAt, LoopAt, TypeOK, Urbs
    <2>11. IndexFits'
        BY <1>0, <2>1, <2>2, <2>3, <2>4, <2>5, <2>6, <2>7, UrbPipelineAssumption
        DEF IndexFits, ReaderAt, TypeOK
    <2>12. Ordered'
        <3>1. Done(inflight[1], transfers + 1).transfer = transfers + 1
            BY DEF Done
        <3> QED BY <2>1, <2>3, <2>4, <2>5, <3>1, ArrivalKeepsOrder DEF KernelFits, TypeOK
    <2> QED BY <2>6, <2>8, <2>9, <2>10, <2>11, <2>12
<1>2. CASE CompleteBadly
    <2>1. /\ inflight # <<>> /\ inflight' = Tail(inflight)
          /\ errors < MaxErrors /\ errors' = errors + 1
          /\ completed' = Append(completed, Done(Head(inflight), NoTransfer))
          /\ UNCHANGED <<plugged, transfers, arena, flag, submitted, cancel_requested, health,
                         registered, running, reader, loop, delivered>>
        BY <1>2 DEF CompleteBadly, kernel, pipeline, epoll
    <2>2. 1 \in 1..Len(inflight) /\ inflight[1] = Head(inflight) /\ Leaves(1)
        BY <2>1, OldestLeaves DEF KernelFits
    <2>3. NoTransfer \in 0..MaxTransfers /\ inflight[1] \in Urbs
        BY <2>1, <2>2, ElementOfSeq, UrbPipelineAssumption DEF TypeOK, NoTransfer
    <2>4. Done(inflight[1], NoTransfer) \in Completions
        BY <2>3 DEF Done, Completions
    <2>5. Arrives(Done(inflight[1], NoTransfer))
        BY <2>1, <2>2, <2>4, LastArrives DEF KernelFits
    <2>6. KernelFits' /\ Held' = Held /\ \A u \in Urbs : Has(u)' <=> Has(u)
        BY <2>2, <2>3, <2>5, KernelCompletes
    <2>7. KernelType'
        BY <2>6 DEF KernelFits
    <2>8. CountFits'
        BY <1>0, <2>1, <2>2, <2>3, <2>4, <2>5, <2>6, <2>7
        DEF CountFits, Unmarked, ReaderAt, LoopAt, TypeOK
    <2>9. TypeOK'
        BY <1>0, <2>1, <2>2, <2>3, <2>4, <2>5, <2>6, <2>7, <2>8, UrbPipelineAssumption
        DEF TypeOK, CountFits, Unmarked, KernelType, Urbs, ReaderPCs, LoopPCs, Completions,
            IndexFits, ReaderAt, LoopAt
    <2>10. HandFits' /\ GivenFits'
        BY <1>0, <2>1, <2>2, <2>3, <2>4, <2>5, <2>6, <2>7, UrbPipelineAssumption
        DEF HandFits, GivenFits, HasUrb, Given, ReaderAt, LoopAt, TypeOK, Urbs
    <2>11. IndexFits'
        BY <1>0, <2>1, <2>2, <2>3, <2>4, <2>5, <2>6, <2>7, UrbPipelineAssumption
        DEF IndexFits, ReaderAt, TypeOK
    <2>12. Ordered'
        <3>1. Done(inflight[1], NoTransfer).transfer = NoTransfer
            BY DEF Done
        <3> QED BY <2>1, <2>3, <2>4, <2>5, <3>1, ArrivalKeepsOrder DEF KernelFits, TypeOK
    <2> QED BY <2>6, <2>8, <2>9, <2>10, <2>11, <2>12
<1>3. CASE Unplug
    <2>1. /\ inflight' = <<>> /\ plugged' = FALSE
          /\ completed' = completed \o [k \in DOMAIN inflight |-> Done(inflight[k], NoTransfer)]
          /\ UNCHANGED <<transfers, arena, flag, submitted, cancel_requested, health,
                         registered, running, reader, loop, delivered, errors>>
        BY <1>3 DEF Unplug, kernel, pipeline, epoll
    <2>2. KernelFits' /\ Held' = Held /\ \A u \in Urbs : Has(u)' <=> Has(u)
        BY <2>1, KernelDrops
    <2>3. KernelType'
        BY <2>2 DEF KernelFits
    <2>4. CountFits'
        BY <1>0, <2>1, <2>2, <2>3 DEF CountFits, Unmarked, ReaderAt, LoopAt, TypeOK
    <2>5. TypeOK'
        <3>1. reader' \in [pc : ReaderPCs, i : 1..Depth+1]
            BY <2>1, UrbPipelineAssumption DEF TypeOK, ReaderPCs, IndexFits, ReaderAt
        <3>2. loop' \in [pc : LoopPCs, u : Urbs, transfer : 0..MaxTransfers]
            BY <2>1 DEF TypeOK, LoopPCs, Completions
        <3>3. submitted' \in 0..Depth+1
            BY <1>0, <2>1, <2>3, <2>4, UrbPipelineAssumption
            DEF TypeOK, CountFits, Unmarked, ReaderAt, LoopAt
        <3>4. /\ plugged' \in BOOLEAN
              /\ UNCHANGED <<transfers, arena, flag, cancel_requested, health, registered,
                             running, delivered, errors>>
            BY <2>1
        <3> QED BY <2>3, <3>1, <3>2, <3>3, <3>4, UrbPipelineAssumption
                DEF TypeOK, KernelType, Completions
    <2>6. HandFits' /\ GivenFits'
        BY <1>0, <2>1, <2>2, <2>3, UrbPipelineAssumption
        DEF HandFits, GivenFits, HasUrb, Given, ReaderAt, LoopAt, TypeOK, Urbs
    <2>7. IndexFits'
        BY <1>0, <2>1, <2>2, <2>3, UrbPipelineAssumption DEF IndexFits, ReaderAt, TypeOK
    <2>8. Ordered'
        BY <2>1, DropKeepsOrder
    <2> QED BY <2>2, <2>4, <2>5, <2>6, <2>7, <2>8
<1> QED BY <1>1, <1>2, <1>3

(* The application, and other calls.                                       *)
LEMMA OthersKeepInv ==
    ASSUME Inv, RequestCancel \/ Detect
    PROVE  Inv'
<1> USE DEF Inv
<1>0. Held \in 0..Depth
    BY KernelBounded
<1>1. CASE RequestCancel
    <2>1. /\ cancel_requested' = TRUE
          /\ UNCHANGED <<inflight, completed, plugged, transfers, arena, flag, submitted,
                         health, registered, running, reader, loop, delivered,
                         errors>>
        BY <1>1 DEF RequestCancel, kernel, pipeline, epoll
    <2>2. KernelFits' /\ Held' = Held /\ \A u \in Urbs : Has(u)' <=> Has(u)
        BY <2>1, KernelRests
    <2>3. KernelType'
        BY <2>2 DEF KernelFits
    <2>4. CountFits'
        BY <1>0, <2>1, <2>2, <2>3 DEF CountFits, Unmarked, ReaderAt, LoopAt, TypeOK
    <2>5. TypeOK'
        BY <1>0, <2>1, <2>2, <2>3, <2>4, UrbPipelineAssumption
        DEF TypeOK, CountFits, Unmarked, KernelType, Urbs, ReaderPCs, LoopPCs, Completions,
            IndexFits, ReaderAt, LoopAt
    <2>6. HandFits' /\ GivenFits'
        BY <1>0, <2>1, <2>2, <2>3, UrbPipelineAssumption
        DEF HandFits, GivenFits, HasUrb, Given, ReaderAt, LoopAt, TypeOK, Urbs
    <2>7. IndexFits'
        BY <1>0, <2>1, <2>2, <2>3, UrbPipelineAssumption DEF IndexFits, ReaderAt, TypeOK
    <2>8. Ordered'
        BY <1>0, <2>1, <2>2, <2>3, OrderRests DEF TypeOK
    <2> QED BY <2>2, <2>4, <2>5, <2>6, <2>7, <2>8
<1>2. CASE Detect
    <2>1. /\ health' = "DISCONNECTED"
          /\ UNCHANGED <<inflight, completed, plugged, transfers, arena, flag, submitted,
                         cancel_requested, registered, running, reader, loop,
                         delivered, errors>>
        BY <1>2 DEF Detect, kernel, pipeline, epoll
    <2>2. KernelFits' /\ Held' = Held /\ \A u \in Urbs : Has(u)' <=> Has(u)
        BY <2>1, KernelRests
    <2>3. KernelType'
        BY <2>2 DEF KernelFits
    <2>4. CountFits'
        BY <1>0, <2>1, <2>2, <2>3 DEF CountFits, Unmarked, ReaderAt, LoopAt, TypeOK
    <2>5. TypeOK'
        BY <1>0, <2>1, <2>2, <2>3, <2>4, UrbPipelineAssumption
        DEF TypeOK, CountFits, Unmarked, KernelType, Urbs, ReaderPCs, LoopPCs, Completions,
            IndexFits, ReaderAt, LoopAt
    <2>6. HandFits' /\ GivenFits'
        BY <1>0, <2>1, <2>2, <2>3, UrbPipelineAssumption
        DEF HandFits, GivenFits, HasUrb, Given, ReaderAt, LoopAt, TypeOK, Urbs
    <2>7. IndexFits'
        BY <1>0, <2>1, <2>2, <2>3, UrbPipelineAssumption DEF IndexFits, ReaderAt, TypeOK
    <2>8. Ordered'
        BY <1>0, <2>1, <2>2, <2>3, OrderRests DEF TypeOK
    <2> QED BY <2>2, <2>4, <2>5, <2>6, <2>7, <2>8
<1> QED BY <1>1, <1>2

(* The reader allocates and submits.                                       *)
LEMMA SubmittingKeepsInv ==
    ASSUME Inv, Alloc \/ AllocFails \/ ReaderSubmits \/ ReaderSubmitFails \/ ReaderMarks \/
           ReaderLeavesWait
    PROVE  Inv'
<1> USE DEF Inv
<1>0. Held \in 0..Depth
    BY KernelBounded
<1>1. CASE Alloc
    <2>1. /\ ReaderAt("alloc") /\ reader' = [pc |-> "submit", i |-> 1]
          /\ arena' = "live"
          /\ UNCHANGED <<inflight, completed, plugged, transfers, flag, submitted,
                         cancel_requested, health, registered, running, loop,
                         delivered, errors>>
        BY <1>1 DEF Alloc, kernel, pipeline, epoll, ReaderGoto
    <2>2. KernelFits' /\ Held' = Held /\ \A u \in Urbs : Has(u)' <=> Has(u)
        BY <2>1, KernelRests
    <2>3. KernelType'
        BY <2>2 DEF KernelFits
    <2>4. CountFits'
        BY <1>0, <2>1, <2>2, <2>3 DEF CountFits, Unmarked, ReaderAt, LoopAt, TypeOK
    <2>5. TypeOK'
        BY <1>0, <2>1, <2>2, <2>3, <2>4, UrbPipelineAssumption
        DEF TypeOK, CountFits, Unmarked, KernelType, Urbs, ReaderPCs, LoopPCs, Completions,
            IndexFits, ReaderAt, LoopAt
    <2>6. HandFits' /\ GivenFits'
        BY <1>0, <2>1, <2>2, <2>3, UrbPipelineAssumption
        DEF HandFits, GivenFits, HasUrb, Given, ReaderAt, LoopAt, TypeOK, Urbs
    <2>7. IndexFits'
        BY <1>0, <2>1, <2>2, <2>3, UrbPipelineAssumption DEF IndexFits, ReaderAt, TypeOK
    <2>8. Ordered'
        BY <1>0, <2>1, <2>2, <2>3, OrderRests DEF TypeOK
    <2> QED BY <2>2, <2>4, <2>5, <2>6, <2>7, <2>8
<1>2. CASE AllocFails
    <2>1. /\ ReaderAt("alloc") /\ reader' = [pc |-> "ended", i |-> 1]
          /\ UNCHANGED <<inflight, completed, plugged, transfers, arena, flag, submitted,
                         cancel_requested, health, registered, running, loop,
                         delivered, errors>>
        BY <1>2 DEF AllocFails, kernel, pipeline, epoll, ReaderGoto
    <2>2. KernelFits' /\ Held' = Held /\ \A u \in Urbs : Has(u)' <=> Has(u)
        BY <2>1, KernelRests
    <2>3. KernelType'
        BY <2>2 DEF KernelFits
    <2>4. CountFits'
        BY <1>0, <2>1, <2>2, <2>3 DEF CountFits, Unmarked, ReaderAt, LoopAt, TypeOK
    <2>5. TypeOK'
        BY <1>0, <2>1, <2>2, <2>3, <2>4, UrbPipelineAssumption
        DEF TypeOK, CountFits, Unmarked, KernelType, Urbs, ReaderPCs, LoopPCs, Completions,
            IndexFits, ReaderAt, LoopAt
    <2>6. HandFits' /\ GivenFits'
        BY <1>0, <2>1, <2>2, <2>3, UrbPipelineAssumption
        DEF HandFits, GivenFits, HasUrb, Given, ReaderAt, LoopAt, TypeOK, Urbs
    <2>7. IndexFits'
        BY <1>0, <2>1, <2>2, <2>3, UrbPipelineAssumption DEF IndexFits, ReaderAt, TypeOK
    <2>8. Ordered'
        BY <1>0, <2>1, <2>2, <2>3, OrderRests DEF TypeOK
    <2> QED BY <2>2, <2>4, <2>5, <2>6, <2>7, <2>8
<1>3. CASE ReaderSubmits
    <2>1. /\ ReaderAt("submit") /\ reader' = [pc |-> "mark", i |-> reader.i]
          /\ inflight' = Append(inflight, reader.i)
          /\ UNCHANGED <<completed, plugged, transfers, arena, flag, submitted,
                         cancel_requested, health, registered, running, loop,
                         delivered, errors>>
        BY <1>3 DEF ReaderSubmits, kernel, pipeline, epoll, ReaderGoto, SubmitOk
    <2>2. reader.i \in Urbs /\ ~Has(reader.i)
        BY <2>1
        DEF TypeOK, Urbs, GivenFits, Given, IndexFits, HandFits, HasUrb, ReaderAt, LoopAt
    <2>3. \A u \in Urbs : Has(u)' <=> Has(u) \/ u = reader.i
        BY <2>1, <2>2, KernelTakes
    <2>4. KernelFits' /\ Held' = Held + 1
        BY <2>1, <2>2, KernelTakes
    <2>5. KernelType'
        BY <2>4 DEF KernelFits
    <2>6. CountFits'
        BY <1>0, <2>1, <2>2, <2>3, <2>4, <2>5 DEF CountFits, Unmarked, ReaderAt, LoopAt, TypeOK
    <2>7. TypeOK'
        BY <1>0, <2>1, <2>2, <2>3, <2>4, <2>5, <2>6, UrbPipelineAssumption
        DEF TypeOK, CountFits, Unmarked, KernelType, Urbs, ReaderPCs, LoopPCs, Completions,
            IndexFits, ReaderAt, LoopAt
    <2>8. HandFits' /\ GivenFits'
        <3>1. HandFits'
            BY <2>1, <2>2, <2>3 DEF HandFits, GivenFits, HasUrb, Given, ReaderAt, TypeOK
        <3>2. Given = reader.i - 1 /\ Given' = reader.i
            BY <2>1 DEF Given, ReaderAt
        <3>3. reader.i \in Nat /\ \A u \in Urbs : u <= reader.i - 1 => u <= reader.i
            BY UrbPipelineAssumption DEF TypeOK, Urbs
        <3>4. GivenFits'
            BY <2>1, <2>3, <3>2, <3>3 DEF GivenFits, HasUrb
        <3> QED BY <3>1, <3>4
    <2>9. IndexFits'
        BY <1>0, <2>1, <2>2, <2>3, <2>4, <2>5, UrbPipelineAssumption
        DEF IndexFits, ReaderAt, TypeOK
    <2>10. Ordered'
        BY <1>0, <2>1, <2>2, <2>3, <2>4, <2>5, OrderRests DEF TypeOK
    <2> QED BY <2>4, <2>6, <2>7, <2>8, <2>9, <2>10
<1>4. CASE ReaderSubmitFails
    <2>1. /\ ReaderAt("submit") /\ reader' = [pc |-> "stop_bulk", i |-> 1]
          /\ errors' \in 0..MaxErrors
          /\ UNCHANGED <<inflight, completed, plugged, transfers, arena, flag, submitted,
                         cancel_requested, health, registered, running, loop,
                         delivered>>
        BY <1>4, UrbPipelineAssumption
        DEF ReaderSubmitFails, kernel, pipeline, epoll, ReaderGoto, SubmitError, TypeOK
    <2>2. KernelFits' /\ Held' = Held /\ \A u \in Urbs : Has(u)' <=> Has(u)
        BY <2>1, KernelRests
    <2>3. KernelType'
        BY <2>2 DEF KernelFits
    <2>4. CountFits'
        BY <1>0, <2>1, <2>2, <2>3 DEF CountFits, Unmarked, ReaderAt, LoopAt, TypeOK
    <2>5. TypeOK'
        BY <1>0, <2>1, <2>2, <2>3, <2>4, UrbPipelineAssumption
        DEF TypeOK, CountFits, Unmarked, KernelType, Urbs, ReaderPCs, LoopPCs, Completions,
            IndexFits, ReaderAt, LoopAt
    <2>6. HandFits' /\ GivenFits'
        BY <1>0, <2>1, <2>2, <2>3, UrbPipelineAssumption
        DEF HandFits, GivenFits, HasUrb, Given, ReaderAt, LoopAt, TypeOK, Urbs
    <2>7. IndexFits'
        BY <1>0, <2>1, <2>2, <2>3, UrbPipelineAssumption DEF IndexFits, ReaderAt, TypeOK
    <2>8. Ordered'
        BY <1>0, <2>1, <2>2, <2>3, OrderRests DEF TypeOK
    <2> QED BY <2>2, <2>4, <2>5, <2>6, <2>7, <2>8
<1>5. CASE ReaderMarks
    <2>1. /\ ReaderAt("mark") /\ submitted' = submitted + 1
          /\ flag' \in [Urbs -> BOOLEAN] /\ registered' \in BOOLEAN /\ running' \in BOOLEAN
          /\ \/ reader.i < Depth /\ reader' = [pc |-> "submit", i |-> reader.i + 1]
             \/ reader.i >= Depth /\ reader' = [pc |-> "wait", i |-> 1]
          /\ UNCHANGED <<inflight, completed, plugged, transfers, arena, cancel_requested,
                         health, loop, delivered, errors>>
        <3>1. /\ ReaderAt("mark") /\ submitted' = submitted + 1
              /\ flag' \in [Urbs -> BOOLEAN] /\ UNCHANGED arena
              /\ UNCHANGED <<kernel, cancel_requested, health, loop, delivered, errors>>
            BY <1>5 DEF ReaderMarks, Submitted, TypeOK
        <3>2. reader.i \in Int /\ Depth \in Int
            BY UrbPipelineAssumption DEF TypeOK
        <3>3. \/ reader.i < Depth /\ reader' = [pc |-> "submit", i |-> reader.i + 1]
              \/ reader.i >= Depth /\ reader' = [pc |-> "wait", i |-> 1]
            BY <1>5, <3>2 DEF ReaderMarks, ReaderGoto
        <3>4. registered' \in BOOLEAN /\ running' \in BOOLEAN
            BY <1>5, UrbPipelineAssumption DEF ReaderMarks, StartLoop, epoll, TypeOK
        <3> QED BY <3>1, <3>3, <3>4 DEF kernel
    <2>2. KernelFits' /\ Held' = Held /\ \A u \in Urbs : Has(u)' <=> Has(u)
        BY <2>1, KernelRests
    <2>3. KernelType'
        BY <2>2 DEF KernelFits
    <2>4. CountFits'
        BY <1>0, <2>1, <2>2, <2>3 DEF CountFits, Unmarked, ReaderAt, LoopAt, TypeOK
    <2>5. TypeOK'
        BY <1>0, <2>1, <2>2, <2>3, <2>4, UrbPipelineAssumption
        DEF TypeOK, CountFits, Unmarked, KernelType, Urbs, ReaderPCs, LoopPCs, Completions,
            IndexFits, ReaderAt, LoopAt
    <2>6. HandFits' /\ GivenFits'
        BY <1>0, <2>1, <2>2, <2>3, UrbPipelineAssumption
        DEF HandFits, GivenFits, HasUrb, Given, ReaderAt, LoopAt, TypeOK, Urbs
    <2>7. IndexFits'
        BY <1>0, <2>1, <2>2, <2>3, UrbPipelineAssumption DEF IndexFits, ReaderAt, TypeOK
    <2>8. Ordered'
        BY <1>0, <2>1, <2>2, <2>3, OrderRests DEF TypeOK
    <2> QED BY <2>2, <2>4, <2>5, <2>6, <2>7, <2>8
<1>6. CASE ReaderLeavesWait
    <2>1. /\ ReaderAt("wait") /\ reader' = [pc |-> "discard", i |-> 1]
          /\ registered' = FALSE
          /\ UNCHANGED <<inflight, completed, plugged, transfers, arena, flag, submitted,
                         cancel_requested, health, running, loop, delivered,
                         errors>>
        BY <1>6 DEF ReaderLeavesWait, kernel, pipeline, epoll, ReaderGoto
    <2>2. KernelFits' /\ Held' = Held /\ \A u \in Urbs : Has(u)' <=> Has(u)
        BY <2>1, KernelRests
    <2>3. KernelType'
        BY <2>2 DEF KernelFits
    <2>4. CountFits'
        BY <1>0, <2>1, <2>2, <2>3 DEF CountFits, Unmarked, ReaderAt, LoopAt, TypeOK
    <2>5. TypeOK'
        <3>1. reader' \in [pc : ReaderPCs, i : 1..Depth+1]
            BY <2>1, UrbPipelineAssumption DEF TypeOK, ReaderPCs, IndexFits, ReaderAt
        <3>2. loop' \in [pc : LoopPCs, u : Urbs, transfer : 0..MaxTransfers]
            BY <2>1 DEF TypeOK, LoopPCs, Completions
        <3>3. submitted' \in 0..Depth+1
            BY <1>0, <2>1, <2>3, <2>4, UrbPipelineAssumption
            DEF TypeOK, CountFits, Unmarked, ReaderAt, LoopAt
        <3> QED BY <2>1, <2>3, <3>1, <3>2, <3>3, UrbPipelineAssumption
                DEF TypeOK, KernelType, Completions
    <2>6. HandFits' /\ GivenFits'
        BY <1>0, <2>1, <2>2, <2>3, UrbPipelineAssumption
        DEF HandFits, GivenFits, HasUrb, Given, ReaderAt, LoopAt, TypeOK, Urbs
    <2>7. IndexFits'
        BY <1>0, <2>1, <2>2, <2>3, UrbPipelineAssumption DEF IndexFits, ReaderAt, TypeOK
    <2>8. Ordered'
        BY <1>0, <2>1, <2>2, <2>3, OrderRests DEF TypeOK
    <2> QED BY <2>2, <2>4, <2>5, <2>6, <2>7, <2>8
<1> QED BY <1>1, <1>2, <1>3, <1>4, <1>5, <1>6

(* The reader cancels what it has submitted.                               *)
LEMMA CancellingKeepsInv ==
    ASSUME Inv, Discard \/ ReapCheck \/ ReapReturns \/ ReapFails \/ ForceClear
    PROVE  Inv'
<1> USE DEF Inv
<1>0. Held \in 0..Depth
    BY KernelBounded
<1>1. CASE Discard
    <2>1. /\ reader.pc \in {"discard", "discard2"}
          /\ \/ reader.i < Depth /\ reader' = [pc |-> reader.pc, i |-> reader.i + 1]
             \/ \E pc \in {"reap", "reap2"} : reader' = [pc |-> pc, i |-> 1]
          /\ UNCHANGED <<plugged, transfers, arena, flag, submitted, cancel_requested, health,
                         registered, running, loop, delivered, errors>>
        BY <1>1 DEF Discard, kernel, pipeline, epoll, Cancelling, ReapOf, ReaderGoto, TypeOK
    <2>2. Ordered' /\ KernelFits' /\ Held' = Held /\ \A u \in Urbs : Has(u)' <=> Has(u)
        <3>1. CASE UNCHANGED <<inflight, completed>>
            BY <2>1, <3>1, KernelRests, OrderRests
        <3>2. CASE \E k \in DOMAIN inflight :
                       /\ inflight' = RemoveAt(inflight, k)
                       /\ completed' = Append(completed, Done(inflight[k], NoTransfer))
            <4>1. PICK k \in 1..Len(inflight) :
                      /\ inflight' = RemoveAt(inflight, k)
                      /\ completed' = Append(completed, Done(inflight[k], NoTransfer))
                BY <3>2, LenProperties DEF KernelFits, KernelType
            <4>2. Leaves(k)
                BY <4>1, AnyLeaves DEF KernelFits
            <4>3. NoTransfer \in 0..MaxTransfers /\ inflight[k] \in Urbs
                BY ElementOfSeq, UrbPipelineAssumption DEF TypeOK, NoTransfer
            <4>4. /\ Done(inflight[k], NoTransfer) \in Completions
                  /\ Done(inflight[k], NoTransfer).transfer = NoTransfer
                BY <4>3 DEF Done, Completions
            <4>5. Arrives(Done(inflight[k], NoTransfer))
                BY <4>1, <4>4, LastArrives DEF KernelFits
            <4>6. KernelFits' /\ Held' = Held /\ \A u \in Urbs : Has(u)' <=> Has(u)
                BY <4>2, <4>3, <4>5, KernelCompletes
            <4>7. Ordered'
                BY <2>1, <4>4, <4>5, ArrivalKeepsOrder DEF KernelFits, TypeOK
            <4> QED BY <4>6, <4>7
        <3> QED BY <1>1, <3>1, <3>2 DEF Discard
    <2>3. KernelType'
        BY <2>2 DEF KernelFits
    <2>4. CountFits'
        BY <1>0, <2>1, <2>2, <2>3 DEF CountFits, Unmarked, ReaderAt, LoopAt, TypeOK
    <2>5. TypeOK'
        BY <1>0, <2>1, <2>2, <2>3, <2>4, UrbPipelineAssumption
        DEF TypeOK, CountFits, Unmarked, KernelType, Urbs, ReaderPCs, LoopPCs, Completions,
            IndexFits, ReaderAt, LoopAt
    <2>6. HandFits' /\ GivenFits'
        BY <1>0, <2>1, <2>2, <2>3, UrbPipelineAssumption
        DEF HandFits, GivenFits, HasUrb, Given, ReaderAt, LoopAt, TypeOK, Urbs
    <2>7. IndexFits'
        BY <1>0, <2>1, <2>2, <2>3, UrbPipelineAssumption DEF IndexFits, ReaderAt, TypeOK
    <2>8. Ordered'
        BY <2>2
    <2> QED BY <2>2, <2>4, <2>5, <2>6, <2>7, <2>8
<1>2. CASE ReapCheck
    <2>1. /\ reader.pc \in {"reap", "reap2"} /\ reader.i <= Depth
          /\ \/ \E pc \in {"block", "block2"} : reader' = [pc |-> pc, i |-> reader.i]
             \/ reader' = [pc |-> reader.pc, i |-> reader.i + 1]
          /\ UNCHANGED <<inflight, completed, plugged, transfers, arena, flag, submitted,
                         cancel_requested, health, registered, running, loop,
                         delivered, errors>>
        BY <1>2 DEF ReapCheck, kernel, pipeline, epoll, BlockOf, ReaderGoto
    <2>2. KernelFits' /\ Held' = Held /\ \A u \in Urbs : Has(u)' <=> Has(u)
        BY <2>1, KernelRests
    <2>3. KernelType'
        BY <2>2 DEF KernelFits
    <2>4. CountFits'
        BY <1>0, <2>1, <2>2, <2>3 DEF CountFits, Unmarked, ReaderAt, LoopAt, TypeOK
    <2>5. TypeOK'
        BY <1>0, <2>1, <2>2, <2>3, <2>4, UrbPipelineAssumption
        DEF TypeOK, CountFits, Unmarked, KernelType, Urbs, ReaderPCs, LoopPCs, Completions,
            IndexFits, ReaderAt, LoopAt
    <2>6. HandFits' /\ GivenFits'
        BY <1>0, <2>1, <2>2, <2>3, UrbPipelineAssumption
        DEF HandFits, GivenFits, HasUrb, Given, ReaderAt, LoopAt, TypeOK, Urbs
    <2>7. IndexFits'
        BY <1>0, <2>1, <2>2, <2>3, UrbPipelineAssumption DEF IndexFits, ReaderAt, TypeOK
    <2>8. Ordered'
        BY <1>0, <2>1, <2>2, <2>3, OrderRests DEF TypeOK
    <2> QED BY <2>2, <2>4, <2>5, <2>6, <2>7, <2>8
<1>3. CASE ReapReturns
    <2>1. /\ reader.pc \in {"block", "block2"}
          /\ \E pc \in {"reap", "reap2"} : reader' = [pc |-> pc, i |-> reader.i + 1]
          /\ completed # <<>> /\ completed' = Tail(completed)
          /\ flag' = [flag EXCEPT ![Head(completed).urb] = FALSE]
          /\ submitted' = IF submitted > 0 THEN submitted - 1 ELSE 0
          /\ UNCHANGED <<inflight, plugged, transfers, arena, cancel_requested, health,
                         registered, running, loop, delivered, errors>>
        BY <1>3 DEF ReapReturns, kernel, pipeline, epoll, ReapOf, Reaped, ReaderGoto
    <2>2. Reaps /\ Head(completed) = completed[1] /\ completed[1] \in Completions
        BY <2>1, FirstReaped DEF KernelFits
    <2>3. PICK first : first = completed[1].urb /\ first \in Urbs
        BY <2>2 DEF Completions
    <2>4. Has(first) /\ ~Has(first)' /\ \A u \in Urbs : Has(u)' => Has(u)
        BY <2>1, <2>2, <2>3, KernelGives
    <2>5. KernelFits' /\ Held' = Held - 1 /\ Held' \in Nat
        BY <2>1, <2>2, <2>3, KernelGives
    <2>6. KernelType'
        BY <2>5 DEF KernelFits
    <2>7. CountFits'
        BY SMTT(30), <1>0, <2>1, <2>2, <2>3, <2>4, <2>5, <2>6
        DEF CountFits, Unmarked, ReaderAt, LoopAt, TypeOK
    <2>8. TypeOK'
        <3>1. reader' \in [pc : ReaderPCs, i : 1..Depth+1]
            BY <2>1, UrbPipelineAssumption DEF TypeOK, ReaderPCs, IndexFits, ReaderAt
        <3>2. loop' \in [pc : LoopPCs, u : Urbs, transfer : 0..MaxTransfers]
            BY <2>1, <2>2 DEF TypeOK, LoopPCs, Completions
        <3>3. submitted' \in 0..Depth+1
            BY <1>0, <2>1, <2>6, <2>7, UrbPipelineAssumption
            DEF TypeOK, CountFits, Unmarked, ReaderAt, LoopAt
        <3> QED BY <2>1, <2>2, <2>6, <3>1, <3>2, <3>3, UrbPipelineAssumption
                DEF TypeOK, KernelType, Completions
    <2>9. HandFits' /\ GivenFits'
        BY SMTT(30), <1>0, <2>1, <2>2, <2>3, <2>4, <2>5, <2>6, UrbPipelineAssumption
        DEF HandFits, GivenFits, HasUrb, Given, ReaderAt, LoopAt, TypeOK, Urbs
    <2>10. IndexFits'
        BY <1>0, <2>1, <2>2, <2>3, <2>4, <2>5, <2>6, UrbPipelineAssumption
        DEF IndexFits, ReaderAt, TypeOK
    <2>11. Ordered'
        BY <1>0, <2>1, <2>2, <2>3, <2>4, <2>5, <2>6, ReapKeepsOrder
        DEF Ordered, NextInHand, LoopAt, KernelFits
    <2> QED BY <2>5, <2>7, <2>8, <2>9, <2>10, <2>11
<1>4. CASE ReapFails
    <2>1. /\ reader.pc \in {"block", "block2"}
          /\ \E pc \in {"reap", "reap2"} : reader' = [pc |-> pc, i |-> reader.i + 1]
          /\ UNCHANGED <<inflight, completed, plugged, transfers, arena, flag, submitted,
                         cancel_requested, health, registered, running, loop,
                         delivered, errors>>
        BY <1>4 DEF ReapFails, kernel, pipeline, epoll, ReapOf, ReaderGoto
    <2>2. KernelFits' /\ Held' = Held /\ \A u \in Urbs : Has(u)' <=> Has(u)
        BY <2>1, KernelRests
    <2>3. KernelType'
        BY <2>2 DEF KernelFits
    <2>4. CountFits'
        BY <1>0, <2>1, <2>2, <2>3 DEF CountFits, Unmarked, ReaderAt, LoopAt, TypeOK
    <2>5. TypeOK'
        BY <1>0, <2>1, <2>2, <2>3, <2>4, UrbPipelineAssumption
        DEF TypeOK, CountFits, Unmarked, KernelType, Urbs, ReaderPCs, LoopPCs, Completions,
            IndexFits, ReaderAt, LoopAt
    <2>6. HandFits' /\ GivenFits'
        BY <1>0, <2>1, <2>2, <2>3, UrbPipelineAssumption
        DEF HandFits, GivenFits, HasUrb, Given, ReaderAt, LoopAt, TypeOK, Urbs
    <2>7. IndexFits'
        BY <1>0, <2>1, <2>2, <2>3, UrbPipelineAssumption DEF IndexFits, ReaderAt, TypeOK
    <2>8. Ordered'
        BY <1>0, <2>1, <2>2, <2>3, OrderRests DEF TypeOK
    <2> QED BY <2>2, <2>4, <2>5, <2>6, <2>7, <2>8
<1>5. CASE ForceClear
    <2>1. /\ reader.pc \in {"reap", "reap2"}
          /\ \E pc \in {"stop_bulk", "free"} : reader' = [pc |-> pc, i |-> 1]
          /\ flag' = [u \in Urbs |-> FALSE] /\ submitted' = 0
          /\ UNCHANGED <<inflight, completed, plugged, transfers, arena, cancel_requested,
                         health, registered, running, loop, delivered, errors>>
        BY <1>5 DEF ForceClear, kernel, pipeline, epoll, ReaderGoto
    <2>2. KernelFits' /\ Held' = Held /\ \A u \in Urbs : Has(u)' <=> Has(u)
        BY <2>1, KernelRests
    <2>3. KernelType'
        BY <2>2 DEF KernelFits
    <2>4. CountFits'
        BY <1>0, <2>1, <2>2, <2>3 DEF CountFits, Unmarked, ReaderAt, LoopAt, TypeOK
    <2>5. TypeOK'
        BY <1>0, <2>1, <2>2, <2>3, <2>4, UrbPipelineAssumption
        DEF TypeOK, CountFits, Unmarked, KernelType, Urbs, ReaderPCs, LoopPCs, Completions,
            IndexFits, ReaderAt, LoopAt
    <2>6. HandFits' /\ GivenFits'
        BY <1>0, <2>1, <2>2, <2>3, UrbPipelineAssumption
        DEF HandFits, GivenFits, HasUrb, Given, ReaderAt, LoopAt, TypeOK, Urbs
    <2>7. IndexFits'
        BY <1>0, <2>1, <2>2, <2>3, UrbPipelineAssumption DEF IndexFits, ReaderAt, TypeOK
    <2>8. Ordered'
        BY <1>0, <2>1, <2>2, <2>3, OrderRests DEF TypeOK
    <2> QED BY <2>2, <2>4, <2>5, <2>6, <2>7, <2>8
<1> QED BY <1>1, <1>2, <1>3, <1>4, <1>5

(* The reader ends.                                                        *)
LEMMA EndingKeepsInv ==
    ASSUME Inv, StopBulk \/ Free \/ StopLoop \/ JoinLoop
    PROVE  Inv'
<1> USE DEF Inv
<1>0. Held \in 0..Depth
    BY KernelBounded
<1>1. CASE StopBulk
    <2>1. /\ ReaderAt("stop_bulk") /\ reader' = [pc |-> "discard2", i |-> 1]
          /\ health' \in {"OK", "DISCONNECTED"}
          /\ UNCHANGED <<inflight, completed, plugged, transfers, arena, flag, submitted,
                         cancel_requested, registered, running, loop, delivered,
                         errors>>
        BY <1>1 DEF StopBulk, kernel, pipeline, epoll, ReaderGoto, TypeOK
    <2>2. KernelFits' /\ Held' = Held /\ \A u \in Urbs : Has(u)' <=> Has(u)
        BY <2>1, KernelRests
    <2>3. KernelType'
        BY <2>2 DEF KernelFits
    <2>4. CountFits'
        BY <1>0, <2>1, <2>2, <2>3 DEF CountFits, Unmarked, ReaderAt, LoopAt, TypeOK
    <2>5. TypeOK'
        BY <1>0, <2>1, <2>2, <2>3, <2>4, UrbPipelineAssumption
        DEF TypeOK, CountFits, Unmarked, KernelType, Urbs, ReaderPCs, LoopPCs, Completions,
            IndexFits, ReaderAt, LoopAt
    <2>6. HandFits' /\ GivenFits'
        BY <1>0, <2>1, <2>2, <2>3, UrbPipelineAssumption
        DEF HandFits, GivenFits, HasUrb, Given, ReaderAt, LoopAt, TypeOK, Urbs
    <2>7. IndexFits'
        BY <1>0, <2>1, <2>2, <2>3, UrbPipelineAssumption DEF IndexFits, ReaderAt, TypeOK
    <2>8. Ordered'
        BY <1>0, <2>1, <2>2, <2>3, OrderRests DEF TypeOK
    <2> QED BY <2>2, <2>4, <2>5, <2>6, <2>7, <2>8
<1>2. CASE Free
    <2>1. /\ ReaderAt("free") /\ reader' = [pc |-> "stop_loop", i |-> 1]
          /\ arena' = "freed" /\ submitted' = 0
          /\ UNCHANGED <<inflight, completed, plugged, transfers, flag, cancel_requested,
                         health, registered, running, loop, delivered, errors>>
        BY <1>2 DEF Free, kernel, pipeline, epoll, ReaderGoto
    <2>2. KernelFits' /\ Held' = Held /\ \A u \in Urbs : Has(u)' <=> Has(u)
        BY <2>1, KernelRests
    <2>3. KernelType'
        BY <2>2 DEF KernelFits
    <2>4. CountFits'
        BY <1>0, <2>1, <2>2, <2>3 DEF CountFits, Unmarked, ReaderAt, LoopAt, TypeOK
    <2>5. TypeOK'
        BY <1>0, <2>1, <2>2, <2>3, <2>4, UrbPipelineAssumption
        DEF TypeOK, CountFits, Unmarked, KernelType, Urbs, ReaderPCs, LoopPCs, Completions,
            IndexFits, ReaderAt, LoopAt
    <2>6. HandFits' /\ GivenFits'
        BY <1>0, <2>1, <2>2, <2>3, UrbPipelineAssumption
        DEF HandFits, GivenFits, HasUrb, Given, ReaderAt, LoopAt, TypeOK, Urbs
    <2>7. IndexFits'
        BY <1>0, <2>1, <2>2, <2>3, UrbPipelineAssumption DEF IndexFits, ReaderAt, TypeOK
    <2>8. Ordered'
        BY <1>0, <2>1, <2>2, <2>3, OrderRests DEF TypeOK
    <2> QED BY <2>2, <2>4, <2>5, <2>6, <2>7, <2>8
<1>3. CASE StopLoop
    <2>1. /\ ReaderAt("stop_loop") /\ reader' = [pc |-> "join_loop", i |-> 1]
          /\ running' = FALSE
          /\ UNCHANGED <<inflight, completed, plugged, transfers, arena, flag, submitted,
                         cancel_requested, health, registered, loop, delivered,
                         errors>>
        BY <1>3 DEF StopLoop, kernel, pipeline, epoll, ReaderGoto
    <2>2. KernelFits' /\ Held' = Held /\ \A u \in Urbs : Has(u)' <=> Has(u)
        BY <2>1, KernelRests
    <2>3. KernelType'
        BY <2>2 DEF KernelFits
    <2>4. CountFits'
        BY <1>0, <2>1, <2>2, <2>3 DEF CountFits, Unmarked, ReaderAt, LoopAt, TypeOK
    <2>5. TypeOK'
        <3>1. reader' \in [pc : ReaderPCs, i : 1..Depth+1]
            BY <2>1, UrbPipelineAssumption DEF TypeOK, ReaderPCs, IndexFits, ReaderAt
        <3>2. loop' \in [pc : LoopPCs, u : Urbs, transfer : 0..MaxTransfers]
            BY <2>1 DEF TypeOK, LoopPCs, Completions
        <3>3. submitted' \in 0..Depth+1
            BY <1>0, <2>1, <2>3, <2>4, UrbPipelineAssumption
            DEF TypeOK, CountFits, Unmarked, ReaderAt, LoopAt
        <3> QED BY <2>1, <2>3, <3>1, <3>2, <3>3, UrbPipelineAssumption
                DEF TypeOK, KernelType, Completions
    <2>6. HandFits' /\ GivenFits'
        BY <1>0, <2>1, <2>2, <2>3, UrbPipelineAssumption
        DEF HandFits, GivenFits, HasUrb, Given, ReaderAt, LoopAt, TypeOK, Urbs
    <2>7. IndexFits'
        BY <1>0, <2>1, <2>2, <2>3, UrbPipelineAssumption DEF IndexFits, ReaderAt, TypeOK
    <2>8. Ordered'
        BY <1>0, <2>1, <2>2, <2>3, OrderRests DEF TypeOK
    <2> QED BY <2>2, <2>4, <2>5, <2>6, <2>7, <2>8
<1>4. CASE JoinLoop
    <2>1. /\ ReaderAt("join_loop") /\ reader' = [pc |-> "ended", i |-> 1]
          /\ UNCHANGED <<inflight, completed, plugged, transfers, arena, flag, submitted,
                         cancel_requested, health, registered, running, loop,
                         delivered, errors>>
        BY <1>4 DEF JoinLoop, kernel, pipeline, epoll, ReaderGoto
    <2>2. KernelFits' /\ Held' = Held /\ \A u \in Urbs : Has(u)' <=> Has(u)
        BY <2>1, KernelRests
    <2>3. KernelType'
        BY <2>2 DEF KernelFits
    <2>4. CountFits'
        BY <1>0, <2>1, <2>2, <2>3 DEF CountFits, Unmarked, ReaderAt, LoopAt, TypeOK
    <2>5. TypeOK'
        BY <1>0, <2>1, <2>2, <2>3, <2>4, UrbPipelineAssumption
        DEF TypeOK, CountFits, Unmarked, KernelType, Urbs, ReaderPCs, LoopPCs, Completions,
            IndexFits, ReaderAt, LoopAt
    <2>6. HandFits' /\ GivenFits'
        BY <1>0, <2>1, <2>2, <2>3, UrbPipelineAssumption
        DEF HandFits, GivenFits, HasUrb, Given, ReaderAt, LoopAt, TypeOK, Urbs
    <2>7. IndexFits'
        BY <1>0, <2>1, <2>2, <2>3, UrbPipelineAssumption DEF IndexFits, ReaderAt, TypeOK
    <2>8. Ordered'
        BY <1>0, <2>1, <2>2, <2>3, OrderRests DEF TypeOK
    <2> QED BY <2>2, <2>4, <2>5, <2>6, <2>7, <2>8
<1> QED BY <1>1, <1>2, <1>3, <1>4

(* The event loop.                                                         *)
LEMMA LoopKeepsInv ==
    ASSUME Inv, LoopEnters \/ LoopReaps \/ LoopFindsNothing \/ LoopChecks \/ LoopCallsBack \/
           LoopDecides \/ LoopResubmits \/ LoopLosesUrb \/ LoopMarks
    PROVE  Inv'
<1> USE DEF Inv
<1>0. Held \in 0..Depth
    BY KernelBounded
<1>1. CASE LoopEnters
    <2>1. /\ LoopAt("wait") /\ loop' = [loop EXCEPT !.pc = "reap"]
          /\ UNCHANGED <<inflight, completed, plugged, transfers, arena, flag, submitted,
                         cancel_requested, health, registered, running, reader,
                         delivered, errors>>
        BY <1>1 DEF LoopEnters, kernel, pipeline, epoll, LoopGoto
    <2>2. KernelFits' /\ Held' = Held /\ \A u \in Urbs : Has(u)' <=> Has(u)
        BY <2>1, KernelRests
    <2>3. KernelType'
        BY <2>2 DEF KernelFits
    <2>4. CountFits'
        BY <1>0, <2>1, <2>2, <2>3 DEF CountFits, Unmarked, ReaderAt, LoopAt, TypeOK
    <2>5. TypeOK'
        BY ZenonT(30), <1>0, <2>1, <2>2, <2>3, <2>4, UrbPipelineAssumption
        DEF TypeOK, CountFits, Unmarked, KernelType, Urbs, ReaderPCs, LoopPCs, Completions,
            IndexFits, ReaderAt, LoopAt
    <2>6. HandFits' /\ GivenFits'
        BY <1>0, <2>1, <2>2, <2>3, UrbPipelineAssumption
        DEF HandFits, GivenFits, HasUrb, Given, ReaderAt, LoopAt, TypeOK, Urbs
    <2>7. IndexFits'
        BY <1>0, <2>1, <2>2, <2>3, UrbPipelineAssumption DEF IndexFits, ReaderAt, TypeOK
    <2>8. Ordered'
        BY <1>0, <2>1, <2>2, <2>3
        DEF Ordered, Increasing, NoneDelivered, NextInHand, LoopAt, TypeOK
    <2> QED BY <2>2, <2>4, <2>5, <2>6, <2>7, <2>8
<1>2. CASE LoopReaps
    <2>1. /\ LoopAt("reap")
          /\ completed # <<>> /\ completed' = Tail(completed)
          /\ flag' = [flag EXCEPT ![Head(completed).urb] = FALSE]
          /\ submitted' = IF submitted > 0 THEN submitted - 1 ELSE 0
          /\ loop' = [pc |-> "check", u |-> Head(completed).urb,
                       transfer |-> Head(completed).transfer]
          /\ UNCHANGED <<inflight, plugged, transfers, arena, cancel_requested, health,
                         registered, running, reader, delivered, errors>>
        BY <1>2 DEF LoopReaps, kernel, pipeline, epoll, Reaped, LoopGoto
    <2>2. Reaps /\ Head(completed) = completed[1] /\ completed[1] \in Completions
        BY <2>1, FirstReaped DEF KernelFits
    <2>3. PICK first : first = completed[1].urb /\ first \in Urbs
        BY <2>2 DEF Completions
    <2>4. Has(first) /\ ~Has(first)' /\ \A u \in Urbs : Has(u)' => Has(u)
        BY <2>1, <2>2, <2>3, KernelGives
    <2>5. KernelFits' /\ Held' = Held - 1 /\ Held' \in Nat
        BY <2>1, <2>2, <2>3, KernelGives
    <2>6. KernelType'
        BY <2>5 DEF KernelFits
    <2>7. CountFits'
        BY <1>0, <2>1, <2>2, <2>3, <2>4, <2>5, <2>6
        DEF CountFits, Unmarked, ReaderAt, LoopAt, TypeOK
    <2>8. TypeOK'
        <3>1. reader' \in [pc : ReaderPCs, i : 1..Depth+1]
            BY <2>1, UrbPipelineAssumption DEF TypeOK, ReaderPCs, IndexFits, ReaderAt
        <3>2. loop' \in [pc : LoopPCs, u : Urbs, transfer : 0..MaxTransfers]
            BY <2>1, <2>2 DEF TypeOK, LoopPCs, Completions
        <3>3. submitted' \in 0..Depth+1
            BY <1>0, <2>1, <2>6, <2>7, UrbPipelineAssumption
            DEF TypeOK, CountFits, Unmarked, ReaderAt, LoopAt
        <3> QED BY <2>1, <2>2, <2>6, <3>1, <3>2, <3>3, UrbPipelineAssumption
                DEF TypeOK, KernelType, Completions
    <2>9. HandFits' /\ GivenFits'
        BY <1>0, <2>1, <2>2, <2>3, <2>4, <2>5, <2>6, UrbPipelineAssumption
        DEF HandFits, GivenFits, HasUrb, Given, ReaderAt, LoopAt, TypeOK, Urbs
    <2>10. IndexFits'
        BY <1>0, <2>1, <2>2, <2>3, <2>4, <2>5, <2>6, UrbPipelineAssumption
        DEF IndexFits, ReaderAt, TypeOK
    <2>11. Ordered'
        BY <1>0, <2>1, <2>2, <2>3, <2>4, <2>5, <2>6, ReapKeepsOrder
        DEF Ordered, NextInHand, LoopAt, KernelFits
    <2> QED BY <2>5, <2>7, <2>8, <2>9, <2>10, <2>11
<1>3. CASE LoopFindsNothing
    <2>1. /\ LoopAt("reap") /\ loop' = [loop EXCEPT !.pc = "wait"]
          /\ UNCHANGED <<inflight, completed, plugged, transfers, arena, flag, submitted,
                         cancel_requested, health, registered, running, reader,
                         delivered, errors>>
        BY <1>3 DEF LoopFindsNothing, kernel, pipeline, epoll, LoopGoto
    <2>2. KernelFits' /\ Held' = Held /\ \A u \in Urbs : Has(u)' <=> Has(u)
        BY <2>1, KernelRests
    <2>3. KernelType'
        BY <2>2 DEF KernelFits
    <2>4. CountFits'
        BY <1>0, <2>1, <2>2, <2>3 DEF CountFits, Unmarked, ReaderAt, LoopAt, TypeOK
    <2>5. TypeOK'
        BY ZenonT(30), <1>0, <2>1, <2>2, <2>3, <2>4, UrbPipelineAssumption
        DEF TypeOK, CountFits, Unmarked, KernelType, Urbs, ReaderPCs, LoopPCs, Completions,
            IndexFits, ReaderAt, LoopAt
    <2>6. HandFits' /\ GivenFits'
        BY <1>0, <2>1, <2>2, <2>3, UrbPipelineAssumption
        DEF HandFits, GivenFits, HasUrb, Given, ReaderAt, LoopAt, TypeOK, Urbs
    <2>7. IndexFits'
        BY <1>0, <2>1, <2>2, <2>3, UrbPipelineAssumption DEF IndexFits, ReaderAt, TypeOK
    <2>8. Ordered'
        BY <1>0, <2>1, <2>2, <2>3
        DEF Ordered, Increasing, NoneDelivered, NextInHand, LoopAt, TypeOK
    <2> QED BY <2>2, <2>4, <2>5, <2>6, <2>7, <2>8
<1>4. CASE LoopChecks
    <2>1. /\ LoopAt("check")
          /\ \/ loop' = [loop EXCEPT !.pc = "reap"]
             \/ loop.transfer # NoTransfer /\ loop' = [loop EXCEPT !.pc = "callback"]
             \/ loop' = [loop EXCEPT !.pc = "resubmit"]
          /\ UNCHANGED <<inflight, completed, plugged, transfers, arena, flag, submitted,
                         cancel_requested, health, registered, running, reader,
                         delivered, errors>>
        BY <1>4 DEF LoopChecks, kernel, pipeline, epoll, LoopGoto
    <2>2. KernelFits' /\ Held' = Held /\ \A u \in Urbs : Has(u)' <=> Has(u)
        BY <2>1, KernelRests
    <2>3. KernelType'
        BY <2>2 DEF KernelFits
    <2>4. CountFits'
        BY <1>0, <2>1, <2>2, <2>3 DEF CountFits, Unmarked, ReaderAt, LoopAt, TypeOK
    <2>5. TypeOK'
        BY SMTT(30), <1>0, <2>1, <2>2, <2>3, <2>4, UrbPipelineAssumption
        DEF TypeOK, CountFits, Unmarked, KernelType, Urbs, ReaderPCs, LoopPCs, Completions,
            IndexFits, ReaderAt, LoopAt
    <2>6. HandFits' /\ GivenFits'
        BY <1>0, <2>1, <2>2, <2>3, UrbPipelineAssumption
        DEF HandFits, GivenFits, HasUrb, Given, ReaderAt, LoopAt, TypeOK, Urbs
    <2>7. IndexFits'
        BY <1>0, <2>1, <2>2, <2>3, UrbPipelineAssumption DEF IndexFits, ReaderAt, TypeOK
    <2>8. Ordered'
        BY <1>0, <2>1, <2>2, <2>3
        DEF Ordered, Increasing, NoneDelivered, NextInHand, LoopAt, TypeOK
    <2> QED BY <2>2, <2>4, <2>5, <2>6, <2>7, <2>8
<1>5. CASE LoopCallsBack
    <2>1. /\ LoopAt("callback") /\ loop' = [loop EXCEPT !.pc = "resubmit"]
          /\ delivered' = loop.transfer
          /\ UNCHANGED <<inflight, completed, plugged, transfers, arena, flag, submitted,
                         cancel_requested, health, registered, running, reader,
                         errors>>
        BY <1>5 DEF LoopCallsBack, kernel, pipeline, epoll, LoopGoto
    <2>2. KernelFits' /\ Held' = Held /\ \A u \in Urbs : Has(u)' <=> Has(u)
        BY <2>1, KernelRests
    <2>3. KernelType'
        BY <2>2 DEF KernelFits
    <2>4. CountFits'
        BY <1>0, <2>1, <2>2, <2>3 DEF CountFits, Unmarked, ReaderAt, LoopAt, TypeOK
    <2>5. TypeOK'
        BY ZenonT(30), <1>0, <2>1, <2>2, <2>3, <2>4, UrbPipelineAssumption
        DEF TypeOK, CountFits, Unmarked, KernelType, Urbs, ReaderPCs, LoopPCs, Completions,
            IndexFits, ReaderAt, LoopAt
    <2>6. HandFits' /\ GivenFits'
        BY <1>0, <2>1, <2>2, <2>3, UrbPipelineAssumption
        DEF HandFits, GivenFits, HasUrb, Given, ReaderAt, LoopAt, TypeOK, Urbs
    <2>7. IndexFits'
        BY <1>0, <2>1, <2>2, <2>3, UrbPipelineAssumption DEF IndexFits, ReaderAt, TypeOK
    <2>8. Ordered'
        BY <1>0, <2>1, <2>2, <2>3
        DEF Ordered, Increasing, NoneDelivered, NextInHand, LoopAt, TypeOK
    <2> QED BY <2>2, <2>4, <2>5, <2>6, <2>7, <2>8
<1>6. CASE LoopDecides
    <2>1. /\ LoopAt("resubmit")
          /\ \E pc \in {"reap", "submit"} : loop' = [loop EXCEPT !.pc = pc]
          /\ UNCHANGED <<inflight, completed, plugged, transfers, arena, flag, submitted,
                         cancel_requested, health, registered, running, reader,
                         delivered, errors>>
        BY <1>6 DEF LoopDecides, kernel, pipeline, epoll, LoopGoto
    <2>2. KernelFits' /\ Held' = Held /\ \A u \in Urbs : Has(u)' <=> Has(u)
        BY <2>1, KernelRests
    <2>3. KernelType'
        BY <2>2 DEF KernelFits
    <2>4. CountFits'
        BY <1>0, <2>1, <2>2, <2>3 DEF CountFits, Unmarked, ReaderAt, LoopAt, TypeOK
    <2>5. TypeOK'
        <3>1. reader' \in [pc : ReaderPCs, i : 1..Depth+1]
            BY <2>1, UrbPipelineAssumption DEF TypeOK, ReaderPCs, IndexFits, ReaderAt
        <3>2. loop' \in [pc : LoopPCs, u : Urbs, transfer : 0..MaxTransfers]
            BY <2>1 DEF TypeOK, LoopPCs, Completions
        <3>3. submitted' \in 0..Depth+1
            BY <1>0, <2>1, <2>3, <2>4, UrbPipelineAssumption
            DEF TypeOK, CountFits, Unmarked, ReaderAt, LoopAt
        <3> QED BY <2>1, <2>3, <3>1, <3>2, <3>3, UrbPipelineAssumption
                DEF TypeOK, KernelType, Completions
    <2>6. HandFits' /\ GivenFits'
        BY <1>0, <2>1, <2>2, <2>3, UrbPipelineAssumption
        DEF HandFits, GivenFits, HasUrb, Given, ReaderAt, LoopAt, TypeOK, Urbs
    <2>7. IndexFits'
        BY <1>0, <2>1, <2>2, <2>3, UrbPipelineAssumption DEF IndexFits, ReaderAt, TypeOK
    <2>8. Ordered'
        BY <1>0, <2>1, <2>2, <2>3
        DEF Ordered, Increasing, NoneDelivered, NextInHand, LoopAt, TypeOK
    <2> QED BY <2>2, <2>4, <2>5, <2>6, <2>7, <2>8
<1>7. CASE LoopResubmits
    <2>1. /\ LoopAt("submit") /\ loop' = [loop EXCEPT !.pc = "mark"]
          /\ inflight' = Append(inflight, loop.u)
          /\ UNCHANGED <<completed, plugged, transfers, arena, flag, submitted,
                         cancel_requested, health, registered, running, reader,
                         delivered, errors>>
        BY <1>7 DEF LoopResubmits, kernel, pipeline, epoll, SubmitOk, LoopGoto
    <2>2. loop.u \in Urbs /\ ~Has(loop.u)
        BY <2>1
        DEF TypeOK, Urbs, GivenFits, Given, IndexFits, HandFits, HasUrb, ReaderAt, LoopAt
    <2>3. \A u \in Urbs : Has(u)' <=> Has(u) \/ u = loop.u
        BY <2>1, <2>2, KernelTakes
    <2>4. KernelFits' /\ Held' = Held + 1
        BY <2>1, <2>2, KernelTakes
    <2>5. KernelType'
        BY <2>4 DEF KernelFits
    <2>6. CountFits'
        BY <1>0, <2>1, <2>2, <2>3, <2>4, <2>5 DEF CountFits, Unmarked, ReaderAt, LoopAt, TypeOK
    <2>7. TypeOK'
        BY ZenonT(30), <1>0, <2>1, <2>2, <2>3, <2>4, <2>5, <2>6, UrbPipelineAssumption
        DEF TypeOK, CountFits, Unmarked, KernelType, Urbs, ReaderPCs, LoopPCs, Completions,
            IndexFits, ReaderAt, LoopAt
    <2>8. HandFits' /\ GivenFits'
        BY <1>0, <2>1, <2>2, <2>3, <2>4, <2>5, UrbPipelineAssumption
        DEF HandFits, GivenFits, HasUrb, Given, ReaderAt, LoopAt, TypeOK, Urbs
    <2>9. IndexFits'
        BY <1>0, <2>1, <2>2, <2>3, <2>4, <2>5, UrbPipelineAssumption
        DEF IndexFits, ReaderAt, TypeOK
    <2>10. Ordered'
        BY <1>0, <2>1, <2>2, <2>3, <2>4, <2>5
        DEF Ordered, Increasing, NoneDelivered, NextInHand, LoopAt, TypeOK
    <2> QED BY <2>4, <2>6, <2>7, <2>8, <2>9, <2>10
<1>8. CASE LoopLosesUrb
    <2>1. /\ LoopAt("submit") /\ loop' = [loop EXCEPT !.pc = "reap"]
          /\ errors' \in 0..MaxErrors /\ cancel_requested' \in BOOLEAN
          /\ UNCHANGED <<inflight, completed, plugged, transfers, arena, flag, submitted,
                         health, registered, running, reader, delivered>>
        BY <1>8, UrbPipelineAssumption
        DEF LoopLosesUrb, kernel, pipeline, epoll, SubmitError, TypeOK, LoopGoto
    <2>2. KernelFits' /\ Held' = Held /\ \A u \in Urbs : Has(u)' <=> Has(u)
        BY <2>1, KernelRests
    <2>3. KernelType'
        BY <2>2 DEF KernelFits
    <2>4. CountFits'
        BY <1>0, <2>1, <2>2, <2>3 DEF CountFits, Unmarked, ReaderAt, LoopAt, TypeOK
    <2>5. TypeOK'
        BY ZenonT(30), <1>0, <2>1, <2>2, <2>3, <2>4, UrbPipelineAssumption
        DEF TypeOK, CountFits, Unmarked, KernelType, Urbs, ReaderPCs, LoopPCs, Completions,
            IndexFits, ReaderAt, LoopAt
    <2>6. HandFits' /\ GivenFits'
        BY <1>0, <2>1, <2>2, <2>3, UrbPipelineAssumption
        DEF HandFits, GivenFits, HasUrb, Given, ReaderAt, LoopAt, TypeOK, Urbs
    <2>7. IndexFits'
        BY <1>0, <2>1, <2>2, <2>3, UrbPipelineAssumption DEF IndexFits, ReaderAt, TypeOK
    <2>8. Ordered'
        BY <1>0, <2>1, <2>2, <2>3
        DEF Ordered, Increasing, NoneDelivered, NextInHand, LoopAt, TypeOK
    <2> QED BY <2>2, <2>4, <2>5, <2>6, <2>7, <2>8
<1>9. CASE LoopMarks
    <2>1. /\ LoopAt("mark") /\ loop' = [loop EXCEPT !.pc = "reap"]
          /\ submitted' = submitted + 1 /\ flag' \in [Urbs -> BOOLEAN]
          /\ UNCHANGED <<inflight, completed, plugged, transfers, arena, cancel_requested,
                         health, registered, running, reader, delivered, errors>>
        BY <1>9, UrbPipelineAssumption
        DEF LoopMarks, kernel, pipeline, epoll, Submitted, TypeOK, LoopGoto
    <2>2. KernelFits' /\ Held' = Held /\ \A u \in Urbs : Has(u)' <=> Has(u)
        BY <2>1, KernelRests
    <2>3. KernelType'
        BY <2>2 DEF KernelFits
    <2>4. CountFits'
        BY <1>0, <2>1, <2>2, <2>3 DEF CountFits, Unmarked, ReaderAt, LoopAt, TypeOK
    <2>5. TypeOK'
        <3>1. reader' \in [pc : ReaderPCs, i : 1..Depth+1]
            BY <2>1, UrbPipelineAssumption DEF TypeOK, ReaderPCs, IndexFits, ReaderAt
        <3>2. loop' \in [pc : LoopPCs, u : Urbs, transfer : 0..MaxTransfers]
            BY <2>1 DEF TypeOK, LoopPCs, Completions
        <3>3. submitted' \in 0..Depth+1
            BY SMTT(30), <1>0, <2>1, <2>3, <2>4, UrbPipelineAssumption
            DEF TypeOK, CountFits, Unmarked, ReaderAt, LoopAt
        <3> QED BY <2>1, <2>3, <3>1, <3>2, <3>3, UrbPipelineAssumption
                DEF TypeOK, KernelType, Completions
    <2>6. HandFits' /\ GivenFits'
        BY <1>0, <2>1, <2>2, <2>3, UrbPipelineAssumption
        DEF HandFits, GivenFits, HasUrb, Given, ReaderAt, LoopAt, TypeOK, Urbs
    <2>7. IndexFits'
        BY <1>0, <2>1, <2>2, <2>3, UrbPipelineAssumption DEF IndexFits, ReaderAt, TypeOK
    <2>8. Ordered'
        BY <1>0, <2>1, <2>2, <2>3
        DEF Ordered, Increasing, NoneDelivered, NextInHand, LoopAt, TypeOK
    <2> QED BY <2>2, <2>4, <2>5, <2>6, <2>7, <2>8
<1> QED BY <1>1, <1>2, <1>3, <1>4, <1>5, <1>6, <1>7, <1>8, <1>9

-----------------------------------------------------------------------------
(* The invariant and what follows from it.                                 *)

(* The initial states.                                                     *)
LEMMA InitInv == Init => Inv
<1> SUFFICES ASSUME Init PROVE Inv
    OBVIOUS
<1>1. Len(inflight) = 0 /\ Len(completed) = 0 /\ KernelType
    BY EmptySeq DEF Init, KernelType
<1>2. TypeOK
    <2>1. 1 \in 1..Depth /\ 1 \in 1..Depth+1 /\ 0 \in 0..Depth+1 /\ 0 \in 0..MaxTransfers
          /\ 0 \in 0..MaxErrors
        BY UrbPipelineAssumption
    <2>2. reader \in [pc : ReaderPCs, i : 1..Depth+1]
        BY <2>1 DEF Init, ReaderPCs
    <2>3. loop \in [pc : LoopPCs, u : Urbs, transfer : 0..MaxTransfers]
        BY <2>1 DEF Init, LoopPCs, Urbs, NoTransfer
    <2> QED BY <1>1, <2>1, <2>2, <2>3 DEF Init, TypeOK, KernelType, Completions
<1>3. KernelFits /\ \A u \in Urbs : ~Has(u)
    BY <1>1 DEF KernelFits, Distinct, Has
<1>4. HandFits /\ GivenFits /\ IndexFits
    BY <1>3 DEF Init, HandFits, GivenFits, IndexFits, HasUrb
<1>5. CountFits
    BY <1>1 DEF Init, CountFits, Held, Unmarked, ReaderAt, LoopAt
<1>6. Ordered
    BY <1>1 DEF Init, Ordered, Increasing, NoneDelivered, NextInHand, LoopAt
<1> QED BY <1>2, <1>3, <1>4, <1>5, <1>6 DEF Inv

(* Every step of either thread, the kernel or the application.             *)
LEMMA NextKeepsInv == Inv /\ [Next]_vars => Inv'
<1> SUFFICES ASSUME Inv, [Next]_vars PROVE Inv'
    OBVIOUS
<1>1. CASE Next
    BY <1>1, KernelKeepsInv, OthersKeepInv, SubmittingKeepsInv, CancellingKeepsInv,
       EndingKeepsInv, LoopKeepsInv DEF Next, Reader, Loop
<1>2. CASE UNCHANGED vars
    <2> USE DEF Inv
    <2>1. UNCHANGED <<inflight, completed, plugged, transfers, arena, flag, submitted,
                      cancel_requested, health, registered, running, reader, loop,
                      delivered, errors>>
        BY <1>2 DEF vars, kernel, pipeline, epoll
    <2>2. KernelFits' /\ Held' = Held /\ \A u \in Urbs : Has(u)' <=> Has(u)
        BY <2>1, KernelRests
    <2>3. TypeOK'
        BY <2>1 DEF TypeOK
    <2>4. HandFits' /\ GivenFits' /\ IndexFits' /\ CountFits'
        BY <2>1, <2>2
        DEF HandFits, GivenFits, IndexFits, CountFits, HasUrb, Given, Unmarked, ReaderAt,
            LoopAt, TypeOK
    <2>5. Ordered'
        BY <2>1, OrderRests
    <2> QED BY <2>2, <2>3, <2>4, <2>5
<1> QED BY <1>1, <1>2

(* Neither thread submits a descriptor that the kernel still has           *)
(* (urb_submit, src/sdrgg_usb.cpp:292, called by urb_submit_all and by     *)
(* process_device_urbs without a lock): for any SDRGG_STREAM_BUF_COUNT,    *)
(* whatever completes, fails or is cancelled between any two of their      *)
(* steps.                                                                  *)
THEOREM SubmitsOnce == Spec => []SubmittedOnce
<1>1. Inv => SubmittedOnce
    BY KernelInjective DEF Inv, SubmittedOnce
<1> QED BY <1>1, InitInv, NextKeepsInv, PTL DEF Spec

(* The callback of process_device_urbs gets the transfers in the order in  *)
(* which the device completed them, none twice, for any depth, also while  *)
(* the reader reaps beside the loop.                                       *)
THEOREM DeliversInOrder == Spec => []DeliveredInOrder
<1>1. ASSUME Inv PROVE DeliveredInOrder
    <2>1. DOMAIN completed = 1..Len(completed)
        BY <1>1, LenProperties DEF Inv, KernelFits, KernelType
    <2> QED BY <1>1, <2>1 DEF Inv, Ordered, NextInHand, DeliveredInOrder, LoopAt
<1> QED BY <1>1, InitInv, NextKeepsInv, PTL DEF Spec
=============================================================================
