--------------------------- MODULE HandoffProofs ---------------------------
(***************************************************************************)
(* Proofs about Handoff, for any number of processors: the invariants the  *)
(* model checking runs check on four, and that Handoff implements          *)
(* HandoffBarrier.                                                         *)
(***************************************************************************)
EXTENDS Handoff, FiniteSetTheorems, TLAPS

(***************************************************************************)
(* The inductive invariant.  Both counters count a set of processors       *)
(* (Finished, Counted), and a processor whose reservation is intact has    *)
(* loaded the counter's present value: that is why the two ll/sc loops     *)
(* count every processor once.                                             *)
(***************************************************************************)

Shape ==
  /\ pc \in [Present -> LoaderSteps \union EntrySteps \union KernelSteps]
  /\ \A c \in Others : pc[c] \notin BootSteps
  /\ pc[Boot] \notin HandlerSteps
  /\ kickIndex \in 0..NumProcessors
  /\ frame \in {"none", "live", "dead"}
  /\ numFinished \in Nat
  /\ handlerCtx \in [Present -> {"none", "data", "garbage"}]
  /\ loaded \in [Present -> Nat]
  /\ linked \in [Present -> BOOLEAN]
  /\ entryState \in [Present -> {"none", "protocol", "garbage"}]
  /\ numStarted \in Nat
  /\ bootCpuHwid \in Present \union {NoCpu}
  /\ rootTable \in {"loader", "recursive", "kernel"}
  /\ memory \in {"loader", "kernel"}

\* The boot processor's progress bounds that of the handlers.
BootInv ==
  /\ pc[Boot] = "run" => \A c \in Others : pc[c] = "firmware"
  /\ pc[Boot] = "kick" => \A c \in Others : c >= kickIndex => pc[c] = "firmware"
  /\ pc[Boot] \in {"kick", "wait"} => frame = "live"
  /\ pc[Boot] \notin BootSteps => Finished = Others
  /\ frame = "dead" => pc[Boot] \notin BootSteps

CountInv ==
  /\ numFinished = Cardinality(Finished)
  /\ numStarted = Cardinality(Counted)
  /\ \A c \in Present :
       /\ pc[c] = "sc_finished" /\ linked[c] => loaded[c] = numFinished
       /\ pc[c] = "sc_started" /\ linked[c] => loaded[c] = numStarted

NumberInv ==
  /\ \A c \in Counted : loaded[c] < numStarted
  /\ \A c, d \in Counted : loaded[c] = loaded[d] => c = d
  /\ Counted # {} => \E c \in Counted : loaded[c] = 0
  /\ \A c \in Present : pc[c] \in {"gather", "kernel"} =>
       loaded[c] = 0 /\ bootCpuHwid = c

EntryInv ==
  /\ \A c \in Present : pc[c] \notin {"firmware", "kicked"} => handlerCtx[c] = "data"
  /\ EntryStateAsPromised
  /\ KernelStartsAlone
  /\ memory = "kernel" => \E c \in Present : pc[c] = "kernel"

IInv == Shape /\ BootInv /\ CountInv /\ NumberInv /\ EntryInv

---------------------------------------------------------------------------
(* Facts about the constants.                                              *)

LEMMA Machine ==
  /\ IsFiniteSet(Present) /\ BxNumCpus \in Nat
  /\ IsFiniteSet(Others) /\ respondCount \in Nat
  /\ Cardinality(Others) = respondCount
  /\ Present \subseteq Nat
  /\ NoCpu \notin Present
<1>1. IsFiniteSet(Present)
  <2>1. IsFiniteSet(0..(NumProcessors - 1))
    BY FS_Interval, HandoffAssumption
  <2> QED  BY <2>1, FS_Subset, HandoffAssumption
<1>2. BxNumCpus \in Nat
  BY <1>1, FS_CardinalityType DEF BxNumCpus
<1>3. IsFiniteSet(Others) /\ Cardinality(Others) = respondCount
  BY <1>1, FS_RemoveElement, HandoffAssumption DEF Others, respondCount, BxNumCpus
<1>4. respondCount \in Nat
  BY <1>3, FS_CardinalityType
<1> QED  BY <1>1, <1>2, <1>3, <1>4, HandoffAssumption DEF NoCpu

\* A set of processors that gains a member gains one in cardinality, and
\* stays within the set it is drawn from.
LEMMA CountOneMore ==
  ASSUME NEW T, IsFiniteSet(T), NEW S \in SUBSET T, NEW c \in T, c \notin S
  PROVE  /\ Cardinality(S \union {c}) = Cardinality(S) + 1
         /\ Cardinality(S) \in Nat
<1>1. IsFiniteSet(S)
  BY FS_Subset
<1> QED  BY <1>1, FS_AddElement, FS_CardinalityType

\* A set that counts as many as the finite set it is drawn from is all of it.
LEMMA FullCount ==
  ASSUME NEW T, IsFiniteSet(T), NEW S \in SUBSET T,
         Cardinality(S) >= Cardinality(T)
  PROVE  S = T
<1>1. IsFiniteSet(S) /\ Cardinality(S) <= Cardinality(T)
  BY FS_Subset
<1>2. Cardinality(S) \in Nat /\ Cardinality(T) \in Nat
  BY <1>1, FS_CardinalityType
<1>3. Cardinality(T) = Cardinality(S)
  BY <1>1, <1>2
<1> QED  BY <1>3, FS_Subset

\* What the two waits establish.
LEMMA AllFinished ==
  ASSUME CountInv, numFinished >= respondCount
  PROVE  Finished = Others
<1>1. Finished \in SUBSET Others
  BY DEF Finished
<1>2. Cardinality(Finished) >= Cardinality(Others)
  BY Machine DEF CountInv
<1> QED  BY <1>1, <1>2, Machine, FullCount

LEMMA AllCounted ==
  ASSUME CountInv, numStarted >= BxNumCpus
  PROVE  Counted = Present
<1>1. Counted \in SUBSET Present
  BY DEF Counted
<1>2. Cardinality(Counted) >= Cardinality(Present)
  BY DEF CountInv, BxNumCpus
<1> QED  BY <1>1, <1>2, Machine, FullCount

LEMMA InitIInv == Init => IInv
<1> SUFFICES ASSUME Init PROVE IInv
  OBVIOUS
<1> USE HandoffAssumption DEF Init
<1>1. Shape
  BY DEF Shape, LoaderSteps, EntrySteps, KernelSteps, BootSteps, HandlerSteps, Others, NoCpu
<1>2. Finished = {} /\ Counted = {}
  BY DEF Finished, Counted, KernelSteps, HandlerSteps, Others
<1>3. BootInv
  BY <1>2 DEF BootInv, BootSteps, Others
<1>4. CountInv
  BY <1>2, FS_EmptySet DEF CountInv
<1>5. NumberInv
  BY <1>2 DEF NumberInv
<1>6. EntryInv
  BY DEF EntryInv, EntryStateAsPromised, KernelStartsAlone, EntrySteps, KernelSteps
<1> QED  BY <1>1, <1>3, <1>4, <1>5, <1>6 DEF IInv

\* Each action preserves IInv: the steps of the boot processor in
\* BxRunOnOtherCpus,
LEMMA BootStepIInv ==
  ASSUME IInv, BootStep
  PROVE  IInv'
<1> USE HandoffAssumption, Machine
        DEF LoaderSteps, EntrySteps, KernelSteps, BootSteps, HandlerSteps, Others
<1>1. ASSUME RunOnOtherCpus
      PROVE  IInv'
  <2> USE <1>1 DEF RunOnOtherCpus
  <2>1. Shape'
    BY DEF IInv, Shape
  <2>2. BootInv'
    <3>1. CASE respondCount = 0
      <4>1. Others = {}
        BY <3>1, FS_EmptySet
      <4> QED  BY <3>1, <4>1 DEF IInv, Shape, BootInv, Finished
    <3>2. CASE respondCount # 0
      BY <3>2 DEF IInv, Shape, BootInv, Finished
    <3> QED  BY <3>1, <3>2
  <2>3. CountInv'
    <3>1. Finished = {} /\ Finished' = {}
      BY DEF IInv, Shape, BootInv, Finished
    <3>2. Counted' = Counted
      BY DEF IInv, Shape, Counted
    <3>3. numFinished = 0 /\ numFinished' = 0
      BY <3>1, FS_EmptySet DEF IInv, CountInv
    <3> QED  BY <3>1, <3>2, <3>3, FS_EmptySet DEF IInv, Shape, CountInv
  <2>4. NumberInv'
    <3>1. Counted' = Counted
      BY DEF IInv, Shape, Counted
    <3> QED  BY <3>1 DEF IInv, Shape, NumberInv
  <2>5. EntryInv'
    BY DEF IInv, Shape, BootInv, EntryInv, EntryStateAsPromised,
                KernelStartsAlone, Finished, Counted
  <2> QED  BY <2>1, <2>2, <2>3, <2>4, <2>5 DEF IInv
<1>2. ASSUME KickProcessor
      PROVE  IInv'
  <2> USE <1>2 DEF KickProcessor
  <2>1. Shape'
    BY DEF IInv, Shape
  <2>2. BootInv'
    BY DEF IInv, Shape, BootInv, Finished
  <2>3. CountInv'
    BY DEF IInv, Shape, BootInv, CountInv, Finished, Counted
  <2>4. NumberInv'
    <3>1. Counted' = Counted
      BY DEF IInv, Shape, BootInv, Counted
    <3>2. pc[kickIndex] = "firmware"
      BY DEF IInv, Shape, BootInv
    <3> QED  BY <3>1, <3>2 DEF IInv, Shape, NumberInv
  <2>5. EntryInv'
    BY DEF IInv, Shape, BootInv, EntryInv, EntryStateAsPromised,
                KernelStartsAlone, Finished, Counted
  <2> QED  BY <2>1, <2>2, <2>3, <2>4, <2>5 DEF IInv
<1>3. ASSUME SkipProcessor
      PROVE  IInv'
  <2> USE <1>3 DEF SkipProcessor
  <2>1. Shape'
    BY DEF IInv, Shape
  <2>2. BootInv'
    BY DEF IInv, Shape, BootInv, Finished
  <2>3. CountInv'
    BY DEF IInv, Shape, BootInv, CountInv, Finished, Counted
  <2>4. NumberInv'
    BY DEF IInv, Shape, CountInv, NumberInv, Counted
  <2>5. EntryInv'
    BY DEF IInv, Shape, BootInv, EntryInv, EntryStateAsPromised,
                KernelStartsAlone, Finished, Counted
  <2> QED  BY <2>1, <2>2, <2>3, <2>4, <2>5 DEF IInv
<1>4. ASSUME EndKick
      PROVE  IInv'
  <2> USE <1>4 DEF EndKick
  <2>1. Shape'
    BY DEF IInv, Shape
  <2>2. BootInv'
    BY DEF IInv, Shape, BootInv, Finished
  <2>3. CountInv'
    BY DEF IInv, Shape, BootInv, CountInv, Finished, Counted
  <2>4. NumberInv'
    BY DEF IInv, Shape, CountInv, NumberInv, Counted
  <2>5. EntryInv'
    BY DEF IInv, Shape, BootInv, EntryInv, EntryStateAsPromised,
                KernelStartsAlone, Finished, Counted
  <2> QED  BY <2>1, <2>2, <2>3, <2>4, <2>5 DEF IInv
<1>5. ASSUME EndWait
      PROVE  IInv'
  <2> USE <1>5 DEF EndWait
  <2>1. Shape'
    BY DEF IInv, Shape
  <2>2. BootInv'
    <3>1. Finished = Others
      BY AllFinished DEF IInv
    <3>2. Finished' = Finished
      BY DEF IInv, Shape, Finished
    <3> QED  BY <3>1, <3>2 DEF IInv, Shape, BootInv
  <2>3. CountInv'
    BY DEF IInv, Shape, BootInv, CountInv, Finished, Counted
  <2>4. NumberInv'
    BY DEF IInv, Shape, CountInv, NumberInv, Counted
  <2>5. EntryInv'
    BY DEF IInv, Shape, BootInv, EntryInv, EntryStateAsPromised,
                KernelStartsAlone, Finished, Counted
  <2> QED  BY <2>1, <2>2, <2>3, <2>4, <2>5 DEF IInv
<1> QED  BY <1>1, <1>2, <1>3, <1>4, <1>5 DEF BootStep

\* the steps of BxKickProcessorHandler,
LEMMA HandlerIInv ==
  ASSUME IInv, NEW c \in Present,
         HandlerReadData(c) \/ HandlerLoadLinked(c) \/ HandlerStoreConditional(c)
         \/ HandlerRetry(c)
  PROVE  IInv'
<1> USE HandoffAssumption, Machine
        DEF LoaderSteps, EntrySteps, KernelSteps, BootSteps, HandlerSteps, Others
<1>1. ASSUME HandlerReadData(c)
      PROVE  IInv'
  <2> USE <1>1 DEF HandlerReadData
  <2>1. Shape'
    BY DEF IInv, Shape
  <2>2. BootInv'
    BY DEF IInv, Shape, BootInv, Finished
  <2>3. CountInv'
    BY DEF IInv, Shape, BootInv, CountInv, Finished, Counted
  <2>4. NumberInv'
    BY DEF IInv, Shape, CountInv, NumberInv, Counted
  <2>5. EntryInv'
    BY DEF IInv, Shape, BootInv, EntryInv, EntryStateAsPromised,
                KernelStartsAlone, Finished, Counted
  <2> QED  BY <2>1, <2>2, <2>3, <2>4, <2>5 DEF IInv
<1>2. ASSUME HandlerLoadLinked(c)
      PROVE  IInv'
  <2> USE <1>2 DEF HandlerLoadLinked
  <2>1. Shape'
    BY DEF IInv, Shape
  <2>2. BootInv'
    BY DEF IInv, Shape, BootInv, Finished
  <2>3. CountInv'
    BY DEF IInv, Shape, BootInv, CountInv, Finished, Counted
  <2>4. NumberInv'
    BY DEF IInv, Shape, CountInv, NumberInv, Counted
  <2>5. EntryInv'
    BY DEF IInv, Shape, BootInv, EntryInv, EntryStateAsPromised,
                KernelStartsAlone, Finished, Counted
  <2> QED  BY <2>1, <2>2, <2>3, <2>4, <2>5 DEF IInv
<1>3. ASSUME HandlerStoreConditional(c)
      PROVE  IInv'
  <2> USE <1>3 DEF HandlerStoreConditional, Unlink
  <2>1. Shape'
    BY DEF IInv, Shape
  <2>2. BootInv'
    BY DEF IInv, Shape, BootInv, Finished
  <2>3. CountInv'
    <3>1. c \in Others /\ c \notin Finished /\ Finished \in SUBSET Others
      BY DEF IInv, Shape, Finished
    <3>2. Finished' = Finished \union {c} /\ Counted' = Counted
      BY <3>1 DEF IInv, Shape, Finished, Counted
    <3>3. Cardinality(Finished') = Cardinality(Finished) + 1
      BY <3>1, <3>2, CountOneMore
    <3> QED  BY <3>2, <3>3 DEF IInv, Shape, CountInv
  <2>4. NumberInv'
    BY DEF IInv, Shape, CountInv, NumberInv, Counted
  <2>5. EntryInv'
    BY DEF IInv, Shape, BootInv, EntryInv, EntryStateAsPromised,
                KernelStartsAlone, Finished, Counted
  <2> QED  BY <2>1, <2>2, <2>3, <2>4, <2>5 DEF IInv
<1>4. ASSUME HandlerRetry(c)
      PROVE  IInv'
  <2> USE <1>4 DEF HandlerRetry
  <2>1. Shape'
    BY DEF IInv, Shape
  <2>2. BootInv'
    BY DEF IInv, Shape, BootInv, Finished
  <2>3. CountInv'
    BY DEF IInv, Shape, BootInv, CountInv, Finished, Counted
  <2>4. NumberInv'
    BY DEF IInv, Shape, CountInv, NumberInv, Counted
  <2>5. EntryInv'
    BY DEF IInv, Shape, BootInv, EntryInv, EntryStateAsPromised,
                KernelStartsAlone, Finished, Counted
  <2> QED  BY <2>1, <2>2, <2>3, <2>4, <2>5 DEF IInv
<1> QED  BY <1>1, <1>2, <1>3, <1>4

\* the transition and the counting at _start,
LEMMA EntryIInv ==
  ASSUME IInv, NEW c \in Present,
         DoTransition(c) \/ Start(c) \/ StartLoadLinked(c)
         \/ StartStoreConditional(c) \/ StartRetry(c)
  PROVE  IInv'
<1> USE HandoffAssumption, Machine
        DEF LoaderSteps, EntrySteps, KernelSteps, BootSteps, HandlerSteps, Others
<1>1. ASSUME DoTransition(c)
      PROVE  IInv'
  <2> USE <1>1 DEF DoTransition
  <2>1. Shape'
    BY DEF IInv, Shape
  <2>2. BootInv'
    BY DEF IInv, Shape, BootInv, Finished
  <2>3. CountInv'
    BY DEF IInv, Shape, BootInv, CountInv, Finished, Counted
  <2>4. NumberInv'
    BY DEF IInv, Shape, CountInv, NumberInv, Counted
  <2>5. EntryInv'
    BY DEF IInv, Shape, BootInv, EntryInv, EntryStateAsPromised,
                KernelStartsAlone, Finished, Counted
  <2> QED  BY <2>1, <2>2, <2>3, <2>4, <2>5 DEF IInv
<1>2. ASSUME Start(c)
      PROVE  IInv'
  <2> USE <1>2 DEF Start
  <2>1. Shape'
    BY DEF IInv, Shape
  <2>2. BootInv'
    BY DEF IInv, Shape, BootInv, Finished
  <2>3. CountInv'
    BY DEF IInv, Shape, BootInv, CountInv, Finished, Counted
  <2>4. NumberInv'
    BY DEF IInv, Shape, CountInv, NumberInv, Counted
  <2>5. EntryInv'
    BY DEF IInv, Shape, BootInv, EntryInv, EntryStateAsPromised,
                KernelStartsAlone, Finished, Counted
  <2> QED  BY <2>1, <2>2, <2>3, <2>4, <2>5 DEF IInv
<1>3. ASSUME StartLoadLinked(c)
      PROVE  IInv'
  <2> USE <1>3 DEF StartLoadLinked
  <2>1. Shape'
    BY DEF IInv, Shape
  <2>2. BootInv'
    BY DEF IInv, Shape, BootInv, Finished
  <2>3. CountInv'
    BY DEF IInv, Shape, BootInv, CountInv, Finished, Counted
  <2>4. NumberInv'
    BY DEF IInv, Shape, CountInv, NumberInv, Counted
  <2>5. EntryInv'
    BY DEF IInv, Shape, BootInv, EntryInv, EntryStateAsPromised,
                KernelStartsAlone, Finished, Counted
  <2> QED  BY <2>1, <2>2, <2>3, <2>4, <2>5 DEF IInv
<1>4. ASSUME StartStoreConditional(c)
      PROVE  IInv'
  <2> USE <1>4 DEF StartStoreConditional, Unlink
  <2>1. Shape'
    BY DEF IInv, Shape
  <2>2. BootInv'
    BY DEF IInv, Shape, BootInv, Finished
  <2>3. CountInv'
    <3>1. Counted \in SUBSET Present /\ c \notin Counted
      BY DEF IInv, Shape, Counted
    <3>2. Counted' = Counted \union {c} /\ Finished' = Finished
      BY DEF IInv, Shape, Finished, Counted
    <3>3. Cardinality(Counted') = Cardinality(Counted) + 1
      BY <3>1, <3>2, CountOneMore
    <3> QED  BY <3>2, <3>3 DEF IInv, Shape, CountInv
  <2>4. NumberInv'
    <3>1. Counted \in SUBSET Present /\ c \notin Counted
      BY DEF IInv, Shape, Counted
    <3>2. Counted' = Counted \union {c}
      BY DEF IInv, Shape, Counted
    <3>3. loaded[c] = numStarted /\ loaded' = loaded /\ numStarted' = numStarted + 1
      BY DEF IInv, CountInv
    <3>4. Counted = {} => loaded[c] = 0
      BY <3>3, FS_EmptySet DEF IInv, CountInv
    <3>5. \A d \in Counted' : loaded'[d] < numStarted'
      BY <3>1, <3>2, <3>3 DEF IInv, Shape, NumberInv
    <3>6. \A d, e \in Counted' : loaded'[d] = loaded'[e] => d = e
      BY <3>1, <3>2, <3>3 DEF IInv, Shape, NumberInv
    <3>7. \E d \in Counted' : loaded'[d] = 0
      BY <3>2, <3>3, <3>4 DEF IInv, NumberInv
    <3>8. \A d \in Present : pc'[d] \in {"gather", "kernel"} =>
            loaded'[d] = 0 /\ bootCpuHwid' = d
      BY <3>3 DEF IInv, Shape, NumberInv
    <3> QED  BY <3>5, <3>6, <3>7, <3>8 DEF NumberInv
  <2>5. EntryInv'
    BY DEF IInv, Shape, BootInv, EntryInv, EntryStateAsPromised,
                KernelStartsAlone, Finished, Counted
  <2> QED  BY <2>1, <2>2, <2>3, <2>4, <2>5 DEF IInv
<1>5. ASSUME StartRetry(c)
      PROVE  IInv'
  <2> USE <1>5 DEF StartRetry
  <2>1. Shape'
    BY DEF IInv, Shape
  <2>2. BootInv'
    BY DEF IInv, Shape, BootInv, Finished
  <2>3. CountInv'
    BY DEF IInv, Shape, BootInv, CountInv, Finished, Counted
  <2>4. NumberInv'
    BY DEF IInv, Shape, CountInv, NumberInv, Counted
  <2>5. EntryInv'
    BY DEF IInv, Shape, BootInv, EntryInv, EntryStateAsPromised,
                KernelStartsAlone, Finished, Counted
  <2> QED  BY <2>1, <2>2, <2>3, <2>4, <2>5 DEF IInv
<1> QED  BY <1>1, <1>2, <1>3, <1>4, <1>5

\* and what a processor does with its logical number.
LEMMA KernelIInv ==
  ASSUME IInv, NEW c \in Present,
         ParkCpu(c) \/ BecomeBootCpu(c) \/ StartKernel(c)
  PROVE  IInv'
<1> USE HandoffAssumption, Machine
        DEF LoaderSteps, EntrySteps, KernelSteps, BootSteps, HandlerSteps, Others
<1>1. ASSUME ParkCpu(c)
      PROVE  IInv'
  <2> USE <1>1 DEF ParkCpu
  <2>1. Shape'
    BY DEF IInv, Shape
  <2>2. BootInv'
    BY DEF IInv, Shape, BootInv, Finished
  <2>3. CountInv'
    BY DEF IInv, Shape, BootInv, CountInv, Finished, Counted
  <2>4. NumberInv'
    BY DEF IInv, Shape, CountInv, NumberInv, Counted
  <2>5. EntryInv'
    BY DEF IInv, Shape, BootInv, EntryInv, EntryStateAsPromised,
                KernelStartsAlone, Finished, Counted
  <2> QED  BY <2>1, <2>2, <2>3, <2>4, <2>5 DEF IInv
<1>2. ASSUME BecomeBootCpu(c)
      PROVE  IInv'
  <2> USE <1>2 DEF BecomeBootCpu
  <2>1. Shape'
    BY DEF IInv, Shape
  <2>2. BootInv'
    BY DEF IInv, Shape, BootInv, Finished
  <2>3. CountInv'
    BY DEF IInv, Shape, BootInv, CountInv, Finished, Counted
  <2>4. NumberInv'
    BY DEF IInv, Shape, CountInv, NumberInv, Counted
  <2>5. EntryInv'
    BY DEF IInv, Shape, BootInv, EntryInv, EntryStateAsPromised,
                KernelStartsAlone, Finished, Counted
  <2> QED  BY <2>1, <2>2, <2>3, <2>4, <2>5 DEF IInv
<1>3. ASSUME StartKernel(c)
      PROVE  IInv'
  <2> USE <1>3 DEF StartKernel
  <2>1. Shape'
    BY DEF IInv, Shape
  <2>2. BootInv'
    BY DEF IInv, Shape, BootInv, Finished
  <2>3. CountInv'
    BY DEF IInv, Shape, BootInv, CountInv, Finished, Counted
  <2>4. NumberInv'
    BY DEF IInv, Shape, CountInv, NumberInv, Counted
  <2>5. EntryInv'
    <3>1. Counted = Present
      BY AllCounted DEF IInv
    <3>2. Counted' = Counted
      BY DEF IInv, Shape, Counted
    <3> QED  BY <3>1, <3>2 DEF IInv, Shape, EntryInv, EntryStateAsPromised,
                              KernelStartsAlone
  <2> QED  BY <2>1, <2>2, <2>3, <2>4, <2>5 DEF IInv
<1> QED  BY <1>1, <1>2, <1>3

LEMMA NextIInv == IInv /\ [Next]_vars => IInv'
<1> SUFFICES ASSUME IInv, [Next]_vars PROVE IInv'
  OBVIOUS
<1>1. CASE BootStep
  BY <1>1, BootStepIInv
<1>2. ASSUME NEW c \in Present, CpuStep(c)
      PROVE  IInv'
  BY <1>2, HandlerIInv, EntryIInv, KernelIInv DEF CpuStep
<1>3. CASE UNCHANGED vars
  <2>1. Finished' = Finished /\ Counted' = Counted
    BY <1>3 DEF vars, Finished, Counted
  <2> QED
    BY <1>3, <2>1 DEF vars, IInv, Shape, BootInv, CountInv, NumberInv,
                      EntryInv, EntryStateAsPromised, KernelStartsAlone
<1> QED  BY <1>1, <1>2, <1>3 DEF Next, StayParked

THEOREM Invariance == Spec => []IInv
BY InitIInv, NextIInv, PTL DEF Spec

---------------------------------------------------------------------------
(* The properties of Handoff, for any number of processors.                *)

\* BxRunOnOtherCpus and num_started_cpus: the state of a handoff has its
\* type, and neither counter passes the number of processors it counts.
THEOREM TypeCorrect == Spec => []TypeOK
<1>1. IInv => TypeOK
  <2> SUFFICES ASSUME IInv PROVE TypeOK
    OBVIOUS
  <2>1. Finished \in SUBSET Others /\ Counted \in SUBSET Present
    BY DEF Finished, Counted
  <2>2. numFinished <= respondCount /\ numStarted <= BxNumCpus
    BY <2>1, Machine, FS_Subset DEF IInv, CountInv, BxNumCpus
  <2> QED  BY <2>2, Machine DEF IInv, Shape, TypeOK
<1> QED  BY <1>1, Invariance, PTL

\* BxRunOnOtherCpus does not return while a handler may use its frame.
THEOREM FrameSafe == Spec => []FrameOutlivesHandlers
<1>1. IInv => FrameOutlivesHandlers
  BY DEF IInv, Shape, BootInv, FrameOutlivesHandlers, Finished, Others,
         BootSteps, HandlerSteps, LoaderSteps, EntrySteps, KernelSteps
<1> QED  BY <1>1, Invariance, PTL

\* The C kernel never starts before every processor is out of the bootloader
\* and done with the boot page table.
THEOREM KernelAlone == Spec => []KernelStartsAlone
<1>1. IInv => KernelStartsAlone
  BY DEF IInv, EntryInv
<1> QED  BY <1>1, Invariance, PTL

\* Every processor enters the kernel with the registers of the protocol.
THEOREM EntryState == Spec => []EntryStateAsPromised
<1>1. IInv => EntryStateAsPromised
  BY DEF IInv, EntryInv
<1> QED  BY <1>1, Invariance, PTL

\* One processor at most goes on to the C kernel.
THEOREM SingleBootCpu == Spec => []OneBootCpu
<1>1. IInv => OneBootCpu
  BY DEF IInv, Shape, NumberInv, OneBootCpu, Counted, KernelSteps
<1> QED  BY <1>1, Invariance, PTL

---------------------------------------------------------------------------
(* Handoff implements HandoffBarrier.                                      *)

LEMMA FirstIsNumberZero ==
  ASSUME NumberInv
  PROVE  /\ Counted = {} => FirstCounted = NoCpu
         /\ \A c \in Counted : loaded[c] = 0 => FirstCounted = c
         /\ Counted # {} => FirstCounted \in Counted /\ loaded[FirstCounted] = 0
<1>1. Counted = {} => FirstCounted = NoCpu
  BY DEF FirstCounted
<1>2. ASSUME NEW c \in Counted, loaded[c] = 0
      PROVE  FirstCounted = c
  BY <1>2 DEF NumberInv, FirstCounted
<1>3. ASSUME Counted # {}
      PROVE  FirstCounted \in Counted /\ loaded[FirstCounted] = 0
  <2>1. PICK c \in Counted : loaded[c] = 0
    BY <1>3 DEF NumberInv
  <2> QED  BY <2>1, <1>2
<1> QED  BY <1>1, <1>2, <1>3

LEMMA FirstIsNumberZeroNext ==
  ASSUME NumberInv'
  PROVE  \A c \in Counted' : loaded'[c] = 0 => FirstCounted' = c
BY DEF NumberInv, FirstCounted

\* A step that leaves the counted processors, their numbers and the owner of
\* the memory alone is no step of the barrier.
LEMMA Stutter ==
  ASSUME IInv, Counted' = Counted, UNCHANGED <<memory, bootCpuHwid>>,
         \A c \in Counted : loaded'[c] = loaded[c]
  PROVE  UNCHANGED Barrier!vars
<1>1. FirstCounted' = FirstCounted
  <2>1. CASE Counted = {}
    BY <2>1 DEF FirstCounted
  <2>2. CASE Counted # {}
    BY <2>2 DEF IInv, NumberInv, FirstCounted
  <2> QED  BY <2>1, <2>2
<1> QED  BY <1>1 DEF Barrier!vars

LEMMA BarrierStep ==
  ASSUME IInv, IInv', [Next]_vars
  PROVE  [Barrier!Next]_(Barrier!vars)
<1> USE HandoffAssumption
        DEF LoaderSteps, EntrySteps, KernelSteps, BootSteps, HandlerSteps
<1>1. CASE UNCHANGED vars
  <2>1. Counted' = Counted
    BY <1>1 DEF vars, Counted
  <2> QED  BY <1>1, <2>1, Stutter DEF vars
<1>2. CASE BootStep
  <2>1. Counted' = Counted /\ UNCHANGED <<memory, bootCpuHwid, loaded>>
    <3>1. CASE RunOnOtherCpus
      BY <3>1, ZenonT(60) DEF RunOnOtherCpus, Counted, IInv, Shape
    <3>2. CASE KickProcessor
      BY <3>2 DEF KickProcessor, Counted, IInv, Shape, BootInv, Others
    <3>3. CASE SkipProcessor
      BY <3>3 DEF SkipProcessor, Counted
    <3>4. CASE EndKick \/ EndWait
      BY <3>4 DEF EndKick, EndWait, Counted, IInv, Shape
    <3> QED  BY <1>2, <3>1, <3>2, <3>3, <3>4 DEF BootStep
  <2> QED  BY <2>1, Stutter
<1>3. ASSUME NEW c \in Present,
             \/ HandlerReadData(c) \/ HandlerLoadLinked(c)
             \/ HandlerStoreConditional(c) \/ HandlerRetry(c)
             \/ DoTransition(c) \/ Start(c) \/ StartLoadLinked(c)
             \/ StartRetry(c) \/ ParkCpu(c)
      PROVE  UNCHANGED Barrier!vars
  <2>1. Counted' = Counted
    BY <1>3, ZenonT(60) DEF HandlerReadData, HandlerLoadLinked, HandlerStoreConditional,
                HandlerRetry, DoTransition, Start, StartLoadLinked, StartRetry,
                ParkCpu, Counted, IInv, Shape
  <2>2. UNCHANGED <<memory, bootCpuHwid>> /\ \A d \in Counted : loaded'[d] = loaded[d]
    BY <1>3 DEF HandlerReadData, HandlerLoadLinked, HandlerStoreConditional,
                HandlerRetry, DoTransition, Start, StartLoadLinked, StartRetry,
                ParkCpu, Counted, IInv, Shape
  <2> QED  BY <2>1, <2>2, Stutter
<1>4. ASSUME NEW c \in Present, StartStoreConditional(c)
      PROVE  Barrier!Enter(c)
  <2>1. c \notin Counted /\ Counted' = Counted \union {c}
    BY <1>4 DEF StartStoreConditional, Counted, IInv, Shape
  <2>2. loaded' = loaded /\ UNCHANGED <<memory, bootCpuHwid>>
    BY <1>4 DEF StartStoreConditional
  <2>3. CASE Counted = {}
    <3>1. loaded[c] = 0
      BY <1>4, <2>3, FS_EmptySet DEF StartStoreConditional, IInv, CountInv
    <3>2. FirstCounted' = c
      BY <2>1, <2>2, <3>1, FirstIsNumberZeroNext DEF IInv
    <3> QED  BY <2>1, <2>2, <2>3, <3>2 DEF Barrier!Enter
  <2>4. CASE Counted # {}
    <3>1. FirstCounted \in Counted /\ loaded[FirstCounted] = 0
      BY <2>4, FirstIsNumberZero DEF IInv
    <3>2. FirstCounted' = FirstCounted
      BY <2>1, <2>2, <3>1, FirstIsNumberZeroNext DEF IInv
    <3> QED  BY <2>1, <2>2, <2>4, <3>2 DEF Barrier!Enter
  <2> QED  BY <2>3, <2>4
<1>5. ASSUME NEW c \in Present, BecomeBootCpu(c)
      PROVE  UNCHANGED Barrier!vars
  <2>1. Counted' = Counted /\ loaded' = loaded /\ memory' = memory
    BY <1>5 DEF BecomeBootCpu, Counted, IInv, Shape
  <2>2. FirstCounted' = FirstCounted
    BY <2>1 DEF FirstCounted
  <2>3. memory = "loader"
    BY <1>5 DEF BecomeBootCpu, IInv, Shape, NumberInv, EntryInv, Counted
  <2> QED  BY <2>1, <2>2, <2>3 DEF Barrier!vars
<1>6. ASSUME NEW c \in Present, StartKernel(c)
      PROVE  Barrier!TakeOver
  <2>1. Counted' = Counted /\ loaded' = loaded /\ bootCpuHwid' = bootCpuHwid
    BY <1>6 DEF StartKernel, Counted, IInv, Shape
  <2>2. Counted = Present
    BY <1>6, AllCounted DEF StartKernel, IInv
  <2>3. bootCpuHwid = c /\ loaded[c] = 0
    BY <1>6 DEF StartKernel, IInv, NumberInv
  <2>4. FirstCounted = c /\ FirstCounted' = c
    BY <2>1, <2>2, <2>3, FirstIsNumberZero, FirstIsNumberZeroNext DEF IInv
  <2>5. memory = "loader" /\ memory' = "kernel"
    BY <1>6 DEF StartKernel, IInv, Shape, NumberInv, EntryInv, Counted
  <2> QED  BY <2>1, <2>2, <2>3, <2>4, <2>5 DEF Barrier!TakeOver
<1> QED
  BY <1>1, <1>2, <1>3, <1>4, <1>5, <1>6 DEF Next, CpuStep, StayParked, Barrier!Next

\* The handoff keeps the promise of PROTOCOL.md: processors enter one at a
\* time, and the first to enter takes the machine over once all have.
THEOREM Refinement == Spec => ImplementsBarrier
<1>1. Init => Barrier!Init
  <2>1. Init => Counted = {} /\ memory = "loader"
    BY DEF Init, Counted, KernelSteps
  <2> QED  BY <2>1 DEF FirstCounted, Barrier!Init
<1>2. IInv /\ IInv' /\ [Next]_vars => [Barrier!Next]_(Barrier!vars)
  BY BarrierStep
<1> QED  BY <1>1, <1>2, Invariance, PTL DEF Spec, ImplementsBarrier, Barrier!Spec
============================================================================
