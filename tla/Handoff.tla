------------------------------ MODULE Handoff ------------------------------
(***************************************************************************)
(* The handoff of a multiprocessor machine from the bootloader to the      *)
(* kernel.                                                                 *)
(*                                                                         *)
(* The boot processor runs BlMain to its end (bootloader/main.c): it       *)
(* kicks every other processor out of the firmware (BxRunOnOtherCpus,      *)
(* bootloader/a4x/a4x.c), waits until each of them has copied what it      *)
(* needs out of the caller's stack frame, and then does the same           *)
(* transition itself.  Every processor arrives at the kernel's _start,     *)
(* draws a logical number from num_started_cpus and parks, except the      *)
(* one that drew 0: it waits until every processor has arrived and only    *)
(* then starts the C kernel, which may overwrite all of the bootloader.    *)
(*                                                                         *)
(* Both counters are incremented with an ll/sc loop.  A store conditional  *)
(* fails exactly when another processor has stored to the counter since    *)
(* the load linked; memory is sequentially consistent (the wmb, acquire    *)
(* load and mb of the code are what buys this on the hardware).            *)
(***************************************************************************)
EXTENDS Integers, FiniteSets

CONSTANTS
  NumProcessors,  \* size of the firmware's Processors array
  Present,        \* the indices whose processor is present
  Boot            \* whami of the processor running BlMain

ASSUME HandoffAssumption ==
  /\ NumProcessors \in Nat
  /\ Present \subseteq 0..(NumProcessors - 1)
  /\ Boot \in Present

\* BxDtAddCpus counts the present processors.
BxNumCpus == Cardinality(Present)

respondCount == BxNumCpus - 1

Others == Present \ {Boot}

NoCpu == -1

VARIABLES
  pc,           \* where each processor is
  kickIndex,    \* i of the loop in BxRunOnOtherCpus
  frame,        \* the stack frame of BxRunOnOtherCpus
  numFinished,  \* the counter in that frame
  handlerCtx,   \* func and ctx, as the processor read them from the frame
  loaded,       \* the value of the last load linked; in the kernel, a0
  linked,       \* the processor holds the reservation of its load linked
  entryState,   \* the registers at the kernel entry point
  numStarted,   \* num_started_cpus of the kernel
  bootCpuHwid,  \* boot_cpu_hwid of the kernel
  rootTable,    \* who wrote the root page table last
  memory        \* who owns the memory outside the kernel image

vars == <<pc, kickIndex, frame, numFinished, handlerCtx, loaded, linked,
          entryState, numStarted, bootCpuHwid, rootTable, memory>>

BootSteps    == {"run", "kick", "wait"}
HandlerSteps == {"firmware", "kicked", "ll_finished", "sc_finished"}
LoaderSteps  == BootSteps \union HandlerSteps \union {"transition"}
EntrySteps   == {"_start", "ll_started", "sc_started"}
KernelSteps  == {"logical", "parked", "gather", "kernel"}

\* The handlers that have announced that they no longer need the frame, and
\* the processors num_started_cpus has counted.
Finished == {c \in Others : pc[c] \notin HandlerSteps}
Counted  == {c \in Present : pc[c] \in KernelSteps}

Init ==
  /\ pc = [c \in Present |-> IF c = Boot THEN "run" ELSE "firmware"]
  /\ kickIndex = 0
  /\ frame = "none"
  /\ numFinished = 0
  /\ handlerCtx = [c \in Present |-> IF c = Boot THEN "data" ELSE "none"]
  /\ loaded = [c \in Present |-> 0]
  /\ linked = [c \in Present |-> FALSE]
  /\ entryState = [c \in Present |-> "none"]
  /\ numStarted = 0
  /\ bootCpuHwid = NoCpu
  /\ rootTable = "loader"
  /\ memory = "loader"

---------------------------------------------------------------------------
(* The boot processor: BxRunOnOtherCpus.                                   *)

\* A single processor machine has nobody to wait for and makes no frame.
RunOnOtherCpus ==
  /\ pc[Boot] = "run"
  /\ IF respondCount = 0
       THEN /\ pc' = [pc EXCEPT ![Boot] = "transition"]
            /\ UNCHANGED <<frame, numFinished, kickIndex>>
       ELSE /\ frame' = "live"
            /\ numFinished' = 0
            /\ kickIndex' = 0
            /\ pc' = [pc EXCEPT ![Boot] = "kick"]
  /\ UNCHANGED <<handlerCtx, loaded, linked, entryState, numStarted,
                 bootCpuHwid, rootTable, memory>>

KickProcessor ==
  /\ pc[Boot] = "kick"
  /\ kickIndex < NumProcessors
  /\ kickIndex \in Others
  /\ pc' = [pc EXCEPT ![kickIndex] = "kicked"]
  /\ kickIndex' = kickIndex + 1
  /\ UNCHANGED <<frame, numFinished, handlerCtx, loaded, linked, entryState,
                 numStarted, bootCpuHwid, rootTable, memory>>

\* Mutant: the loop runs one element past the array (i <= size).
SkipPastArray ==
  /\ pc[Boot] = "kick"
  /\ kickIndex <= NumProcessors
  /\ kickIndex \notin Others
  /\ kickIndex' = kickIndex + 1
  /\ UNCHANGED <<pc, frame, numFinished, handlerCtx, loaded, linked,
                 entryState, numStarted, bootCpuHwid, rootTable, memory>>

\* i == self, or the processor is not present.
SkipProcessor ==
  /\ pc[Boot] = "kick"
  /\ kickIndex < NumProcessors
  /\ kickIndex \notin Others
  /\ kickIndex' = kickIndex + 1
  /\ UNCHANGED <<pc, frame, numFinished, handlerCtx, loaded, linked,
                 entryState, numStarted, bootCpuHwid, rootTable, memory>>

EndKick ==
  /\ pc[Boot] = "kick"
  /\ kickIndex = NumProcessors
  /\ pc' = [pc EXCEPT ![Boot] = "wait"]
  /\ UNCHANGED <<kickIndex, frame, numFinished, handlerCtx, loaded, linked,
                 entryState, numStarted, bootCpuHwid, rootTable, memory>>

\* Mutant: the caller counts itself among the processors that respond.
EndWaitEarly ==
  /\ pc[Boot] = "wait"
  /\ numFinished + 1 >= respondCount
  /\ frame' = "dead"
  /\ pc' = [pc EXCEPT ![Boot] = "transition"]
  /\ UNCHANGED <<kickIndex, numFinished, handlerCtx, loaded, linked,
                 entryState, numStarted, bootCpuHwid, rootTable, memory>>

\* The spin ends; returning to BlMain ends the life of the frame.
EndWait ==
  /\ pc[Boot] = "wait"
  /\ numFinished >= respondCount
  /\ frame' = "dead"
  /\ pc' = [pc EXCEPT ![Boot] = "transition"]
  /\ UNCHANGED <<kickIndex, numFinished, handlerCtx, loaded, linked,
                 entryState, numStarted, bootCpuHwid, rootTable, memory>>

---------------------------------------------------------------------------
(* The other processors: BxKickProcessorHandler.                           *)

HandlerReadData(c) ==
  /\ pc[c] = "kicked"
  /\ handlerCtx' = [handlerCtx EXCEPT ![c] =
                      IF frame = "live" THEN "data" ELSE "garbage"]
  /\ pc' = [pc EXCEPT ![c] = "ll_finished"]
  /\ UNCHANGED <<kickIndex, frame, numFinished, loaded, linked, entryState,
                 numStarted, bootCpuHwid, rootTable, memory>>

HandlerLoadLinked(c) ==
  /\ pc[c] = "ll_finished"
  /\ loaded' = [loaded EXCEPT ![c] = numFinished]
  /\ linked' = [linked EXCEPT ![c] = TRUE]
  /\ pc' = [pc EXCEPT ![c] = "sc_finished"]
  /\ UNCHANGED <<kickIndex, frame, numFinished, handlerCtx, entryState,
                 numStarted, bootCpuHwid, rootTable, memory>>

\* A successful store conditional takes every reservation of the counter.
Unlink(c, step) ==
  linked' = [d \in Present |-> linked[d] /\ d # c /\ pc[d] # step]

\* Mutant: a plain store instead of the store conditional.
HandlerPlainStore(c) ==
  /\ pc[c] = "sc_finished"
  /\ numFinished' = loaded[c] + 1
  /\ Unlink(c, "sc_finished")
  /\ pc' = [pc EXCEPT ![c] = "transition"]
  /\ UNCHANGED <<kickIndex, frame, handlerCtx, loaded, entryState,
                 numStarted, bootCpuHwid, rootTable, memory>>

HandlerStoreConditional(c) ==
  /\ pc[c] = "sc_finished"
  /\ linked[c]
  /\ numFinished' = loaded[c] + 1
  /\ Unlink(c, "sc_finished")
  /\ pc' = [pc EXCEPT ![c] = "transition"]
  /\ UNCHANGED <<kickIndex, frame, handlerCtx, loaded, entryState,
                 numStarted, bootCpuHwid, rootTable, memory>>

HandlerRetry(c) ==
  /\ pc[c] = "sc_finished"
  /\ ~linked[c]
  /\ pc' = [pc EXCEPT ![c] = "ll_finished"]
  /\ UNCHANGED <<kickIndex, frame, numFinished, handlerCtx, loaded, linked,
                 entryState, numStarted, bootCpuHwid, rootTable, memory>>

---------------------------------------------------------------------------
(* Every processor: BiDoTransition, BlTransition and the kernel's _start.  *)

\* transitionData is on BlMain's stack and BxNumCpus in the bootloader's
\* data: both are gone once the kernel owns the memory.
DoTransition(c) ==
  /\ pc[c] = "transition"
  /\ entryState' = [entryState EXCEPT ![c] =
                      IF handlerCtx[c] = "data" /\ memory = "loader"
                        THEN "protocol" ELSE "garbage"]
  /\ pc' = [pc EXCEPT ![c] = "_start"]
  /\ UNCHANGED <<kickIndex, frame, numFinished, handlerCtx, loaded, linked,
                 numStarted, bootCpuHwid, rootTable, memory>>

\* Each processor writes the recursive entry into the root table.
Start(c) ==
  /\ pc[c] = "_start"
  /\ rootTable' = "recursive"
  /\ pc' = [pc EXCEPT ![c] = "ll_started"]
  /\ UNCHANGED <<kickIndex, frame, numFinished, handlerCtx, loaded, linked,
                 entryState, numStarted, bootCpuHwid, memory>>

StartLoadLinked(c) ==
  /\ pc[c] = "ll_started"
  /\ loaded' = [loaded EXCEPT ![c] = numStarted]
  /\ linked' = [linked EXCEPT ![c] = TRUE]
  /\ pc' = [pc EXCEPT ![c] = "sc_started"]
  /\ UNCHANGED <<kickIndex, frame, numFinished, handlerCtx, entryState,
                 numStarted, bootCpuHwid, rootTable, memory>>

StartStoreConditional(c) ==
  /\ pc[c] = "sc_started"
  /\ linked[c]
  /\ numStarted' = loaded[c] + 1
  /\ Unlink(c, "sc_started")
  /\ pc' = [pc EXCEPT ![c] = "logical"]
  /\ UNCHANGED <<kickIndex, frame, numFinished, handlerCtx, loaded,
                 entryState, bootCpuHwid, rootTable, memory>>

\* Mutant: the branch back to the load linked is missing.
StartNoRetry(c) ==
  /\ pc[c] = "sc_started"
  /\ ~linked[c]
  /\ pc' = [pc EXCEPT ![c] = "logical"]
  /\ UNCHANGED <<kickIndex, frame, numFinished, handlerCtx, loaded, linked,
                 entryState, numStarted, bootCpuHwid, rootTable, memory>>

StartRetry(c) ==
  /\ pc[c] = "sc_started"
  /\ ~linked[c]
  /\ pc' = [pc EXCEPT ![c] = "ll_started"]
  /\ UNCHANGED <<kickIndex, frame, numFinished, handlerCtx, loaded, linked,
                 entryState, numStarted, bootCpuHwid, rootTable, memory>>

\* Only the processor whose logical number is 0 continues.
ParkCpu(c) ==
  /\ pc[c] = "logical"
  /\ loaded[c] # 0
  /\ pc' = [pc EXCEPT ![c] = "parked"]
  /\ UNCHANGED <<kickIndex, frame, numFinished, handlerCtx, loaded, linked,
                 entryState, numStarted, bootCpuHwid, rootTable, memory>>

\* Mutant: boot_cpu_hwid is taken from the bootloader's processor.
BecomeBootCpuOfLoader(c) ==
  /\ pc[c] = "logical"
  /\ loaded[c] = 0
  /\ bootCpuHwid' = Boot
  /\ pc' = [pc EXCEPT ![c] = "gather"]
  /\ UNCHANGED <<kickIndex, frame, numFinished, handlerCtx, loaded, linked,
                 entryState, numStarted, rootTable, memory>>

BecomeBootCpu(c) ==
  /\ pc[c] = "logical"
  /\ loaded[c] = 0
  /\ bootCpuHwid' = c
  /\ pc' = [pc EXCEPT ![c] = "gather"]
  /\ UNCHANGED <<kickIndex, frame, numFinished, handlerCtx, loaded, linked,
                 entryState, numStarted, rootTable, memory>>

\* Mutant: the wait compares with the number of the other processors.
StartKernelEarly(c) ==
  /\ pc[c] = "gather"
  /\ numStarted >= respondCount
  /\ rootTable' = "kernel"
  /\ memory' = "kernel"
  /\ pc' = [pc EXCEPT ![c] = "kernel"]
  /\ UNCHANGED <<kickIndex, frame, numFinished, handlerCtx, loaded, linked,
                 entryState, numStarted, bootCpuHwid>>

\* The wait for a2 processors ends; setup_vm and start_kernel follow.
StartKernel(c) ==
  /\ pc[c] = "gather"
  /\ numStarted >= BxNumCpus
  /\ rootTable' = "kernel"
  /\ memory' = "kernel"
  /\ pc' = [pc EXCEPT ![c] = "kernel"]
  /\ UNCHANGED <<kickIndex, frame, numFinished, handlerCtx, loaded, linked,
                 entryState, numStarted, bootCpuHwid>>

\* hlt, and back to it after every interrupt.
StayParked(c) ==
  /\ pc[c] = "parked"
  /\ UNCHANGED vars

---------------------------------------------------------------------------

BootStep ==
  \/ RunOnOtherCpus
  \/ KickProcessor
  \/ SkipProcessor
  \/ EndKick
  \/ EndWait

CpuStep(c) ==
  \/ HandlerReadData(c)
  \/ HandlerLoadLinked(c)
  \/ HandlerStoreConditional(c)
  \/ HandlerRetry(c)
  \/ DoTransition(c)
  \/ Start(c)
  \/ StartLoadLinked(c)
  \/ StartStoreConditional(c)
  \/ StartRetry(c)
  \/ ParkCpu(c)
  \/ BecomeBootCpu(c)
  \/ StartKernel(c)

Next ==
  \/ BootStep
  \/ \E c \in Present : CpuStep(c)
  \/ \E c \in Present : StayParked(c)

\* A processor executes its next instruction sooner or later, whatever the
\* others do; the firmware delivers a kick.
Fairness ==
  /\ WF_vars(BootStep)
  /\ \A c \in Present : WF_vars(CpuStep(c))

Spec == Init /\ [][Next]_vars

FairSpec == Spec /\ Fairness

---------------------------------------------------------------------------
(* Properties.                                                             *)

\* The variables have their types; the counters never pass the number of
\* processors they count, and the kick loop stays inside the array.
TypeOK ==
  /\ pc \in [Present -> LoaderSteps \union EntrySteps \union KernelSteps]
  /\ \A c \in Others : pc[c] \notin BootSteps
  /\ pc[Boot] \notin HandlerSteps
  /\ kickIndex \in 0..NumProcessors
  /\ frame \in {"none", "live", "dead"}
  /\ numFinished \in 0..respondCount
  /\ handlerCtx \in [Present -> {"none", "data", "garbage"}]
  /\ loaded \in [Present -> Nat]
  /\ linked \in [Present -> BOOLEAN]
  /\ entryState \in [Present -> {"none", "protocol", "garbage"}]
  /\ numStarted \in 0..BxNumCpus
  /\ bootCpuHwid \in Present \union {NoCpu}
  /\ rootTable \in {"loader", "recursive", "kernel"}
  /\ memory \in {"loader", "kernel"}

\* BxRunOnOtherCpus never returns while a handler may still read or count in
\* its stack frame: the frame ends only when every handler has announced
\* itself, and no handler that was kicked ever sees another frame.
FrameOutlivesHandlers ==
  /\ frame = "dead" => Finished = Others
  /\ \A c \in Others :
       pc[c] \in {"kicked", "ll_finished", "sc_finished"} => frame = "live"

\* PROTOCOL.md, caution on multiprocessor entry: while a processor is still
\* in the bootloader, or has still to write the boot page table, the C
\* kernel has not started, and the page tables it set up are not overwritten.
KernelStartsAlone ==
  memory = "kernel" =>
    /\ Counted = Present
    /\ rootTable = "kernel"

\* PROTOCOL.md, "Machine State": every processor enters the kernel with the
\* registers the protocol promises, however late it does.
EntryStateAsPromised ==
  \A c \in Present :
    pc[c] \in EntrySteps \union KernelSteps => entryState[c] = "protocol"

\* At most one processor goes on to the C kernel, it is the one recorded in
\* boot_cpu_hwid, and it is not a processor that could have been parked.
OneBootCpu ==
  \A c \in Present :
    pc[c] \in {"gather", "kernel"} =>
      /\ bootCpuHwid = c
      /\ \A d \in Present \ {c} : pc[d] \notin {"gather", "kernel"}

\* The machine boots: the C kernel runs on one processor and every other
\* processor is parked, from some time on.
EventuallyBooted ==
  <>[](\E c \in Present :
         /\ pc[c] = "kernel"
         /\ \A d \in Present \ {c} : pc[d] = "parked")

\* The handoff implements the barrier the protocol describes.
FirstCounted ==
  IF \E c \in Counted : loaded[c] = 0
    THEN CHOOSE c \in Counted : loaded[c] = 0
    ELSE NoCpu

Barrier == INSTANCE HandoffBarrier WITH
  Cpus    <- Present,
  entered <- Counted,
  first   <- FirstCounted,
  leader  <- IF memory = "kernel" THEN bootCpuHwid ELSE NoCpu

ImplementsBarrier == Barrier!Spec
============================================================================
