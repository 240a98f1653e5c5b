------------------------------- MODULE Traps -------------------------------
(* Traps, returns and task switches of the kernel port on its one CPU
   (src/patches/linux/jinx-working-patch.patch): head.S decides with scratch1
   whether a trap comes from user mode, saves the interrupted context in a
   frame on the kernel stack and restores it; switch_mm and __switch_to replace
   page directory, thread pointer and stack in steps, and interrupts may arrive
   between any two of them; vmalloc_fault repairs the page directory in use.

   A context is what a trap frame keeps: where the code was (pc), its stack
   pointer and thread pointer, the mode and the interrupt flag. The other
   registers are saved and restored beside them and are left out, as are NMIs
   (fatal) and the TLB miss handlers (no state but the TLB). A kernel stack
   pointer <<t, n>> points below the n-th frame of t's stack: <<t, 0>> is its
   top, the value `sp + PT_SIZE_ON_STACK` of a user frame. A page directory
   goes by the task it was allocated for; Idle's is init_mm's, swapper_pg_dir.
   What the generic kernel does between the port's functions (schedule, exec,
   fork, softirqs, the exit loop) is modelled as the port's hooks see it, for a
   kernel that is not preempted: irqentry_exit switches no tasks. The port's
   defconfig does not ask for CONFIG_PREEMPT. *)
EXTENDS Integers

CONSTANTS Tasks,     \* the tasks that ever exist
          Idle,      \* init_task, running when the kernel starts
          Null,      \* no value: a zero register, no mm, no page directory
          MaxDepth   \* bound: trap frames on one kernel stack

ASSUME TrapsAssumption ==
    /\ Idle \in Tasks
    /\ Null \notin Tasks \cup (Tasks \X {0})
    /\ MaxDepth \in Nat \ {0}

VARIABLES
    pc, sp, tp,                   \* the CPU: place, stack and thread pointer
    user, irq,                    \* RS_U and RS_I
    oldUser, oldIrq,              \* RS_OLD_U and RS_OLD_I, what rfe restores
    scratch1, scratch2, scratch3, \* kernel stack, current, page directory
    wired,                        \* the page directory the CPU walks (dtbpte)
    stack,                        \* task -> depth -> trap frame
    thread,                       \* task -> saved stack pointer and return address
    mm, activeMm,                 \* task -> its mm, the mm it borrows or owns
    mapped,                       \* page directory -> it maps the vmalloc area
    work,                         \* task -> work flags for the exit loop
    prev, next, lr, flags,        \* registers and locals of a switch in progress
    running,                      \* history: the task whose code the CPU runs
    contexts                      \* history: task -> depth -> context trapped

cpu == <<pc, sp, tp, user, irq, oldUser, oldIrq>>
scratch == <<scratch1, scratch2, scratch3>>
memory == <<wired, mapped, mm, activeMm>>
switching == <<prev, next, lr, flags>>
history == <<running, contexts>>
vars == <<cpu, scratch, memory, stack, thread, work, switching, history>>

-----------------------------------------------------------------------------
Places == {"user", "task", "work", "irq", "fault", "exit", "ret", "rfe",
           "switch_mm", "set_mm", "switch_to", "switch_sp", "finish", "none"}

Context(p, s, t, u, i) == [pc |-> p, sp |-> s, tp |-> t, user |-> u, irq |-> i]

NoFrame == Context("none", <<Idle, 0>>, Idle, FALSE, TRUE)
UserSp(t) == <<t, -1>>
UserTp(t) == <<t, -2>>

\* start_thread: what the first return of a new program enters.
start_thread(t) == Context("user", UserSp(t), UserTp(t), TRUE, TRUE)

frame == stack[sp[1]][sp[2]]

\* The interrupt flag i after arch_local_irq_restore(f): it is only ever set, so
\* that arch_local_irq_disable changes nothing. arch_local_irq_save clears it.
arch_local_irq_restore(i, f) == i \/ f

arch_local_irq_disable(i) == arch_local_irq_restore(i, FALSE)

arch_local_irq_enable(i) == arch_local_irq_restore(i, TRUE)

arch_local_irq_save(i) == FALSE

Init ==
    /\ pc = "task" /\ sp = <<Idle, 0>> /\ tp = Idle
    /\ user = FALSE /\ irq = FALSE /\ oldUser = FALSE /\ oldIrq = FALSE
    /\ scratch1 = Null /\ scratch2 = Idle
    /\ scratch3 = Null            \* _start leaves a page table entry there
    /\ wired = Idle
    /\ stack = [t \in Tasks |-> [n \in 1 .. MaxDepth |-> NoFrame]]
    /\ thread = [t \in Tasks |-> [sp |-> <<t, 0>>, lr |-> "none"]]
    /\ mm = [t \in Tasks |-> Null]
    /\ activeMm = [t \in Tasks |-> IF t = Idle THEN Idle ELSE Null]
    /\ mapped = [t \in Tasks |-> FALSE]
    /\ work = [t \in Tasks |-> FALSE]
    /\ prev = Idle /\ next = Idle /\ lr = "none" /\ flags = FALSE
    /\ running = Idle
    /\ contexts = [t \in Tasks |-> [n \in 1 .. MaxDepth |-> NoFrame]]

-----------------------------------------------------------------------------
(* Trap entry and return. *)

\* Mutant: scratch1 is not cleared on entry.
trap_entry_keeps_scratch1(handler) ==
    LET base == IF scratch1 # Null THEN scratch1 ELSE sp
        here == Context(pc, sp, tp, user, irq)
    IN  /\ base[2] + 1 \in 1 .. MaxDepth
        /\ stack' = [stack EXCEPT ![base[1]][base[2] + 1] = here]
        /\ contexts' = [contexts EXCEPT ![running][IF user THEN 1 ELSE sp[2] + 1] = here]
        /\ sp' = <<base[1], base[2] + 1>> /\ tp' = scratch2
        /\ oldUser' = user /\ oldIrq' = irq /\ user' = FALSE /\ pc' = handler
        /\ UNCHANGED scratch1

\* trap_entry: the CPU saves its mode and turns interrupts off; head.S takes
\* the stack in scratch1 if there is one, and goes on with the current stack if
\* not. All of it runs with interrupts off.
trap_entry(handler) ==
    LET base == IF scratch1 # Null THEN scratch1 ELSE sp
        here == Context(pc, sp, tp, user, irq)
        depth == base[2] + 1
    IN  /\ depth \in 1 .. MaxDepth
        /\ stack' = [stack EXCEPT ![base[1]][depth] = here]
        /\ contexts' = [contexts EXCEPT ![running][IF user THEN 1 ELSE sp[2] + 1] = here]
        /\ sp' = <<base[1], depth>>
        /\ scratch1' = Null
        /\ tp' = scratch2
        /\ oldUser' = user /\ oldIrq' = irq
        /\ user' = FALSE
        /\ pc' = handler

\* xr17032_handle_interrupt: any place with interrupts enabled.
Interrupt ==
    /\ irq
    /\ sp[2] < MaxDepth
    /\ trap_entry("irq")
    /\ irq' = FALSE
    /\ UNCHANGED <<scratch2, scratch3, memory, thread, work, switching, running>>

\* A system call, a page fault or another exception of user code: the handler
\* enables interrupts before it does its work.
UserTrap ==
    /\ user
    /\ trap_entry("task")
    /\ irq' = arch_local_irq_enable(FALSE)
    /\ UNCHANGED <<scratch2, scratch3, memory, thread, work, switching, running>>

\* A page fault of kernel code on a user address, in a system call or in the work
\* of the exit loop: handle_page_fault enables interrupts if they were enabled, and
\* may sleep.
KernelFault ==
    /\ pc \in {"task", "work"}
    /\ mm[tp] # Null
    /\ sp[2] < MaxDepth
    /\ trap_entry("task")
    /\ irq' = arch_local_irq_restore(FALSE, irq)
    /\ UNCHANGED <<scratch2, scratch3, memory, thread, work, switching, running>>

\* Kernel code, in a task, in the exit loop or in an interrupt handler, touches the
\* vmalloc area through a page directory that does not map it yet.
VmallocAccess ==
    /\ pc \in {"task", "work", "irq"}
    /\ mapped[Idle] /\ ~mapped[wired]
    /\ sp[2] < MaxDepth
    /\ trap_entry("fault")
    /\ irq' = FALSE
    /\ UNCHANGED <<scratch2, scratch3, memory, thread, work, switching, running>>

\* Mutant: current's active mm instead of scratch3.
vmalloc_fault_active_mm ==
    /\ pc = "fault"
    /\ mapped' = [mapped EXCEPT ![activeMm[tp]] = mapped[Idle]]
    /\ pc' = "exit"
    /\ UNCHANGED <<sp, tp, user, irq, oldUser, oldIrq, scratch, wired, mm,
                   activeMm, stack, thread, work, switching, history>>

\* vmalloc_fault: copies init_mm's entry to the page directory in scratch3.
vmalloc_fault ==
    /\ pc = "fault"
    /\ mapped' = IF scratch3 = Null THEN mapped
                 ELSE [mapped EXCEPT ![scratch3] = mapped[Idle]]
    /\ pc' = "exit"
    /\ UNCHANGED <<sp, tp, user, irq, oldUser, oldIrq, scratch, wired, mm,
                   activeMm, stack, thread, work, switching, history>>

\* A softirq at the end of an interrupt enables interrupts and disables them
\* again: they stay on.
Softirq ==
    /\ pc = "irq" /\ ~irq
    /\ irq' = arch_local_irq_disable(arch_local_irq_enable(irq))
    /\ UNCHANGED <<pc, sp, tp, user, oldUser, oldIrq, scratch, memory, stack,
                   thread, work, switching, history>>

\* An interrupt handler leaves work to the current task: a signal, a new
\* need_resched.
MarkWork ==
    /\ pc = "irq" /\ ~work[tp]
    /\ work' = [work EXCEPT ![tp] = TRUE]
    /\ UNCHANGED <<cpu, scratch, memory, stack, thread, switching, history>>

\* The handler returns: the ones for exceptions of user code disable interrupts
\* first, as the exit from a system call does.
HandlerReturns ==
    /\ pc \in {"task", "work", "irq"}
    /\ sp[2] > 0
    /\ frame.pc # "none"        \* a kernel thread has nothing to return to
    /\ irq' = IF pc = "irq" THEN irq ELSE arch_local_irq_disable(irq)
    /\ pc' = "exit"
    /\ UNCHANGED <<sp, tp, user, oldUser, oldIrq, scratch, memory, stack, thread,
                   work, switching, history>>

\* irqentry_exit_to_user_mode and syscall_exit_to_user_mode: work that is marked
\* is done with interrupts enabled, and the flags are read again.
ExitWork ==
    /\ pc = "exit" /\ frame.user /\ work[tp]
    /\ work' = [work EXCEPT ![tp] = FALSE]
    /\ irq' = arch_local_irq_enable(irq)
    /\ pc' = "work"
    /\ UNCHANGED <<sp, tp, user, oldUser, oldIrq, scratch, memory, stack, thread,
                   switching, history>>

\* No work is left, or the frame is one of kernel mode: on to return_from_trap.
ExitDone ==
    /\ pc = "exit" /\ ~(frame.user /\ work[tp])
    /\ pc' = "ret"
    /\ UNCHANGED <<sp, tp, user, irq, oldUser, oldIrq, scratch, memory, stack,
                   thread, work, switching, history>>

\* Mutant: interrupts stay as they are while the registers are restored.
return_from_trap_irqs_on ==
    /\ pc = "ret"
    /\ oldUser' = frame.user /\ oldIrq' = frame.irq
    /\ pc' = "rfe"
    /\ UNCHANGED <<sp, tp, user, irq, scratch, memory, stack, thread, work,
                   switching, history>>

\* return_from_trap: "restore rs first since this will also disable irqs".
return_from_trap ==
    /\ pc = "ret"
    /\ irq' = FALSE
    /\ oldUser' = frame.user /\ oldIrq' = frame.irq
    /\ pc' = "rfe"
    /\ UNCHANGED <<sp, tp, user, scratch, memory, stack, thread, work, switching,
                   history>>

\* The rest of it, with interrupts off: scratch1 if user mode is next, then the
\* registers of the frame, then rfe.
rfe ==
    /\ pc = "rfe"
    /\ scratch1' = IF oldUser THEN <<sp[1], sp[2] - 1>> ELSE scratch1
    /\ pc' = frame.pc /\ sp' = frame.sp /\ tp' = frame.tp
    /\ user' = oldUser /\ irq' = oldIrq
    /\ stack' = [stack EXCEPT ![sp[1]][sp[2]] = NoFrame]
    /\ contexts' = [contexts EXCEPT ![running][sp[2]] = NoFrame]
    /\ UNCHANGED <<oldUser, oldIrq, scratch2, scratch3, memory, thread, work,
                   switching, running>>

-----------------------------------------------------------------------------
(* Task switches: schedule() at any place of task code, or for the work of the
   exit loop. *)

exists(t) == t = running \/ thread[t].lr # "none"

\* schedule and context_switch: a kernel thread borrows the page directory.
schedule ==
    /\ pc \in {"task", "work"}
    /\ \E t \in Tasks \ {running} :
          /\ exists(t)
          /\ prev' = activeMm[running] /\ next' = t
          /\ lr' = pc
          /\ pc' = IF mm[t] = Null THEN "switch_to" ELSE "switch_mm"
          /\ activeMm' = IF mm[t] = Null
                         THEN [activeMm EXCEPT ![t] = activeMm[running]]
                         ELSE activeMm
    /\ irq' = arch_local_irq_disable(irq)
    /\ UNCHANGED <<sp, tp, user, oldUser, oldIrq, scratch, wired, mapped, mm,
                   stack, thread, work, flags, history>>

\* switch_mm: nothing to do for the same mm; otherwise set_mm saves the
\* interrupt flag and xr17032_switch_mm replaces the page directory, ...
switch_mm ==
    /\ pc = "switch_mm"
    /\ IF prev = mm[next]
       THEN /\ pc' = "switch_to"
            /\ UNCHANGED <<irq, wired, flags>>
       ELSE /\ flags' = irq
            /\ irq' = arch_local_irq_save(irq)
            /\ wired' = mm[next]
            /\ pc' = "set_mm"
    /\ UNCHANGED <<sp, tp, user, oldUser, oldIrq, scratch, mm, activeMm, mapped,
                   stack, thread, work, prev, next, lr, history>>

\* ... then scratch3, and set_mm restores the flag. exec goes on in its task.
set_mm ==
    /\ pc = "set_mm"
    /\ scratch3' = wired
    /\ irq' = arch_local_irq_restore(irq, flags)
    /\ pc' = IF next = running THEN "task" ELSE "switch_to"
    /\ UNCHANGED <<sp, tp, user, oldUser, oldIrq, scratch1, scratch2, memory,
                   stack, thread, work, switching, history>>

\* Mutant: scratch2 is not written.
switch_to_keeps_scratch2 ==
    /\ pc = "switch_to"
    /\ thread' = [thread EXCEPT ![tp] = [sp |-> sp, lr |-> lr]]
    /\ activeMm' = IF mm[tp] = Null
                   THEN [activeMm EXCEPT ![tp] = Null] ELSE activeMm
    /\ tp' = next
    /\ pc' = "switch_sp"
    /\ UNCHANGED <<sp, user, irq, oldUser, oldIrq, scratch, wired, mapped, mm,
                   stack, work, switching, history>>

\* __switch_to: saves the old task's registers and stack pointer and takes the
\* new thread pointer, ...
switch_to ==
    /\ pc = "switch_to"
    /\ thread' = [thread EXCEPT ![tp] = [sp |-> sp, lr |-> lr]]
    /\ activeMm' = IF mm[tp] = Null
                   THEN [activeMm EXCEPT ![tp] = Null] ELSE activeMm
    /\ tp' = next /\ scratch2' = next
    /\ pc' = "switch_sp"
    /\ UNCHANGED <<sp, user, irq, oldUser, oldIrq, scratch1, scratch3, wired,
                   mapped, mm, stack, work, switching, history>>

\* ... then the new task's registers, its stack pointer last.
switch_sp ==
    /\ pc = "switch_sp"
    /\ sp' = thread[next].sp
    /\ lr' = thread[next].lr
    /\ running' = next
    /\ pc' = "finish"
    /\ UNCHANGED <<tp, user, irq, oldUser, oldIrq, scratch, memory, stack, thread,
                   work, prev, next, flags, contexts>>

\* finish_task_switch enables interrupts; the task goes on where it called
\* schedule, or at ret_from_fork.
finish ==
    /\ pc = "finish"
    /\ irq' = arch_local_irq_enable(irq)
    /\ pc' = lr
    /\ UNCHANGED <<sp, tp, user, oldUser, oldIrq, scratch, memory, stack, thread,
                   work, switching, history>>

-----------------------------------------------------------------------------
(* What changes the page directories and the set of tasks. *)

\* vmalloc fills init_mm's page directory, and only that one.
pmd_populate_kernel ==
    /\ pc = "task" /\ ~mapped[Idle]
    /\ mapped' = [mapped EXCEPT ![Idle] = TRUE]
    /\ UNCHANGED <<cpu, scratch, wired, mm, activeMm, stack, thread, work,
                   switching, history>>

\* The kernel enables interrupts when it has started.
local_irq_enable ==
    /\ sp = <<Idle, 0>> /\ pc = "task" /\ ~irq
    /\ irq' = arch_local_irq_enable(irq)
    /\ UNCHANGED <<pc, sp, tp, user, oldUser, oldIrq, scratch, memory, stack,
                   thread, work, switching, history>>

\* copy_thread of a kernel thread, made by init_task: an empty frame at the top
\* of its stack, and ret_from_fork_kernel to go to.
kernel_thread ==
    /\ pc = "task" /\ sp = <<Idle, 0>>
    /\ \E c \in Tasks : /\ ~exists(c)
                        /\ thread' = [thread EXCEPT ![c] = [sp |-> <<c, 1>>, lr |-> "task"]]
    /\ UNCHANGED <<cpu, scratch, memory, stack, work, switching, history>>

\* copy_thread for fork and clone: the child returns with a copy of the frame,
\* with a stack and thread pointer of its own if it shares the mm. pgd_alloc
\* copies the kernel's part of init_mm's page directory to a new one.
copy_thread ==
    /\ pc = "task" /\ sp = <<running, 1>> /\ frame.user
    /\ \E c \in Tasks, share \in BOOLEAN :
          LET regs == IF share THEN start_thread(c) ELSE frame
              own == IF share THEN mm[running] ELSE c
          IN  /\ ~exists(c)
              /\ thread' = [thread EXCEPT ![c] = [sp |-> <<c, 1>>, lr |-> "work"]]
              /\ stack' = [stack EXCEPT ![c][1] = regs]
              /\ contexts' = [contexts EXCEPT ![c][1] = regs]
              /\ mm' = [mm EXCEPT ![c] = own]
              /\ activeMm' = [activeMm EXCEPT ![c] = own]
              /\ mapped' = IF share THEN mapped ELSE [mapped EXCEPT ![c] = mapped[Idle]]
    /\ UNCHANGED <<cpu, scratch, wired, work, switching, running>>

\* exec, of a kernel thread or a task that shares its mm: a new mm is activated,
\* which runs switch_mm, and start_thread fills the frame the task returns with.
exec ==
    /\ pc = "task" /\ sp = <<running, 1>>
    /\ \A t \in Tasks : running \notin {mm[t], activeMm[t]}
    /\ mm' = [mm EXCEPT ![running] = running]
    /\ activeMm' = [activeMm EXCEPT ![running] = running]
    /\ mapped' = [mapped EXCEPT ![running] = mapped[Idle]]
    /\ stack' = [stack EXCEPT ![running][1] = start_thread(running)]
    /\ contexts' = [contexts EXCEPT ![running][1] = start_thread(running)]
    /\ prev' = activeMm[running] /\ next' = running
    /\ pc' = "switch_mm"
    /\ UNCHANGED <<sp, tp, user, irq, oldUser, oldIrq, scratch, wired, thread,
                   work, lr, flags, running>>

-----------------------------------------------------------------------------
Trap == Interrupt \/ UserTrap \/ KernelFault \/ VmallocAccess

Handler == vmalloc_fault \/ Softirq \/ MarkWork \/ HandlerReturns

Return == ExitWork \/ ExitDone \/ return_from_trap \/ rfe

Switch == schedule \/ switch_mm \/ set_mm \/ switch_to \/ switch_sp \/ finish

Kernel == pmd_populate_kernel \/ local_irq_enable \/ kernel_thread
          \/ copy_thread \/ exec

Next == Trap \/ Handler \/ Return \/ Switch \/ Kernel

Spec == Init /\ [][Next]_vars

-----------------------------------------------------------------------------
(* Properties. *)

StackPointers == Tasks \X (-2 .. MaxDepth)
Contexts == [pc : Places, sp : StackPointers, tp : Tasks \cup StackPointers,
             user : BOOLEAN, irq : BOOLEAN]

\* Every variable has its type: the registers head.S and the port's C code load
\* and store, and the frames and thread structures they are saved in.
TypeOK ==
    /\ pc \in Places /\ sp \in StackPointers /\ tp \in Tasks \cup StackPointers
    /\ {user, irq, oldUser, oldIrq, flags} \subseteq BOOLEAN
    /\ scratch1 \in {Null} \cup StackPointers
    /\ scratch2 \in Tasks /\ scratch3 \in {Null} \cup Tasks
    /\ {wired, running, prev, next} \subseteq Tasks
    /\ lr \in Places
    /\ stack \in [Tasks -> [1 .. MaxDepth -> Contexts]]
    /\ contexts \in [Tasks -> [1 .. MaxDepth -> Contexts]]
    /\ thread \in [Tasks -> [sp : StackPointers, lr : Places]]
    /\ mm \in [Tasks -> {Null} \cup Tasks]
    /\ activeMm \in [Tasks -> {Null} \cup Tasks]
    /\ mapped \in [Tasks -> BOOLEAN]
    /\ work \in [Tasks -> BOOLEAN]

\* trap_entry chooses the stack by scratch1 alone: in user mode it is the top of
\* the running task's own kernel stack and scratch2 is that task, and in kernel
\* mode it is zero, "make sure nested irqs don't reset the stack", whatever
\* switched or was interrupted in between.
KernelEntryPrepared ==
    /\ user => scratch1 = <<running, 0>> /\ scratch2 = running
    /\ ~user => scratch1 = Null /\ sp[1] = running

\* Kernel code runs on the stack of `current`, so that task_pt_regs(current) is
\* the frame it will return with, unless it interrupted __switch_to between the
\* thread pointer and the stack pointer; in task code the page directory in use
\* is the one the task owns or borrows.
CurrentOwnsCpu ==
    ~user /\ pc \in {"task", "work", "exit", "ret"} =>
        \/ sp[1] = tp /\ (pc = "task" => activeMm[tp] = wired)
        \/ \E n \in 1 .. sp[2] : stack[sp[1]][n].pc = "switch_sp"

\* A trap is invisible: what rfe enters is exactly the context that was trapped
\* there, with its own place, stack, thread pointer, mode and interrupt flag,
\* however traps nest and tasks switch; a new task enters what fork or exec set
\* up for it.
ResumesWhatWasTrapped ==
    [][rfe => Context(pc', sp', tp', user', irq') = contexts[running][sp[2]]]_vars

\* vmalloc_fault repairs the page directory the CPU walks, also "inside an
\* interrupt in the middle of a task switch": the access it is for is not
\* faulted on again, and no other page directory is written.
VmallocFaultRepairs ==
    [][vmalloc_fault => mapped' = [mapped EXCEPT ![wired] = TRUE]]_vars

\* What arch_local_irq_disable is called for before the return to user mode:
\* no interrupt comes between the last look at the work flags and the return,
\* so that a task never enters user mode with work left.
WorkDoneBeforeUser ==
    [][~user /\ user' => ~work[running]]_vars

=============================================================================
