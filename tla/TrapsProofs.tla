---------------------------- MODULE TrapsProofs ----------------------------
(* Proofs about Traps, for every number of tasks and every depth of nesting.

   What a trap relies on, scratch registers, stack and thread pointer, is right
   in between traps because of what the frames on the stacks hold. The
   invariant says so for the running task's stack, whose frames lead down from
   the current place to user mode, and for the stacks of the tasks that wait in
   __switch_to; and it says how far a switch has come, which may be at the
   current place or, when the switch was interrupted, in a frame. *)
EXTENDS TLAPS, Traps

\* Where the handler of a trap may be; an interrupted switch is below such a
\* place only.
HandlerPlaces == {"irq", "fault", "exit", "ret", "rfe"}

SwitchPlaces == {"switch_mm", "set_mm", "switch_to", "switch_sp", "finish"}

\* Where a task may wait for its turn.
Resumes == {"task", "work"}

\* Frames on a task's stack.
Depth(t) == IF t # running THEN thread[t].sp[2]
            ELSE IF user THEN 0 ELSE sp[2]

\* The running task was interrupted at a place, or is there.
Interrupted(place) ==
    \E n \in 1 .. Depth(running) : stack[running][n].pc = place

Active(place) == pc = place \/ Interrupted(place)

-----------------------------------------------------------------------------
(* The inductive invariant. *)

\* Each frame's context continues one level further down; in the frames of an
\* interrupted __switch_to, and above them, `next` is current already.
Switching(t, n) == \E m \in 1 .. n : stack[t][m].pc = "switch_sp"

FrameFits(t, n) ==
    LET f == stack[t][n]
    IN  /\ f.pc \notin {"rfe", "fault", "set_mm"}
        /\ f.user <=> f.pc = "user"
        /\ f.user => n = 1
        /\ ~f.user /\ f.pc # "none" =>
             /\ f.sp = <<t, n - 1>>
             /\ f.tp = IF Switching(t, n) THEN next ELSE t
        /\ f.pc \in HandlerPlaces => n > 1 /\ stack[t][n - 1].pc # "none"
        /\ \A m \in 1 .. (n - 1) :
             stack[t][m].pc \in SwitchPlaces => f.pc \in HandlerPlaces

Frames == \A t \in Tasks : \A n \in 1 .. Depth(t) : FrameFits(t, n)

\* The registers fit the current place.
Registers ==
    /\ user <=> pc = "user"
    /\ user => scratch1 = <<running, 0>>
    /\ ~user => /\ scratch1 = Null /\ tp = scratch2
                /\ sp[1] = running /\ sp[2] \in 0 .. MaxDepth
    /\ pc # "none"
    /\ pc \in {"rfe", "fault", "set_mm"} => ~irq
    /\ pc \in HandlerPlaces => sp[2] > 0 /\ frame.pc # "none"
    /\ pc = "rfe" => oldUser = frame.user /\ oldIrq = frame.irq
    /\ pc \notin HandlerPlaces => \A p \in SwitchPlaces : ~Interrupted(p)

\* The other tasks have switched away or do not exist yet.
Waiting ==
    \A t \in Tasks \ {running} :
        /\ thread[t].lr \in Resumes \cup {"none"}
        /\ thread[t].sp[1] = t /\ thread[t].sp[2] \in 0 .. MaxDepth
        /\ thread[t].lr = "none" => thread[t].sp[2] = 0 /\ stack[t][1] = NoFrame
        /\ \A n \in 1 .. Depth(t) : stack[t][n].pc \notin SwitchPlaces

\* How far a switch has come, from the call of switch_mm on.
SwitchState ==
    /\ Active("switch_mm") /\ next = running => prev # mm[next]
    /\ (Active("switch_mm") \/ Active("set_mm")) /\ next # running =>
         thread[next].lr \in Resumes /\ lr \in Resumes
    /\ Active("switch_to") =>
         next # running /\ thread[next].lr \in Resumes /\ lr \in Resumes
    /\ Active("switch_sp") =>
         /\ next # running /\ thread[next].lr \in Resumes
         /\ thread[running].lr \in Resumes
    /\ Active("finish") => lr \in Resumes
    /\ scratch2 = IF Active("switch_sp") THEN next ELSE running
    /\ pc = "switch_sp" => thread[running].sp = sp
    /\ \A n \in 1 .. Depth(running) :
         stack[running][n].pc = "switch_sp" =>
           thread[running].sp = <<running, n - 1>>

\* The page directory, in the same steps.
Directory ==
    /\ \A t \in Tasks : mm[t] # Null => activeMm[t] = mm[t]
    /\ Active("switch_mm") => prev = wired /\ mm[next] # Null
    /\ Active("set_mm") => wired = mm[next]
    /\ Active("switch_to") \/ Active("switch_sp") => activeMm[next] = wired
    /\ (\A p \in SwitchPlaces \ {"finish"} : ~Active(p)) =>
         activeMm[running] = wired
    /\ pc # "set_mm" => scratch3 = wired \/ (scratch3 = Null /\ wired = Idle)
    /\ pc = "fault" => mapped[Idle] /\ scratch3 # Null

IInv ==
    /\ TypeOK /\ contexts = stack
    /\ Frames /\ Registers /\ Waiting /\ SwitchState /\ Directory

USE TrapsAssumption

-----------------------------------------------------------------------------
(* The initial state. *)

\* A pair of a task and a depth is a stack pointer.
LEMMA StackPointer ==
    \A t \in Tasks, n \in -2 .. MaxDepth : <<t, n>> \in StackPointers
BY DEF StackPointers

\* At _start nothing has been trapped or switched.
LEMMA InitInv == Init => IInv
<1> SUFFICES ASSUME Init PROVE IInv
  OBVIOUS
<1>1. NoFrame \in Contexts
  BY DEF StackPointers, Contexts, NoFrame, Context, Places
<1>2. TypeOK
  <2>1. stack \in [Tasks -> [1 .. MaxDepth -> Contexts]] /\ contexts = stack
    BY <1>1 DEF Init
  <2>2. thread \in [Tasks -> [sp : StackPointers, lr : Places]]
    <3>1. \A t \in Tasks : [sp |-> <<t, 0>>, lr |-> "none"] \in
                             [sp : StackPointers, lr : Places]
      <4>1. \A t \in Tasks : <<t, 0>> \in StackPointers
        BY DEF StackPointers
      <4> QED
        BY <4>1 DEF Places
    <3> QED
      BY <3>1 DEF Init
  <2>3. sp \in StackPointers
    <3>1. Idle \in Tasks /\ 0 \in -2 .. MaxDepth
      OBVIOUS
    <3> QED
      BY <3>1, StackPointer DEF Init
  <2>4. /\ activeMm \in [Tasks -> {Null} \cup Tasks]
        /\ mm \in [Tasks -> {Null} \cup Tasks]
        /\ mapped \in [Tasks -> BOOLEAN] /\ work \in [Tasks -> BOOLEAN]
    BY DEF Init
  <2> QED
    BY <2>1, <2>2, <2>3, <2>4 DEF Init, TypeOK, Places
<1>3. \A t \in Tasks : Depth(t) = 0
  BY DEF Init, Depth
<1>4. \A p : ~Interrupted(p)
  BY <1>3 DEF Init, Interrupted
<1>5. Frames
  BY <1>3 DEF Frames
<1>6. Registers
  BY <1>4 DEF Init, Registers, HandlerPlaces
<1>7. Waiting
  <2>1. \A t \in Tasks : /\ thread[t].sp = <<t, 0>> /\ thread[t].lr = "none"
                         /\ stack[t][1] = NoFrame
    BY DEF Init
  <2>2. \A t \in Tasks : thread[t].sp[1] = t /\ thread[t].sp[2] = 0
    BY <2>1
  <2>3. \A t \in Tasks : 1 .. Depth(t) = {}
    BY <1>3
  <2> QED
    BY <2>1, <2>2, <2>3 DEF Waiting
<1>8. SwitchState /\ Directory
  BY <1>3, <1>4 DEF Init, SwitchState, Directory, Active, SwitchPlaces
<1> QED
  BY <1>2, <1>5, <1>6, <1>7, <1>8 DEF Init, IInv

-----------------------------------------------------------------------------
(* What stays when the stacks do. *)

\* Which places are interrupted depends on the stacks alone.
LEMMA StacksKept ==
    ASSUME UNCHANGED <<running, user, sp, stack>>,
           \A t \in Tasks \ {running} : thread'[t].sp = thread[t].sp
    PROVE  /\ \A t \in Tasks : Depth(t)' = Depth(t)
           /\ \A p : Interrupted(p)' <=> Interrupted(p)
<1>1. \A t \in Tasks : Depth(t)' = Depth(t)
  BY DEF Depth
<1>2. Depth(running)' = Depth(running)
  BY DEF Depth
<1> QED
  BY <1>1, <1>2 DEF Interrupted

\* Most steps leave all stacks and all that belongs to them alone.
Quiet == UNCHANGED <<sp, tp, user, scratch1, scratch2, stack, contexts, running,
                     thread, mm, activeMm, prev, next, lr>>

\* What holds of the stacks and of the waiting tasks goes on to hold.
LEMMA QuietKeeps ==
    ASSUME IInv, Quiet
    PROVE  /\ contexts' = stack' /\ Frames' /\ Waiting'
           /\ \A t \in Tasks : Depth(t)' = Depth(t)
           /\ \A p : Interrupted(p)' <=> Interrupted(p)
<1>1. /\ \A t \in Tasks : Depth(t)' = Depth(t)
      /\ \A p : Interrupted(p)' <=> Interrupted(p)
  BY StacksKept DEF Quiet
<1>2. contexts' = stack'
  BY DEF IInv, Quiet
<1>3. Frames'
  BY <1>1 DEF IInv, Quiet, Frames, FrameFits, Switching
<1>4. Waiting'
  BY <1>1 DEF IInv, Quiet, Waiting
<1> QED
  BY <1>1, <1>2, <1>3, <1>4

\* A step that is none of a switch.
Aside ==
    /\ Quiet
    /\ pc' = pc \/ (pc \notin SwitchPlaces /\ pc' \notin SwitchPlaces)
    /\ UNCHANGED <<wired, scratch3>>

\* No step that is aside of a switch changes how far the switch has come.
LEMMA AsideKeeps ==
    ASSUME IInv, Aside,
           pc' = "fault" => pc = "fault", mapped[Idle] => mapped'[Idle]
    PROVE  /\ contexts' = stack' /\ Frames' /\ Waiting' /\ SwitchState' /\ Directory'
           /\ \A p : Interrupted(p)' <=> Interrupted(p)
<1> USE DEF Aside
<1>1. /\ contexts' = stack' /\ Frames' /\ Waiting'
      /\ \A t \in Tasks : Depth(t)' = Depth(t)
      /\ \A p : Interrupted(p)' <=> Interrupted(p)
  BY QuietKeeps
<1>2. \A p \in SwitchPlaces : Active(p)' <=> Active(p)
  BY <1>1 DEF Active
<1>3. SwitchState'
  <2>1. Depth(running)' = Depth(running)
    BY <1>1 DEF IInv, TypeOK, Quiet
  <2>2. pc' = "switch_sp" => pc = "switch_sp"
    BY DEF SwitchPlaces
  <2> QED
    BY <1>2, <2>1, <2>2 DEF IInv, SwitchState, Quiet, SwitchPlaces
<1>4. Directory'
  <2>1. pc # "set_mm" \/ pc' = "set_mm"
    BY <1>2 DEF SwitchPlaces
  <2> QED
    BY <1>2, <2>1 DEF IInv, Directory, Quiet, SwitchPlaces
<1> QED
  BY <1>1, <1>3, <1>4

\* The frame a handler returns with.
LEMMA HandlerFrame ==
    ASSUME IInv, pc \in HandlerPlaces
    PROVE  /\ ~user /\ sp = <<running, sp[2]>> /\ sp[2] \in 1 .. MaxDepth
           /\ frame = stack[running][sp[2]] /\ frame \in Contexts
           /\ Depth(running) = sp[2]
           /\ frame.pc # "none" /\ frame.pc \in Places
           /\ frame.user \in BOOLEAN /\ frame.irq \in BOOLEAN
<1>1. ~user /\ sp[1] = running /\ sp[2] \in 1 .. MaxDepth
  BY DEF IInv, Registers, HandlerPlaces
<1>2. sp = <<running, sp[2]>>
  BY <1>1 DEF IInv, TypeOK, StackPointers
<1>3. frame = stack[running][sp[2]] /\ frame \in Contexts
  BY <1>1 DEF IInv, TypeOK, frame
<1>4. Depth(running) = sp[2]
  BY <1>1 DEF Depth
<1> QED
  BY <1>1, <1>2, <1>3, <1>4 DEF IInv, Registers, Contexts

\* The steps of the handlers: vmalloc_fault, softirqs, new work, the return.
LEMMA HandlerInv ==
    ASSUME IInv, Handler
    PROVE  IInv'
<1>1. CASE vmalloc_fault
  <2> USE <1>1 DEF vmalloc_fault
  <2>1. TypeOK'
    BY DEF IInv, TypeOK, scratch, switching, history, Places
  <2>2. Aside
    BY DEF Aside, Quiet, scratch, switching, history, SwitchPlaces
  <2>3. /\ contexts' = stack' /\ Frames' /\ Waiting' /\ SwitchState' /\ Directory'
        /\ \A p : Interrupted(p)' <=> Interrupted(p)
    BY <2>2, AsideKeeps DEF IInv, TypeOK
  <2>4. Registers'
    BY <2>2, <2>3 DEF IInv, Registers, Aside, Quiet, HandlerPlaces, frame
  <2> QED
    BY <2>1, <2>3, <2>4 DEF IInv
<1>2. CASE Softirq
  <2> USE <1>2 DEF Softirq
  <2>1. TypeOK'
    BY DEF IInv, TypeOK, scratch, memory, switching, history, Places,
           arch_local_irq_disable, arch_local_irq_enable, arch_local_irq_restore
  <2>2. Aside
    BY DEF Aside, Quiet, scratch, memory, switching, history, SwitchPlaces
  <2>3. /\ contexts' = stack' /\ Frames' /\ Waiting' /\ SwitchState' /\ Directory'
        /\ \A p : Interrupted(p)' <=> Interrupted(p)
    BY <2>2, AsideKeeps DEF memory
  <2>4. Registers'
    BY <2>2, <2>3 DEF IInv, Registers, Aside, Quiet, HandlerPlaces, frame, cpu
  <2> QED
    BY <2>1, <2>3, <2>4 DEF IInv
<1>3. CASE MarkWork
  <2> USE <1>3 DEF MarkWork
  <2>1. TypeOK'
    BY DEF IInv, TypeOK, cpu, scratch, memory, switching, history, Places
  <2>2. Aside
    BY DEF Aside, Quiet, cpu, scratch, memory, switching, history, SwitchPlaces
  <2>3. /\ contexts' = stack' /\ Frames' /\ Waiting' /\ SwitchState' /\ Directory'
        /\ \A p : Interrupted(p)' <=> Interrupted(p)
    BY <2>2, AsideKeeps DEF memory, cpu
  <2>4. Registers'
    BY <2>2, <2>3 DEF IInv, Registers, Aside, Quiet, HandlerPlaces, frame, cpu
  <2> QED
    BY <2>1, <2>3, <2>4 DEF IInv
<1>4. CASE HandlerReturns
  <2> USE <1>4 DEF HandlerReturns
  <2>1. TypeOK'
    BY DEF IInv, TypeOK, scratch, memory, switching, history, Places,
           arch_local_irq_disable, arch_local_irq_restore
  <2>2. Aside
    BY DEF Aside, Quiet, scratch, memory, switching, history, SwitchPlaces
  <2>3. /\ contexts' = stack' /\ Frames' /\ Waiting' /\ SwitchState' /\ Directory'
        /\ \A p : Interrupted(p)' <=> Interrupted(p)
    BY <2>2, AsideKeeps DEF memory
  <2>4. Registers'
    BY <2>2, <2>3 DEF IInv, Registers, Aside, Quiet, HandlerPlaces, frame
  <2> QED
    BY <2>1, <2>3, <2>4 DEF IInv
<1> QED
  BY <1>1, <1>2, <1>3, <1>4 DEF Handler

\* The steps of the exit to the interrupted code, up to the restored RS.
LEMMA ReturnInv ==
    ASSUME IInv, ExitWork \/ ExitDone \/ return_from_trap
    PROVE  IInv'
<1>1. CASE ExitWork
  <2> USE <1>1 DEF ExitWork
  <2>1. TypeOK'
    BY DEF IInv, TypeOK, scratch, memory, switching, history, Places,
           arch_local_irq_enable, arch_local_irq_restore
  <2>2. Aside
    BY DEF Aside, Quiet, scratch, memory, switching, history, SwitchPlaces
  <2>3. /\ contexts' = stack' /\ Frames' /\ Waiting' /\ SwitchState' /\ Directory'
        /\ \A p : Interrupted(p)' <=> Interrupted(p)
    BY <2>2, AsideKeeps DEF memory
  <2>4. ~user /\ Depth(running) = 1 /\ stack[running][1].pc = "user"
    <3>1. /\ ~user /\ Depth(running) = sp[2] /\ sp[2] \in 1 .. Depth(running)
          /\ frame = stack[running][sp[2]] /\ running \in Tasks
      BY HandlerFrame DEF IInv, TypeOK, HandlerPlaces
    <3>2. /\ frame.user => sp[2] = 1
          /\ frame.user <=> frame.pc = "user"
      BY <3>1 DEF IInv, Frames, FrameFits
    <3> QED
      BY <3>1, <3>2
  <2>5. \A p \in SwitchPlaces : ~Interrupted(p)
    BY <2>4 DEF Interrupted, SwitchPlaces
  <2>6. Registers'
    BY <2>2, <2>3, <2>5 DEF IInv, Registers, Aside, Quiet, HandlerPlaces, frame
  <2> QED
    BY <2>1, <2>3, <2>6 DEF IInv
<1>2. CASE ExitDone
  <2> USE <1>2 DEF ExitDone
  <2>1. TypeOK'
    BY DEF IInv, TypeOK, scratch, memory, switching, history, Places
  <2>2. Aside
    BY DEF Aside, Quiet, scratch, memory, switching, history, SwitchPlaces
  <2>3. /\ contexts' = stack' /\ Frames' /\ Waiting' /\ SwitchState' /\ Directory'
        /\ \A p : Interrupted(p)' <=> Interrupted(p)
    BY <2>2, AsideKeeps DEF memory
  <2>4. Registers'
    BY <2>2, <2>3 DEF IInv, Registers, Aside, Quiet, HandlerPlaces, frame
  <2> QED
    BY <2>1, <2>3, <2>4 DEF IInv
<1>3. CASE return_from_trap
  <2> USE <1>3 DEF return_from_trap
  <2>1. TypeOK'
    BY HandlerFrame DEF HandlerPlaces, IInv, TypeOK, scratch, memory, switching,
                        history, Places
  <2>2. Aside
    BY DEF Aside, Quiet, scratch, memory, switching, history, SwitchPlaces
  <2>3. /\ contexts' = stack' /\ Frames' /\ Waiting' /\ SwitchState' /\ Directory'
        /\ \A p : Interrupted(p)' <=> Interrupted(p)
    BY <2>2, AsideKeeps DEF memory
  <2>4. Registers'
    BY <2>2, <2>3 DEF IInv, Registers, Aside, Quiet, HandlerPlaces, frame
  <2> QED
    BY <2>1, <2>3, <2>4 DEF IInv
<1> QED
  BY <1>1, <1>2, <1>3

\* Outside of handlers a switch is where the running task is, or nowhere.
LEMMA Alone ==
    ASSUME IInv, pc \notin HandlerPlaces
    PROVE  /\ \A p \in SwitchPlaces : ~Interrupted(p)
           /\ \A p \in SwitchPlaces : Active(p) <=> pc = p
BY DEF IInv, Registers, Active

\* The steps of a switch that are taken on the stack of the task that leaves.
LEMMA SwitchStepInv ==
    ASSUME IInv, switch_mm \/ set_mm \/ finish
    PROVE  IInv'
<1>1. Quiet /\ UNCHANGED <<oldUser, oldIrq, mapped>>
  BY DEF switch_mm, set_mm, finish, Quiet, memory, switching, history, scratch
<1>2. /\ contexts' = stack' /\ Frames' /\ Waiting'
      /\ \A t \in Tasks : Depth(t)' = Depth(t)
      /\ \A p : Interrupted(p)' <=> Interrupted(p)
  BY <1>1, QuietKeeps
<1>3. /\ pc \in {"switch_mm", "set_mm", "finish"}
      /\ pc' \in {"set_mm", "switch_to", "task", "work"}
  <2>1. pc = "finish" => lr \in Resumes
    BY DEF IInv, SwitchState, Active
  <2> QED
    BY <2>1 DEF switch_mm, set_mm, finish, Resumes
<1>4. /\ \A p \in SwitchPlaces : ~Interrupted(p)
      /\ \A p \in SwitchPlaces : Active(p) <=> pc = p
      /\ \A p \in SwitchPlaces : Active(p)' <=> pc' = p
  BY <1>2, <1>3, Alone DEF HandlerPlaces, Active
<1>5. /\ ~Active("switch_sp") /\ ~Active("switch_to")
      /\ ~Active("switch_sp")' /\ ~Active("switch_mm")'
      /\ Active("switch_mm") <=> pc = "switch_mm"
      /\ Active("set_mm") <=> pc = "set_mm"
      /\ Active("finish") <=> pc = "finish"
      /\ Active("set_mm")' <=> pc' = "set_mm"
      /\ Active("switch_to")' <=> pc' = "switch_to"
      /\ ~Active("finish")'
  BY <1>3, <1>4 DEF SwitchPlaces
<1>6. /\ (\A p \in SwitchPlaces \ {"finish"} : ~Active(p)) <=> pc = "finish"
      /\ (\A p \in SwitchPlaces \ {"finish"} : ~Active(p)') <=> pc' \in Resumes
  BY <1>3, <1>4 DEF SwitchPlaces, Resumes
<1>7. Depth(running)' = Depth(running) /\ running' = running /\ stack' = stack
  BY <1>1, <1>2 DEF IInv, TypeOK, Quiet
<1>8. \A n \in 1 .. Depth(running) : stack[running][n].pc # "switch_sp"
  BY <1>4 DEF Interrupted, SwitchPlaces
<1>9. TypeOK'
  <2>1. CASE switch_mm
    <3>1. prev # mm[next] => mm[next] \in Tasks
      BY <2>1 DEF IInv, TypeOK, Directory, Active, switch_mm
    <3> QED
      BY <2>1, <3>1 DEF IInv, TypeOK, switch_mm, scratch, history, Places,
                        arch_local_irq_save
  <2>2. CASE set_mm
    BY <2>2 DEF IInv, TypeOK, set_mm, memory, switching, history, Places,
                arch_local_irq_restore
  <2>3. CASE finish
    BY <2>3 DEF IInv, TypeOK, finish, scratch, memory, switching, history, Places,
                arch_local_irq_enable, arch_local_irq_restore
  <2> QED
    BY <2>1, <2>2, <2>3
<1>10. Registers'
  <2>1. ~user
    BY <1>3 DEF IInv, Registers
  <2>2. pc' = "set_mm" => ~irq'
    <3>1. pc' = "set_mm" => switch_mm /\ prev # mm[next]
      BY <1>5 DEF switch_mm, set_mm, finish, IInv, SwitchState, Resumes
    <3> QED
      BY <3>1 DEF switch_mm, arch_local_irq_save
  <2>3. /\ pc' \notin HandlerPlaces /\ pc' # "none" /\ pc' # "user"
        /\ pc' \notin {"rfe", "fault"}
    BY <1>3 DEF HandlerPlaces
  <2>4. \A p \in SwitchPlaces : ~Interrupted(p)'
    BY <1>2, <1>4
  <2> QED
    BY <1>1, <2>1, <2>2, <2>3, <2>4 DEF IInv, Registers, Quiet
<1>11. SwitchState'
  <2>1. pc' = "switch_to" => next # running
    BY <1>5 DEF IInv, SwitchState, switch_mm, set_mm, finish, Resumes
  <2>2. pc' = "switch_to" \/ (pc' = "set_mm" /\ next # running) =>
          thread[next].lr \in Resumes /\ lr \in Resumes
    BY <1>5 DEF IInv, SwitchState, switch_mm, set_mm, finish, Resumes
  <2>3. scratch2 = running
    BY <1>5 DEF IInv, SwitchState
  <2> QED
    BY <1>1, <1>5, <1>7, <1>8, <1>3, <2>1, <2>2, <2>3 DEF SwitchState, Quiet, Resumes
<1>12. Directory'
  <2>1. next \in Tasks /\ running \in Tasks /\ wired \in Tasks
    BY DEF IInv, TypeOK
  <2>2. pc = "finish" => activeMm[running] = wired
    <3> SUFFICES ASSUME pc = "finish" PROVE activeMm[running] = wired
      OBVIOUS
    <3>1. \A p \in SwitchPlaces \ {"finish"} : ~Active(p)
      BY <1>6
    <3> QED
      BY <3>1 DEF IInv, Directory
  <2>3. \A t \in Tasks : mm'[t] # Null => activeMm'[t] = mm'[t]
    BY <1>1 DEF IInv, Directory, Quiet
  <2>4. pc' = "set_mm" => wired' = mm[next]
    BY <1>3 DEF switch_mm, set_mm, finish, IInv, SwitchState, Resumes, Active
  <2>5. pc' = "switch_to" => activeMm[next] = wired'
    BY <1>5, <2>1 DEF IInv, Directory, switch_mm, set_mm, finish, memory,
                      SwitchState, Resumes
  <2>6. pc' \in Resumes => activeMm[running] = wired'
    BY <1>5, <2>1, <2>2 DEF IInv, Directory, switch_mm, set_mm, finish, memory, Resumes
  <2>7. pc' # "set_mm" => scratch3' = wired' \/ (scratch3' = Null /\ wired' = Idle)
    BY <1>5 DEF IInv, Directory, switch_mm, set_mm, finish, memory, scratch
  <2>8. (\A p \in SwitchPlaces \ {"finish"} : ~Active(p))' => pc' \in Resumes
    BY <1>6
  <2> QED
    BY <1>1, <1>3, <1>5, <2>3, <2>4, <2>5, <2>6, <2>7, <2>8 DEF Directory, Quiet
<1> QED
  BY <1>2, <1>9, <1>10, <1>11, <1>12 DEF IInv

-----------------------------------------------------------------------------
(* Trap entry and rfe: a frame is pushed or popped. *)

\* Where the running task's next frame goes.
LEMMA Base ==
    ASSUME IInv
    PROVE  /\ Depth(running) \in 0 .. MaxDepth /\ running \in Tasks
           /\ (IF scratch1 # Null THEN scratch1 ELSE sp) = <<running, Depth(running)>>
           /\ ~user => sp = <<running, Depth(running)>>
           /\ user => Depth(running) = 0
<1>1. running \in Tasks /\ sp \in Tasks \X (-2 .. MaxDepth)
  BY DEF IInv, TypeOK, StackPointers
<1>2. CASE user
  <2>1. Depth(running) = 0 /\ scratch1 = <<running, 0>>
    BY <1>2 DEF IInv, Registers, Depth
  <2>2. scratch1 # Null
    <3>1. <<running, 0>> # Null
      BY <1>1 DEF IInv, TypeOK
    <3> QED
      BY <2>1, <3>1
  <2> QED
    BY <1>1, <1>2, <2>1, <2>2
<1>3. CASE ~user
  <2>1. scratch1 = Null /\ sp[1] = running /\ Depth(running) = sp[2]
        /\ sp[2] \in 0 .. MaxDepth
    BY <1>3 DEF IInv, Registers, Depth
  <2>2. sp = <<running, Depth(running)>>
    BY <1>1, <2>1
  <2> QED
    BY <1>1, <1>3, <2>1, <2>2
<1> QED
  BY <1>2, <1>3 DEF IInv, TypeOK

\* The four ways into the kernel have in common that they push a frame.
Entered(handler) ==
    /\ trap_entry(handler)
    /\ irq' \in BOOLEAN
    /\ pc \notin {"rfe", "fault", "set_mm"}
    /\ handler = "task" => pc \in {"user", "task", "work"}
    /\ handler = "fault" => mapped[Idle] /\ ~mapped[wired] /\ ~irq'
    /\ UNCHANGED <<scratch2, scratch3, memory, thread, work, switching, running>>

\* The frame goes on the running task's stack, whatever scratch1 says.
LEMMA PushedFrame ==
    ASSUME IInv, NEW handler \in {"irq", "task", "fault"}, Entered(handler)
    PROVE  /\ Depth(running) + 1 \in 1 .. MaxDepth
           /\ stack' = [stack EXCEPT ![running][Depth(running) + 1] =
                                      Context(pc, sp, tp, user, irq)]
           /\ contexts' = stack'
           /\ sp' = <<running, Depth(running) + 1>>
           /\ scratch1' = Null /\ tp' = scratch2 /\ ~user' /\ pc' = handler
<1>1. /\ (IF scratch1 # Null THEN scratch1 ELSE sp) = <<running, Depth(running)>>
      /\ (IF user THEN 1 ELSE sp[2] + 1) = Depth(running) + 1
      /\ Depth(running) \in 0 .. MaxDepth
  BY Base
<1>2. contexts = stack
  BY DEF IInv
<1>3. (IF scratch1 # Null THEN scratch1 ELSE sp)[1] = running
      /\ (IF scratch1 # Null THEN scratch1 ELSE sp)[2] = Depth(running)
  BY <1>1
<1> QED
  BY <1>1, <1>2, <1>3 DEF Entered, trap_entry

\* A pushed frame keeps the invariant: an interrupted switch is found in it.
LEMMA EnteredInv ==
    ASSUME IInv, NEW handler \in {"irq", "task", "fault"}, Entered(handler)
    PROVE  IInv'
<1> DEFINE here == Context(pc, sp, tp, user, irq)
<1>0. PICK d \in 0 .. MaxDepth : d = Depth(running)
  BY Base
<1>1. /\ running \in Tasks /\ d \in 0 .. MaxDepth /\ d + 1 \in 1 .. MaxDepth
      /\ ~user => sp = <<running, d>>
      /\ user => d = 0
  BY <1>0, Base, PushedFrame
<1>2. /\ stack' = [stack EXCEPT ![running][d + 1] = here]
      /\ contexts' = stack' /\ sp' = <<running, d + 1>>
      /\ scratch1' = Null /\ tp' = scratch2 /\ ~user' /\ pc' = handler
  BY <1>0, PushedFrame
<1>3. UNCHANGED <<scratch2, scratch3, wired, mapped, mm, activeMm, thread, work,
                  prev, next, lr, flags, running>>
  BY DEF Entered, memory, switching
<1> HIDE DEF here
<1>4. here \in Contexts
  BY DEF IInv, TypeOK, Contexts, Context, here
<1>5. /\ here.pc = pc /\ here.sp = sp /\ here.tp = tp /\ here.user = user
      /\ here.irq = irq
  BY DEF Context, here
<1>6. /\ stack \in [Tasks -> [1 .. MaxDepth -> Contexts]]
      /\ stack' \in [Tasks -> [1 .. MaxDepth -> Contexts]]
      /\ \A t \in Tasks \ {running} : stack'[t] = stack[t]
      /\ \A n \in 1 .. MaxDepth : n # d + 1 => stack'[running][n] = stack[running][n]
      /\ stack'[running][d + 1] = here
  <2>1. stack \in [Tasks -> [1 .. MaxDepth -> Contexts]]
    BY DEF IInv, TypeOK
  <2> QED
    BY <1>1, <1>2, <1>4, <2>1
<1>7. /\ Depth(running)' = d + 1
      /\ \A t \in Tasks \ {running} : Depth(t)' = Depth(t)
  BY <1>2, <1>3 DEF Depth
<1>8. TypeOK'
  <2>1. sp' \in StackPointers
    BY <1>1, <1>2, StackPointer
  <2>2. pc' \in Places
    BY <1>2 DEF Places
  <2>3. {user', irq', oldUser', oldIrq', flags'} \subseteq BOOLEAN
    BY <1>2, <1>3 DEF IInv, TypeOK, Entered, trap_entry
  <2> QED
    BY <1>2, <1>3, <1>6, <2>1, <2>2, <2>3 DEF IInv, TypeOK
<1>9. \A p \in SwitchPlaces : Active(p)' <=> Active(p)
  <2>1. ASSUME NEW p \in SwitchPlaces PROVE Interrupted(p)' <=> Active(p)
    <3>1. Interrupted(p)' <=> \E n \in 1 .. d + 1 : stack'[running][n].pc = p
      BY <1>3, <1>7 DEF Interrupted
    <3>2. \A n \in 1 .. d + 1 : n = d + 1 \/ n \in 1 .. d
      BY <1>1
    <3>3. \A n \in 1 .. d : n \in 1 .. d + 1 /\ stack'[running][n] = stack[running][n]
      BY <1>1, <1>6
    <3>4. d + 1 \in 1 .. d + 1 /\ stack'[running][d + 1].pc = pc
      BY <1>1, <1>5, <1>6
    <3> QED
      BY <1>0, <3>1, <3>2, <3>3, <3>4 DEF Active, Interrupted
  <2> QED
    BY <1>2, <2>1 DEF Active, SwitchPlaces
<1>10. Frames'
  <2>1. ASSUME NEW t \in Tasks \ {running}, NEW n \in 1 .. Depth(t)
        PROVE  FrameFits(t, n)'
    <3>1. FrameFits(t, n) /\ stack'[t] = stack[t] /\ next' = next
      BY <1>3, <1>6 DEF IInv, Frames
    <3> QED
      BY <3>1 DEF FrameFits, Switching
  <2>2. ASSUME NEW n \in 1 .. d
        PROVE  FrameFits(running, n)'
    <3>1. FrameFits(running, n) /\ next' = next /\ running' = running
      BY <1>0, <1>1, <1>3 DEF IInv, Frames
    <3>2. \A m \in 1 .. n : stack'[running][m] = stack[running][m]
      BY <1>1, <1>6
    <3>3. Switching(running, n)' <=> Switching(running, n)
      BY <3>1, <3>2 DEF Switching
    <3>4. /\ stack'[running][n] = stack[running][n]
          /\ n > 1 => stack'[running][n - 1] = stack[running][n - 1]
          /\ \A m \in 1 .. n - 1 : stack'[running][m] = stack[running][m]
      BY <3>2
    <3> QED
      BY <3>1, <3>3, <3>4 DEF FrameFits
  <2>3. FrameFits(running, d + 1)'
    <3>1. /\ pc \notin {"rfe", "fault", "set_mm"} /\ pc # "none"
          /\ user <=> pc = "user"
          /\ user => d + 1 = 1
          /\ d + 1 - 1 = d
      BY <1>1 DEF IInv, Registers, Entered
    <3>2. ~user => /\ sp = <<running, d>>
                   /\ tp = IF Active("switch_sp") THEN next ELSE running
      BY <1>1 DEF IInv, Registers, SwitchState
    <3>3. Switching(running, d + 1)' <=> Active("switch_sp")
      <4>1. \A n \in 1 .. d + 1 : n = d + 1 \/ n \in 1 .. d
        BY <1>1
      <4>2. \A n \in 1 .. d : n \in 1 .. d + 1 /\ stack'[running][n] = stack[running][n]
        BY <1>1, <1>6
      <4>3. d + 1 \in 1 .. d + 1 /\ stack'[running][d + 1].pc = pc
        BY <1>1, <1>5, <1>6
      <4> QED
        BY <1>0, <1>3, <4>1, <4>2, <4>3 DEF Switching, Active, Interrupted
    <3>4. ASSUME pc \in HandlerPlaces
          PROVE  d + 1 > 1 /\ stack'[running][d].pc # "none"
      <4>1. frame = stack[running][d] /\ frame.pc # "none" /\ d \in 1 .. MaxDepth
        BY <1>0, <3>4, HandlerFrame
      <4> QED
        BY <1>1, <1>6, <4>1
    <3>5. ASSUME NEW m \in 1 .. d, stack'[running][m].pc \in SwitchPlaces
          PROVE  pc \in HandlerPlaces
      <4>1. Interrupted(stack[running][m].pc) /\ stack[running][m].pc \in SwitchPlaces
        BY <1>0, <1>1, <1>6, <3>5, SMTT(60) DEF Interrupted
      <4>2. pc \notin HandlerPlaces => \A p \in SwitchPlaces : ~Interrupted(p)
        BY Alone
      <4> QED
        BY <4>1, <4>2
    <3>6. /\ stack'[running][d + 1].pc = pc /\ stack'[running][d + 1].sp = sp
          /\ stack'[running][d + 1].tp = tp /\ stack'[running][d + 1].user = user
          /\ running' = running /\ next' = next
      BY <1>3, <1>5, <1>6
    <3> QED
      BY <3>1, <3>2, <3>3, <3>4, <3>5, <3>6 DEF FrameFits
  <2> QED
    <3>1. \A n \in 1 .. Depth(running)' : n = d + 1 \/ n \in 1 .. d
      BY <1>1, <1>7
    <3>2. \A n \in 1 .. Depth(running)' : FrameFits(running, n)'
      BY <2>2, <2>3, <3>1
    <3>3. \A t \in Tasks \ {running} : \A n \in 1 .. Depth(t)' : FrameFits(t, n)'
      BY <2>1, <1>7
    <3> QED
      BY <3>2, <3>3, <1>3 DEF Frames
<1>11. Registers'
  <2>1. pc' = "fault" => ~irq'
    BY <1>2 DEF Entered
  <2>2. frame'.pc # "none"
    <3>1. frame' = here
      BY <1>2, <1>6 DEF frame
    <3> QED
      BY <3>1, <1>5 DEF IInv, Registers
  <2>3. pc' \notin HandlerPlaces => \A p \in SwitchPlaces : ~Interrupted(p)'
    <3> SUFFICES ASSUME pc' \notin HandlerPlaces, NEW p \in SwitchPlaces
                 PROVE  ~Active(p)'
      BY DEF Active
    <3>1. pc \in {"user", "task", "work"}
      BY <1>2 DEF Entered, HandlerPlaces
    <3>2. ~Active(p)
      BY <3>1, Alone DEF HandlerPlaces, SwitchPlaces
    <3> QED
      BY <3>2, <1>9
  <2> QED
    BY <1>1, <1>2, <1>3, <2>1, <2>2, <2>3 DEF Registers, HandlerPlaces
<1>12. Waiting'
  <2>1. \A t \in Tasks \ {running} :
          thread'[t] = thread[t] /\ stack'[t] = stack[t] /\ Depth(t)' = Depth(t)
    BY <1>3, <1>6, <1>7
  <2> QED
    BY <1>3, <2>1 DEF IInv, Waiting
<1>13. SwitchState'
  <2>1. /\ Active("switch_mm")' <=> Active("switch_mm")
        /\ Active("set_mm")' <=> Active("set_mm")
        /\ Active("switch_to")' <=> Active("switch_to")
        /\ Active("switch_sp")' <=> Active("switch_sp")
        /\ Active("finish")' <=> Active("finish")
    BY <1>9 DEF SwitchPlaces
  <2>2. pc' # "switch_sp"
    BY <1>2
  <2>3. ASSUME NEW n \in 1 .. Depth(running)', stack'[running][n].pc = "switch_sp"
        PROVE  thread[running].sp = <<running, n - 1>>
    <3>1. CASE n = d + 1
      <4>1. pc = "switch_sp" /\ ~user /\ n - 1 = d
        BY <3>1, <2>3, <1>1, <1>5, <1>6 DEF IInv, Registers
      <4> QED
        BY <4>1, <1>1 DEF IInv, SwitchState
    <3>2. CASE n # d + 1
      <4>1. n \in 1 .. Depth(running) /\ stack[running][n].pc = "switch_sp"
        BY <1>0, <3>2, <2>3, <1>1, <1>6, <1>7
      <4> QED
        BY <4>1 DEF IInv, SwitchState
    <3> QED
      BY <3>1, <3>2
  <2> QED
    BY <1>3, <2>1, <2>2, <2>3 DEF IInv, SwitchState
<1>14. Directory'
  <2>1. /\ Active("switch_mm")' <=> Active("switch_mm")
        /\ Active("set_mm")' <=> Active("set_mm")
        /\ Active("switch_to")' <=> Active("switch_to")
        /\ Active("switch_sp")' <=> Active("switch_sp")
        /\ Active("finish")' <=> Active("finish")
    BY <1>9 DEF SwitchPlaces
  <2>2. (\A p \in SwitchPlaces \ {"finish"} : ~Active(p)') =>
          activeMm[running] = wired
    <3>1. (\A p \in SwitchPlaces \ {"finish"} : ~Active(p)') =>
            \A p \in SwitchPlaces \ {"finish"} : ~Active(p)
      BY <1>9
    <3> QED
      BY <3>1 DEF IInv, Directory
  <2>3. pc' = "fault" => mapped[Idle] /\ scratch3 # Null
    BY <1>2 DEF IInv, TypeOK, Directory, Entered
  <2>4. scratch3 = wired \/ (scratch3 = Null /\ wired = Idle)
    BY DEF IInv, Directory, Entered
  <2> QED
    BY <1>3, <2>1, <2>2, <2>3, <2>4 DEF IInv, Directory
<1> QED
  BY <1>2, <1>8, <1>10, <1>11, <1>12, <1>13, <1>14 DEF IInv

\* Each way into the kernel pushes a frame, and none interrupts the last steps of
\* a return, vmalloc_fault, or the replacement of the page directory.
LEMMA TrapInv ==
    ASSUME IInv, Trap
    PROVE  IInv'
<1>1. CASE Interrupt
  <2>1. pc \notin {"rfe", "fault", "set_mm"}
    BY <1>1 DEF IInv, Registers, Interrupt
  <2>2. Entered("irq")
    BY <1>1, <2>1 DEF Interrupt, Entered
  <2> QED
    BY <2>2, EnteredInv
<1>2. CASE UserTrap
  <2>1. pc = "user"
    BY <1>2 DEF IInv, Registers, UserTrap
  <2>2. Entered("task")
    BY <1>2, <2>1 DEF UserTrap, Entered, arch_local_irq_enable, arch_local_irq_restore
  <2> QED
    BY <2>2, EnteredInv
<1>3. CASE KernelFault
  <2>1. irq \in BOOLEAN
    BY DEF IInv, TypeOK
  <2>2. Entered("task")
    BY <1>3, <2>1 DEF KernelFault, Entered, arch_local_irq_restore
  <2> QED
    BY <2>2, EnteredInv
<1>4. CASE VmallocAccess
  <2>1. Entered("fault")
    BY <1>4 DEF VmallocAccess, Entered
  <2> QED
    BY <2>1, EnteredInv
<1> QED
  BY <1>1, <1>2, <1>3, <1>4 DEF Trap

\* rfe pops the frame: the place it goes back to is one further down.
LEMMA RfeInv ==
    ASSUME IInv, rfe
    PROVE  IInv'
<1>0. PICK d \in 1 .. MaxDepth : d = sp[2]
  <2>1. pc \in HandlerPlaces
    BY DEF rfe, HandlerPlaces
  <2> QED
    BY <2>1, HandlerFrame
<1>1. PICK f \in Contexts : f = frame
  <2>1. pc \in HandlerPlaces
    BY DEF rfe, HandlerPlaces
  <2> QED
    BY <2>1, HandlerFrame
<1>2. /\ running \in Tasks /\ d = Depth(running) /\ sp = <<running, d>>
      /\ f = stack[running][d] /\ f.pc # "none" /\ pc = "rfe"
  <2>1. pc \in HandlerPlaces
    BY DEF rfe, HandlerPlaces
  <2> QED
    BY <1>0, <1>1, <2>1, HandlerFrame DEF IInv, TypeOK, rfe
<1>3. /\ pc' = f.pc /\ sp' = f.sp /\ tp' = f.tp /\ user' = f.user /\ irq' = f.irq
      /\ scratch1' = IF f.user THEN <<running, d - 1>> ELSE Null
      /\ stack' = [stack EXCEPT ![running][d] = NoFrame]
      /\ contexts' = stack'
      /\ UNCHANGED <<oldUser, oldIrq, scratch2, scratch3, wired, mapped, mm, activeMm,
                     thread, work, prev, next, lr, flags, running>>
  <2>1. oldUser = f.user /\ oldIrq = f.irq /\ scratch1 = Null /\ contexts = stack
    <3>1. ~user
      BY <1>2 DEF IInv, Registers
    <3> QED
      BY <1>1, <1>2, <3>1 DEF IInv, Registers
  <2> QED
    BY <1>1, <1>2, <2>1 DEF rfe, memory, switching
<1>4. FrameFits(running, d)
  BY <1>0, <1>2 DEF IInv, Frames
<1>5. /\ f.pc \notin {"rfe", "fault", "set_mm"}
      /\ f.user <=> f.pc = "user"
      /\ f.user => d = 1
      /\ ~f.user => /\ f.sp = <<running, d - 1>>
                    /\ f.tp = IF Switching(running, d) THEN next ELSE running
      /\ f.pc \in HandlerPlaces => d > 1 /\ stack[running][d - 1].pc # "none"
      /\ \A m \in 1 .. (d - 1) :
           stack[running][m].pc \in SwitchPlaces => f.pc \in HandlerPlaces
  BY <1>2, <1>4 DEF FrameFits
<1>6. NoFrame \in Contexts
  BY DEF StackPointers, Contexts, NoFrame, Context, Places
<1>7. /\ stack' \in [Tasks -> [1 .. MaxDepth -> Contexts]]
      /\ \A t \in Tasks \ {running} : stack'[t] = stack[t]
      /\ \A n \in 1 .. d - 1 : stack'[running][n] = stack[running][n]
  <2>1. stack \in [Tasks -> [1 .. MaxDepth -> Contexts]]
    BY DEF IInv, TypeOK
  <2> QED
    <3>1. \A n \in 1 .. d - 1 : n \in 1 .. MaxDepth /\ n # d
      BY <1>0
    <3> QED
      BY <1>0, <1>2, <1>3, <1>6, <2>1, <3>1
<1>8. /\ Depth(running)' = d - 1
      /\ \A t \in Tasks \ {running} : Depth(t)' = Depth(t)
  <2>1. ~f.user => sp'[2] = d - 1
    BY <1>3, <1>5
  <2> QED
    BY <1>3, <1>5, <2>1 DEF Depth
<1>9. TypeOK'
  <2>1. /\ f.sp \in StackPointers /\ f.pc \in Places
        /\ f.tp \in Tasks \cup StackPointers
        /\ f.user \in BOOLEAN /\ f.irq \in BOOLEAN
    BY DEF Contexts
  <2>2. scratch1' \in {Null} \cup StackPointers
    BY <1>0, <1>2, <1>3, StackPointer
  <2>3. {user', irq', oldUser', oldIrq', flags'} \subseteq BOOLEAN
    BY <1>3, <2>1 DEF IInv, TypeOK
  <2> QED
    BY <1>3, <1>7, <2>1, <2>2, <2>3 DEF IInv, TypeOK
<1>10. ASSUME NEW p
       PROVE  Interrupted(p)' <=> \E n \in 1 .. d - 1 : stack[running][n].pc = p
  BY <1>3, <1>7, <1>8 DEF Interrupted
<1>11. \A p \in SwitchPlaces : Active(p)' <=> Active(p)
  <2> SUFFICES ASSUME NEW p \in SwitchPlaces
               PROVE  Active(p)' <=> Active(p)
    OBVIOUS
  <2>1. Active(p) <=> \E n \in 1 .. d : stack[running][n].pc = p
    BY <1>2 DEF Active, Interrupted, SwitchPlaces
  <2>2. Active(p)' <=> f.pc = p \/ \E n \in 1 .. d - 1 : stack[running][n].pc = p
    BY <1>3, <1>10 DEF Active
  <2>3. \A n \in 1 .. d : n = d \/ n \in 1 .. d - 1
    BY <1>0
  <2>4. \A n \in 1 .. d - 1 : n \in 1 .. d
    BY <1>0
  <2>5. d \in 1 .. d
    BY <1>0
  <2> QED
    BY <1>2, <2>1, <2>2, <2>3, <2>4, <2>5
<1>12. Frames'
  <2>1. ASSUME NEW t \in Tasks \ {running}, NEW n \in 1 .. Depth(t)
        PROVE  FrameFits(t, n)'
    <3>1. FrameFits(t, n) /\ stack'[t] = stack[t] /\ next' = next
      BY <1>3, <1>7 DEF IInv, Frames
    <3> QED
      BY <3>1 DEF FrameFits, Switching
  <2>2. ASSUME NEW n \in 1 .. d - 1
        PROVE  FrameFits(running, n)'
    <3>1. FrameFits(running, n) /\ next' = next /\ running' = running
      BY <1>0, <1>2, <1>3 DEF IInv, Frames
    <3>2. \A m \in 1 .. n : stack'[running][m] = stack[running][m]
      BY <1>0, <1>7
    <3>3. Switching(running, n)' <=> Switching(running, n)
      BY <3>1, <3>2 DEF Switching
    <3>4. /\ stack'[running][n] = stack[running][n]
          /\ n > 1 => stack'[running][n - 1] = stack[running][n - 1]
          /\ \A m \in 1 .. n - 1 : stack'[running][m] = stack[running][m]
      BY <3>2
    <3> QED
      BY <3>1, <3>3, <3>4 DEF FrameFits
  <2> QED
    BY <1>3, <1>8, <2>1, <2>2 DEF Frames
<1>13. Registers'
  <2>1. f.user => scratch1' = <<running, 0>>
    BY <1>3, <1>5
  <2>2. ~f.user => f.tp = scratch2
    <3>1. Switching(running, d) <=> Active("switch_sp")
      BY <1>2 DEF Switching, Active, Interrupted
    <3> QED
      BY <3>1, <1>5 DEF IInv, SwitchState
  <2>3. ~f.user => sp'[1] = running /\ sp'[2] = d - 1 /\ d - 1 \in 0 .. MaxDepth
    BY <1>0, <1>3, <1>5
  <2>4. f.pc \in HandlerPlaces => sp'[2] > 0 /\ frame'.pc # "none"
    <3> SUFFICES ASSUME f.pc \in HandlerPlaces
                 PROVE  sp'[2] > 0 /\ frame'.pc # "none"
      OBVIOUS
    <3>1. sp'[1] = running /\ sp'[2] = d - 1
      BY <1>5, <2>3 DEF HandlerPlaces
    <3>2. d > 1 /\ stack'[running][d - 1] = stack[running][d - 1]
      BY <1>0, <1>5, <1>7
    <3> QED
      BY <1>0, <1>5, <3>1, <3>2 DEF frame
  <2>5. f.pc \notin HandlerPlaces => \A p \in SwitchPlaces : ~Interrupted(p)'
    BY <1>5, <1>10
  <2>6. f.user \in BOOLEAN
    BY DEF Contexts
  <2> QED
    BY <1>2, <1>3, <1>5, <2>1, <2>2, <2>3, <2>4, <2>5, <2>6 DEF Registers
<1>14. Waiting'
  <2>1. \A t \in Tasks \ {running} :
          thread'[t] = thread[t] /\ stack'[t] = stack[t] /\ Depth(t)' = Depth(t)
    BY <1>3, <1>7, <1>8
  <2> QED
    BY <1>3, <2>1 DEF IInv, Waiting
<1>15. /\ Active("switch_mm")' <=> Active("switch_mm")
       /\ Active("set_mm")' <=> Active("set_mm")
       /\ Active("switch_to")' <=> Active("switch_to")
       /\ Active("switch_sp")' <=> Active("switch_sp")
       /\ Active("finish")' <=> Active("finish")
  BY <1>11 DEF SwitchPlaces
<1>16. SwitchState'
  <2>1. \A n \in 1 .. d : stack[running][n].pc = "switch_sp" =>
                            thread[running].sp = <<running, n - 1>>
    BY <1>2 DEF IInv, SwitchState
  <2>2. pc' = "switch_sp" => thread[running].sp = sp'
    <3> SUFFICES ASSUME f.pc = "switch_sp" PROVE thread[running].sp = f.sp
      BY <1>3
    <3>1. f.sp = <<running, d - 1>>
      BY <1>5
    <3>2. d \in 1 .. d
      BY <1>0
    <3> QED
      BY <1>2, <2>1, <3>1, <3>2
  <2>3. \A n \in 1 .. Depth(running)' : stack'[running][n].pc = "switch_sp" =>
                                          thread[running].sp = <<running, n - 1>>
    <3>1. \A n \in 1 .. d - 1 : n \in 1 .. d /\ stack'[running][n] = stack[running][n]
      BY <1>0, <1>7
    <3>2. Depth(running)' = d - 1 /\ running' = running
      BY <1>3, <1>8
    <3>3. SUFFICES ASSUME NEW n \in 1 .. d - 1, stack'[running][n].pc = "switch_sp"
                   PROVE  thread[running].sp = <<running, n - 1>>
      BY <3>2
    <3> QED
      BY <2>1, <3>1, <3>3
  <2> QED
    BY <1>3, <1>15, <2>2, <2>3 DEF IInv, SwitchState
<1>17. Directory'
  <2>1. (\A p \in SwitchPlaces \ {"finish"} : ~Active(p)') =>
          activeMm[running] = wired
    <3>1. (\A p \in SwitchPlaces \ {"finish"} : ~Active(p)') =>
            \A p \in SwitchPlaces \ {"finish"} : ~Active(p)
      BY <1>11
    <3> QED
      BY <3>1 DEF IInv, Directory
  <2>2. pc' # "fault"
    BY <1>3, <1>5
  <2>3. scratch3 = wired \/ (scratch3 = Null /\ wired = Idle)
    BY <1>2 DEF IInv, Directory
  <2> QED
    BY <1>3, <1>15, <2>1, <2>2, <2>3 DEF IInv, Directory
<1> QED
  BY <1>3, <1>9, <1>12, <1>13, <1>14, <1>16, <1>17 DEF IInv

-----------------------------------------------------------------------------
(* The steps of task code that change what the frames of a switch would rely on:
   there are no such frames then, on any stack. *)

\* No stack has a frame of an interrupted switch.
LEMMA NoSwitch ==
    ASSUME IInv, pc \notin HandlerPlaces
    PROVE  \A t \in Tasks : \A n \in 1 .. Depth(t) :
             stack[t][n].pc \notin SwitchPlaces /\ ~Switching(t, n)
<1>1. \A t \in Tasks : Depth(t) \in Int
  BY DEF IInv, TypeOK, StackPointers, Depth
<1>2. \A t \in Tasks : \A n \in 1 .. Depth(t) : stack[t][n].pc \notin SwitchPlaces
  <2>1. \A n \in 1 .. Depth(running) : stack[running][n].pc \notin SwitchPlaces
    BY Alone DEF Interrupted
  <2> QED
    BY <2>1 DEF IInv, Waiting
<1>3. ASSUME NEW t \in Tasks, NEW n \in 1 .. Depth(t)
      PROVE  ~Switching(t, n)
  <2>1. \A m \in 1 .. n : m \in 1 .. Depth(t)
    BY <1>1
  <2> QED
    BY <1>2, <2>1 DEF Switching, SwitchPlaces
<1> QED
  BY <1>2, <1>3

\* With the stacks as they are, it does not matter then which task is `next`.
LEMMA FramesKept ==
    ASSUME IInv, pc \notin HandlerPlaces, stack' = stack,
           \A t \in Tasks : Depth(t)' = Depth(t)
    PROVE  Frames'
<1> SUFFICES ASSUME NEW t \in Tasks, NEW n \in 1 .. Depth(t)
             PROVE  FrameFits(t, n)'
  BY DEF Frames
<1>1. FrameFits(t, n) /\ ~Switching(t, n)
  BY NoSwitch DEF IInv, Frames
<1>2. ~Switching(t, n)'
  BY <1>1 DEF Switching
<1> QED
  BY <1>1, <1>2 DEF FrameFits

\* The call of switch_mm or __switch_to by schedule.
LEMMA ScheduleInv ==
    ASSUME IInv, schedule
    PROVE  IInv'
<1>1. /\ pc \in Resumes /\ pc # "user"
      /\ pc \notin HandlerPlaces /\ pc \notin SwitchPlaces
      /\ lr' = pc /\ prev' = activeMm[running]
      /\ irq' \in BOOLEAN
      /\ UNCHANGED <<sp, tp, user, oldUser, oldIrq, scratch1, scratch2, scratch3, wired,
                     mapped, mm, stack, thread, work, flags, running, contexts>>
  BY DEF schedule, Resumes, HandlerPlaces, SwitchPlaces, scratch, history, IInv, TypeOK,
         arch_local_irq_disable, arch_local_irq_restore
<1>2. /\ next' \in Tasks /\ next' # running /\ exists(next')
      /\ pc' = IF mm[next'] = Null THEN "switch_to" ELSE "switch_mm"
      /\ activeMm' = IF mm[next'] = Null
                     THEN [activeMm EXCEPT ![next'] = activeMm[running]]
                     ELSE activeMm
  BY DEF schedule
<1>3. thread[next'].lr \in Resumes
  BY <1>2 DEF IInv, Waiting, exists, Resumes
<1>4. running \in Tasks /\ ~user /\ scratch2 = running /\ activeMm[running] = wired
  <2>1. \A p \in SwitchPlaces : ~Active(p)
    BY <1>1, Alone
  <2>2. ~Active("switch_sp") /\ \A p \in SwitchPlaces \ {"finish"} : ~Active(p)
    BY <2>1 DEF SwitchPlaces
  <2>3. activeMm[running] = wired
    BY <2>2 DEF IInv, Directory
  <2>4. scratch2 = running
    BY <2>2 DEF IInv, SwitchState
  <2> QED
    BY <1>1, <2>3, <2>4 DEF IInv, TypeOK, Registers
<1>5. /\ \A t \in Tasks : Depth(t)' = Depth(t)
      /\ \A p : Interrupted(p)' <=> Interrupted(p)
  BY <1>1, StacksKept
<1>6. /\ \A p \in SwitchPlaces : ~Interrupted(p)'
      /\ \A p \in SwitchPlaces : Active(p)' <=> pc' = p
  BY <1>1, <1>5, Alone DEF Active
<1>7. TypeOK'
  <2>1. prev' \in Tasks
    BY <1>1, <1>4 DEF IInv, TypeOK
  <2>2. activeMm' \in [Tasks -> {Null} \cup Tasks]
    BY <1>2, <1>4 DEF IInv, TypeOK
  <2>3. pc' \in Places /\ lr' \in Places
    BY <1>1, <1>2 DEF Places, Resumes
  <2> QED
    BY <1>1, <1>2, <2>1, <2>2, <2>3 DEF IInv, TypeOK
<1>8. Frames'
  BY <1>1, <1>5, FramesKept
<1>9. Registers'
  <2>1. /\ pc' \notin HandlerPlaces /\ pc' \notin {"rfe", "fault", "set_mm"}
        /\ pc' # "user" /\ pc' # "none"
    BY <1>2 DEF HandlerPlaces
  <2> QED
    BY <1>1, <1>4, <1>6, <2>1 DEF IInv, Registers
<1>10. Waiting'
  BY <1>1, <1>5 DEF IInv, Waiting
<1>11. /\ Active("switch_mm")' <=> mm[next'] # Null
       /\ Active("switch_to")' <=> mm[next'] = Null
       /\ ~Active("set_mm")' /\ ~Active("switch_sp")' /\ ~Active("finish")'
  BY <1>2, <1>6 DEF SwitchPlaces
<1>12. SwitchState'
  <2>1. pc' # "switch_sp"
    BY <1>2
  <2>2. \A n \in 1 .. Depth(running)' : stack'[running'][n].pc # "switch_sp"
    <3>1. ~Interrupted("switch_sp")'
      BY <1>6 DEF SwitchPlaces
    <3> QED
      BY <1>1, <3>1 DEF Interrupted
  <2> QED
    BY <1>1, <1>2, <1>3, <1>4, <1>11, <2>1, <2>2 DEF SwitchState
<1>13. Directory'
  <2>1. \A t \in Tasks : mm'[t] # Null => activeMm'[t] = mm'[t]
    BY <1>1, <1>2 DEF IInv, TypeOK, Directory
  <2>2. mm[next'] = Null => activeMm'[next'] = wired
    BY <1>2, <1>4 DEF IInv, TypeOK
  <2>3. ~(\A p \in SwitchPlaces \ {"finish"} : ~Active(p)')
    BY <1>11 DEF SwitchPlaces
  <2>4. scratch3 = wired \/ (scratch3 = Null /\ wired = Idle)
    BY <1>1 DEF IInv, Directory, SwitchPlaces
  <2>5. pc' # "fault"
    BY <1>2
  <2> QED
    BY <1>1, <1>4, <1>11, <2>1, <2>2, <2>3, <2>4, <2>5 DEF Directory
<1> QED
  BY <1>1, <1>7, <1>8, <1>9, <1>10, <1>12, <1>13 DEF IInv

\* The first half of __switch_to: the thread pointer is the next task's.
LEMMA SwitchToInv ==
    ASSUME IInv, switch_to
    PROVE  IInv'
<1>1. /\ pc = "switch_to" /\ pc \notin HandlerPlaces
      /\ pc' = "switch_sp" /\ tp' = next /\ scratch2' = next
      /\ UNCHANGED <<sp, user, irq, oldUser, oldIrq, scratch1, scratch3, wired, mapped,
                     mm, stack, work, prev, next, lr, flags, running, contexts>>
  BY DEF switch_to, HandlerPlaces, switching, history
<1>2. /\ running \in Tasks /\ next \in Tasks \ {running} /\ ~user /\ tp = running
      /\ thread[next].lr \in Resumes /\ lr \in Resumes /\ activeMm[next] = wired
  <2>1. ~Active("switch_sp") /\ Active("switch_to")
    BY <1>1, Alone DEF SwitchPlaces
  <2>2. tp = running
    BY <1>1, <2>1 DEF IInv, Registers, SwitchState
  <2> QED
    BY <1>1, <2>1, <2>2 DEF IInv, TypeOK, Registers, SwitchState, Directory
<1>3. /\ thread' = [thread EXCEPT ![running] = [sp |-> sp, lr |-> lr]]
      /\ activeMm' = IF mm[running] = Null
                     THEN [activeMm EXCEPT ![running] = Null] ELSE activeMm
  BY <1>2 DEF switch_to
<1>4. /\ thread'[running].sp = sp /\ thread'[running].lr = lr
      /\ \A t \in Tasks \ {running} : thread'[t] = thread[t]
      /\ \A t \in Tasks \ {running} : activeMm'[t] = activeMm[t]
  BY <1>2, <1>3 DEF IInv, TypeOK
<1>5. /\ \A t \in Tasks : Depth(t)' = Depth(t)
      /\ \A p : Interrupted(p)' <=> Interrupted(p)
  BY <1>1, <1>4, StacksKept
<1>6. /\ \A p \in SwitchPlaces : ~Interrupted(p)'
      /\ \A p \in SwitchPlaces : Active(p)' <=> pc' = p
  BY <1>1, <1>5, Alone DEF Active
<1>7. TypeOK'
  <2>1. [sp |-> sp, lr |-> lr] \in [sp : StackPointers, lr : Places]
    BY DEF IInv, TypeOK
  <2>2. thread' \in [Tasks -> [sp : StackPointers, lr : Places]]
    BY <1>3, <2>1 DEF IInv, TypeOK
  <2>3. activeMm' \in [Tasks -> {Null} \cup Tasks]
    BY <1>3 DEF IInv, TypeOK
  <2>4. tp' \in Tasks /\ scratch2' \in Tasks /\ pc' \in Places
    BY <1>1, <1>2 DEF Places
  <2> QED
    BY <1>1, <2>2, <2>3, <2>4 DEF IInv, TypeOK
<1>8. Frames'
  BY <1>1, <1>5, FramesKept
<1>9. Registers'
  <2>1. /\ pc' \notin HandlerPlaces /\ pc' \notin {"rfe", "fault", "set_mm"}
        /\ pc' # "user" /\ pc' # "none"
    BY <1>1 DEF HandlerPlaces
  <2> QED
    BY <1>1, <1>2, <1>6, <2>1 DEF IInv, Registers
<1>10. Waiting'
  BY <1>1, <1>4, <1>5 DEF IInv, Waiting
<1>11. /\ ~Active("switch_mm")' /\ ~Active("set_mm")' /\ ~Active("switch_to")'
       /\ Active("switch_sp")' /\ ~Active("finish")'
  BY <1>1, <1>6 DEF SwitchPlaces
<1>12. SwitchState'
  <2>1. \A n \in 1 .. Depth(running)' : stack'[running'][n].pc # "switch_sp"
    <3>1. ~Interrupted("switch_sp")'
      BY <1>6 DEF SwitchPlaces
    <3> QED
      BY <1>1, <3>1 DEF Interrupted
  <2> QED
    BY <1>1, <1>2, <1>4, <1>11, <2>1 DEF SwitchState
<1>13. Directory'
  <2>1. \A t \in Tasks : mm'[t] # Null => activeMm'[t] = mm'[t]
    BY <1>1, <1>3 DEF IInv, TypeOK, Directory
  <2>2. ~(\A p \in SwitchPlaces \ {"finish"} : ~Active(p)')
    BY <1>11 DEF SwitchPlaces
  <2>3. scratch3 = wired \/ (scratch3 = Null /\ wired = Idle)
    BY <1>1 DEF IInv, Directory, SwitchPlaces
  <2> QED
    BY <1>1, <1>2, <1>4, <1>11, <2>1, <2>2, <2>3 DEF Directory
<1> QED
  BY <1>1, <1>7, <1>8, <1>9, <1>10, <1>12, <1>13 DEF IInv

\* The second half: the stacks change roles, and none of them changes.
LEMMA SwitchSpInv ==
    ASSUME IInv, switch_sp
    PROVE  IInv'
<1>1. /\ pc = "switch_sp" /\ pc \notin HandlerPlaces /\ pc' = "finish"
      /\ sp' = thread[next].sp /\ lr' = thread[next].lr /\ running' = next
      /\ UNCHANGED <<tp, user, irq, oldUser, oldIrq, scratch1, scratch2, scratch3,
                     wired, mapped, mm, activeMm, stack, thread, work, prev, next, flags,
                     contexts>>
  BY DEF switch_sp, HandlerPlaces, scratch, memory
<1>2. /\ running \in Tasks /\ next \in Tasks \ {running} /\ ~user /\ scratch2 = next
      /\ tp = next /\ scratch1 = Null /\ sp[1] = running /\ sp[2] \in 0 .. MaxDepth
      /\ thread[running].sp = sp /\ thread[running].lr \in Resumes
      /\ thread[next].lr \in Resumes /\ activeMm[next] = wired
  <2>1. Active("switch_sp")
    BY <1>1 DEF Active
  <2> QED
    BY <1>1, <2>1 DEF IInv, TypeOK, Registers, SwitchState, Directory
<1>3. thread[next].sp[1] = next /\ thread[next].sp[2] \in 0 .. MaxDepth
  BY <1>2 DEF IInv, Waiting
<1>4. \A t \in Tasks : Depth(t)' = Depth(t)
  <2>1. Depth(running)= sp[2] /\ Depth(next) = thread[next].sp[2]
    BY <1>2 DEF Depth
  <2>2. ASSUME NEW t \in Tasks PROVE Depth(t)' = Depth(t)
    <3>1. CASE t = next
      BY <1>1, <1>2, <2>1, <3>1 DEF Depth
    <3>2. CASE t = running
      BY <1>1, <1>2, <2>1, <3>2 DEF Depth
    <3>3. CASE t \notin {running, next}
      BY <1>1, <1>2, <3>3 DEF Depth
    <3> QED
      BY <3>1, <3>2, <3>3
  <2> QED
    BY <2>2
<1>5. \A t \in Tasks : \A n \in 1 .. Depth(t) : stack[t][n].pc \notin SwitchPlaces
  BY <1>1, NoSwitch
<1>6. \A p \in SwitchPlaces : ~Interrupted(p)'
  <2>1. Depth(running)' = Depth(next)
    BY <1>1, <1>2, <1>4
  <2> QED
    BY <1>1, <1>2, <1>5, <2>1 DEF Interrupted
<1>7. TypeOK'
  <2>1. sp' \in StackPointers /\ lr' \in Places
    BY <1>1, <1>2 DEF IInv, TypeOK
  <2>2. pc' \in Places
    BY <1>1 DEF Places
  <2> QED
    BY <1>1, <1>2, <2>1, <2>2 DEF IInv, TypeOK
<1>8. Frames'
  BY <1>1, <1>4, FramesKept
<1>9. Registers'
  <2>1. /\ pc' \notin HandlerPlaces /\ pc' \notin {"rfe", "fault", "set_mm"}
        /\ pc' # "user" /\ pc' # "none"
    BY <1>1 DEF HandlerPlaces
  <2> QED
    BY <1>1, <1>2, <1>3, <1>6, <2>1 DEF Registers
<1>10. Waiting'
  <2> SUFFICES ASSUME NEW t \in Tasks \ {next}
      PROVE  /\ thread[t].lr \in Resumes \cup {"none"}
             /\ thread[t].sp[1] = t /\ thread[t].sp[2] \in 0 .. MaxDepth
             /\ thread[t].lr = "none" => thread[t].sp[2] = 0 /\ stack[t][1] = NoFrame
             /\ \A n \in 1 .. Depth(t) : stack[t][n].pc \notin SwitchPlaces
    BY <1>1, <1>4 DEF Waiting
  <2>1. CASE t = running
    BY <1>2, <1>5, <2>1 DEF Resumes
  <2>2. CASE t # running
    BY <2>2 DEF IInv, Waiting
  <2> QED
    BY <2>1, <2>2
<1>11. /\ ~Active("switch_mm")' /\ ~Active("set_mm")' /\ ~Active("switch_to")'
       /\ ~Active("switch_sp")' /\ Active("finish")'
  BY <1>1, <1>6 DEF SwitchPlaces, Active
<1>12. SwitchState'
  <2>1. \A n \in 1 .. Depth(running)' : stack'[running'][n].pc # "switch_sp"
    <3>1. ~Interrupted("switch_sp")'
      BY <1>6 DEF SwitchPlaces
    <3> QED
      BY <3>1 DEF Interrupted
  <2> QED
    BY <1>1, <1>2, <1>11, <2>1 DEF SwitchState
<1>13. Directory'
  <2>1. scratch3 = wired \/ (scratch3 = Null /\ wired = Idle)
    BY <1>1 DEF IInv, Directory
  <2>2. \A t \in Tasks : mm[t] # Null => activeMm[t] = mm[t]
    BY DEF IInv, Directory
  <2> QED
    BY <1>1, <1>2, <1>11, <2>1, <2>2 DEF Directory
<1> QED
  BY <1>1, <1>7, <1>8, <1>9, <1>10, <1>12, <1>13 DEF IInv

-----------------------------------------------------------------------------
(* The rest of the kernel. *)

\* In task code nothing of a switch is under way.
LEMMA InTask ==
    ASSUME IInv, pc = "task"
    PROVE  /\ running \in Tasks /\ ~user /\ tp = running /\ scratch2 = running
           /\ scratch1 = Null /\ sp[1] = running /\ sp[2] \in 0 .. MaxDepth
           /\ Depth(running) = sp[2]
           /\ activeMm[running] = wired
           /\ scratch3 = wired \/ (scratch3 = Null /\ wired = Idle)
           /\ \A p \in SwitchPlaces : ~Active(p)
<1>1. \A p \in SwitchPlaces : ~Active(p)
  BY Alone DEF HandlerPlaces, SwitchPlaces
<1>2. ~Active("switch_sp") /\ \A p \in SwitchPlaces \ {"finish"} : ~Active(p)
  BY <1>1 DEF SwitchPlaces
<1>3. activeMm[running] = wired
  BY <1>2 DEF IInv, Directory
<1>4. /\ ~user /\ tp = scratch2 /\ scratch1 = Null
      /\ sp[1] = running /\ sp[2] \in 0 .. MaxDepth
  BY DEF IInv, Registers
<1>5. scratch2 = running
  BY <1>2 DEF IInv, SwitchState
<1> QED
  BY <1>1, <1>3, <1>4, <1>5 DEF IInv, TypeOK, Directory, Depth

\* vmalloc fills the kernel's page directory.
LEMMA KernelMapInv ==
    ASSUME IInv, pmd_populate_kernel
    PROVE  IInv'
<1>1. TypeOK'
  BY DEF IInv, TypeOK, pmd_populate_kernel, cpu, scratch, switching, history
<1>2. Aside
  BY DEF Aside, Quiet, pmd_populate_kernel, cpu, scratch, switching, history
<1>3. pc' # "fault" /\ (mapped[Idle] => mapped'[Idle])
  BY DEF pmd_populate_kernel, cpu
<1>4. /\ contexts' = stack' /\ Frames' /\ Waiting' /\ SwitchState' /\ Directory'
      /\ \A p : Interrupted(p)' <=> Interrupted(p)
  BY <1>2, <1>3, AsideKeeps
<1>5. Registers'
  BY <1>4 DEF IInv, Registers, pmd_populate_kernel, cpu, scratch, history, frame
<1> QED
  BY <1>1, <1>4, <1>5 DEF IInv

\* The kernel has started and enables interrupts.
LEMMA IrqEnableInv ==
    ASSUME IInv, local_irq_enable
    PROVE  IInv'
<1>1. TypeOK'
  BY DEF IInv, TypeOK, local_irq_enable, scratch, memory, switching, history,
         arch_local_irq_enable, arch_local_irq_restore
<1>2. Aside
  BY DEF Aside, Quiet, local_irq_enable, scratch, memory, switching, history
<1>3. pc' # "fault" /\ (mapped[Idle] => mapped'[Idle])
  BY DEF local_irq_enable, memory
<1>4. /\ contexts' = stack' /\ Frames' /\ Waiting' /\ SwitchState' /\ Directory'
      /\ \A p : Interrupted(p)' <=> Interrupted(p)
  BY <1>2, <1>3, AsideKeeps
<1>5. Registers'
  BY <1>4 DEF IInv, Registers, local_irq_enable, scratch, history, frame, HandlerPlaces
<1> QED
  BY <1>1, <1>4, <1>5 DEF IInv

\* A task c that copy_thread has made: one frame, of user mode or empty, on its
\* own stack.
Created(c) ==
    /\ pc = "task" /\ ~exists(c) /\ contexts' = stack'
    /\ UNCHANGED <<cpu, scratch, wired, switching, running>>
    /\ thread'[c].sp = <<c, 1>> /\ thread'[c].lr \in Resumes
    /\ stack'[c][1].pc \in {"user", "none"}
    /\ stack'[c][1].user <=> stack'[c][1].pc = "user"
    /\ mm'[c] # Null => activeMm'[c] = mm'[c]
    /\ \A t \in Tasks \ {c} : /\ stack'[t] = stack[t] /\ thread'[t] = thread[t]
                              /\ mm'[t] = mm[t] /\ activeMm'[t] = activeMm[t]

\* A new task waits as one that has switched away does.
LEMMA CreatedInv ==
    ASSUME IInv, TypeOK', NEW c \in Tasks, Created(c)
    PROVE  IInv'
<1>1. /\ pc = "task" /\ c # running /\ contexts' = stack'
      /\ UNCHANGED <<pc, sp, tp, user, irq, oldUser, oldIrq, scratch1, scratch2, scratch3,
                     wired, prev, next, lr, flags, running>>
  BY DEF Created, exists, cpu, scratch, switching
<1>2. /\ running \in Tasks /\ ~user /\ scratch1 = Null /\ sp[1] = running
      /\ sp[2] \in 0 .. MaxDepth /\ tp = running /\ scratch2 = running
      /\ activeMm[running] = wired
      /\ scratch3 = wired \/ (scratch3 = Null /\ wired = Idle)
      /\ \A p \in SwitchPlaces : ~Active(p)
  BY <1>1, InTask
<1>3. /\ Depth(c)' = 1
      /\ \A t \in Tasks \ {c} : Depth(t)' = Depth(t) /\ stack'[t] = stack[t]
  BY <1>1 DEF Depth, Created
<1>4. /\ Depth(running)' = Depth(running) /\ stack'[running] = stack[running]
      /\ activeMm'[running] = activeMm[running]
  BY <1>1, <1>2, <1>3 DEF Created
<1>5. \A p : Interrupted(p)' <=> Interrupted(p)
  BY <1>1, <1>4 DEF Interrupted
<1>6. \A p \in SwitchPlaces : ~Active(p)'
  BY <1>1, <1>2, <1>5 DEF Active
<1>7. Frames'
  <2>1. ASSUME NEW t \in Tasks \ {c}, NEW n \in 1 .. Depth(t)
        PROVE  FrameFits(t, n)'
    <3>1. FrameFits(t, n) /\ stack'[t] = stack[t] /\ next' = next
      BY <1>1, <1>3 DEF IInv, Frames
    <3> QED
      BY <3>1 DEF FrameFits, Switching
  <2>2. ASSUME NEW n \in 1 .. 1
        PROVE  FrameFits(c, n)'
    <3>1. n = 1 /\ 1 .. (n - 1) = {}
      OBVIOUS
    <3> QED
      BY <3>1 DEF FrameFits, Created, HandlerPlaces
  <2> QED
    BY <1>3, <2>1, <2>2 DEF Frames
<1>8. Registers'
  BY <1>1, <1>2, <1>5 DEF IInv, Registers, HandlerPlaces
<1>9. Waiting'
  <2> SUFFICES ASSUME NEW t \in Tasks \ {running}
      PROVE  /\ thread'[t].lr \in Resumes \cup {"none"}
             /\ thread'[t].sp[1] = t /\ thread'[t].sp[2] \in 0 .. MaxDepth
             /\ thread'[t].lr = "none" => thread'[t].sp[2] = 0 /\ stack'[t][1] = NoFrame
             /\ \A n \in 1 .. Depth(t)' : stack'[t][n].pc \notin SwitchPlaces
    BY <1>1 DEF Waiting
  <2>1. CASE t = c
    BY <1>3, <2>1 DEF Created, Resumes, SwitchPlaces
  <2>2. CASE t # c
    <3>1. thread'[t] = thread[t] /\ stack'[t] = stack[t] /\ Depth(t)' = Depth(t)
      BY <1>3, <2>2 DEF Created
    <3> QED
      BY <3>1 DEF IInv, Waiting
  <2> QED
    BY <2>1, <2>2
<1>10. /\ ~Active("switch_mm")' /\ ~Active("set_mm")' /\ ~Active("switch_to")'
       /\ ~Active("switch_sp")' /\ ~Active("finish")'
  BY <1>6 DEF SwitchPlaces
<1>11. SwitchState'
  <2>1. \A n \in 1 .. Depth(running)' : stack'[running'][n].pc # "switch_sp"
    BY <1>10 DEF Active, Interrupted
  <2> QED
    BY <1>1, <1>2, <1>10, <2>1 DEF SwitchState
<1>12. Directory'
  <2>1. \A t \in Tasks : mm'[t] # Null => activeMm'[t] = mm'[t]
    BY DEF IInv, Directory, Created
  <2> QED
    BY <1>1, <1>2, <1>4, <1>10, <2>1 DEF Directory
<1> QED
  BY <1>1, <1>7, <1>8, <1>9, <1>11, <1>12 DEF IInv

\* A kernel thread has an empty frame.
LEMMA KernelThreadInv ==
    ASSUME IInv, kernel_thread
    PROVE  IInv'
<1>1. PICK c \in Tasks :
        /\ ~exists(c)
        /\ thread' = [thread EXCEPT ![c] = [sp |-> <<c, 1>>, lr |-> "task"]]
  BY DEF kernel_thread
<1>2. /\ pc = "task" /\ contexts' = stack'
      /\ UNCHANGED <<cpu, scratch, wired, mapped, mm, activeMm, stack, contexts, work,
                     switching, running>>
  BY DEF IInv, kernel_thread, memory, history
<1>3. [sp |-> <<c, 1>>, lr |-> "task"] \in [sp : StackPointers, lr : Places]
  <2>1. <<c, 1>> \in StackPointers
    BY StackPointer
  <2> QED
    BY <2>1 DEF Places
<1>4. TypeOK'
  <2>1. thread' \in [Tasks -> [sp : StackPointers, lr : Places]]
    BY <1>1, <1>3 DEF IInv, TypeOK
  <2> QED
    BY <1>2, <2>1 DEF IInv, TypeOK, cpu, scratch, switching
<1>5. stack[c][1] = NoFrame
  BY <1>1 DEF IInv, Waiting, exists
<1>6. thread'[c].sp = <<c, 1>> /\ thread'[c].lr = "task"
      /\ \A t \in Tasks \ {c} : thread'[t] = thread[t]
  BY <1>1 DEF IInv, TypeOK
<1>7. mm'[c] # Null => activeMm'[c] = mm'[c]
  BY <1>2 DEF IInv, Directory
<1>8. stack'[c][1].pc = "none" /\ stack'[c][1].user = FALSE
  BY <1>2, <1>5 DEF NoFrame, Context
<1>9. Created(c)
  BY <1>1, <1>2, <1>6, <1>7, <1>8 DEF Created, Resumes
<1> QED
  BY <1>4, <1>9, CreatedInv

\* What a new program enters is a context of user mode.
LEMMA StartThread ==
    ASSUME NEW t \in Tasks
    PROVE  /\ start_thread(t) \in Contexts
           /\ start_thread(t).pc = "user" /\ start_thread(t).user = TRUE
<1>1. UserSp(t) \in StackPointers /\ UserTp(t) \in StackPointers
  BY StackPointer DEF UserSp, UserTp
<1> QED
  BY <1>1 DEF start_thread, Context, Contexts, Places

\* A forked task has a copy of its parent's frame, a cloned one its own.
LEMMA CopyThreadInv ==
    ASSUME IInv, copy_thread
    PROVE  IInv'
<1>1. /\ pc = "task" /\ sp = <<running, 1>> /\ frame.user
      /\ UNCHANGED <<cpu, scratch, wired, work, switching, running>>
  BY DEF copy_thread
<1>2. PICK c \in Tasks, share \in BOOLEAN :
        LET regs == IF share THEN start_thread(c) ELSE frame
            own == IF share THEN mm[running] ELSE c
        IN  /\ ~exists(c)
            /\ thread' = [thread EXCEPT ![c] = [sp |-> <<c, 1>>, lr |-> "work"]]
            /\ stack' = [stack EXCEPT ![c][1] = regs]
            /\ contexts' = [contexts EXCEPT ![c][1] = regs]
            /\ mm' = [mm EXCEPT ![c] = own]
            /\ activeMm' = [activeMm EXCEPT ![c] = own]
            /\ mapped' = IF share THEN mapped ELSE [mapped EXCEPT ![c] = mapped[Idle]]
  BY DEF copy_thread
<1> DEFINE regs == IF share THEN start_thread(c) ELSE frame
           own == IF share THEN mm[running] ELSE c
<1>3. regs \in Contexts /\ regs.pc = "user" /\ regs.user = TRUE
  <2>1. running \in Tasks /\ Depth(running) = 1
    BY <1>1, InTask
  <2>2. frame = stack[running][1] /\ FrameFits(running, 1)
    BY <1>1, <2>1 DEF IInv, Frames, frame
  <2>3. frame \in Contexts /\ frame.pc = "user" /\ frame.user = TRUE
    <3>1. frame \in Contexts
      <4>1. stack \in [Tasks -> [1 .. MaxDepth -> Contexts]]
        BY DEF IInv, TypeOK
      <4>2. 1 \in 1 .. MaxDepth
        OBVIOUS
      <4> QED
        BY <2>1, <2>2, <4>1, <4>2
    <3>2. frame.user \in BOOLEAN
      BY <3>1 DEF Contexts
    <3>3. frame.pc = "user"
      BY <1>1, <2>2 DEF FrameFits
    <3> QED
      BY <1>1, <3>1, <3>2, <3>3
  <2> QED
    BY <2>3, StartThread
<1>4. own \in {Null} \cup Tasks
  BY DEF IInv, TypeOK
<1>5. /\ ~exists(c)
      /\ thread' = [thread EXCEPT ![c] = [sp |-> <<c, 1>>, lr |-> "work"]]
      /\ stack' = [stack EXCEPT ![c][1] = regs]
      /\ contexts' = stack'
      /\ mm' = [mm EXCEPT ![c] = own]
      /\ activeMm' = [activeMm EXCEPT ![c] = own]
      /\ mapped' = IF share THEN mapped ELSE [mapped EXCEPT ![c] = mapped[Idle]]
  BY <1>2 DEF IInv
<1> HIDE DEF regs, own
<1>6. [sp |-> <<c, 1>>, lr |-> "work"] \in [sp : StackPointers, lr : Places]
  <2>1. <<c, 1>> \in StackPointers
    BY StackPointer
  <2> QED
    BY <2>1 DEF Places
<1>7. TypeOK'
  <2>1. thread' \in [Tasks -> [sp : StackPointers, lr : Places]]
    BY <1>5, <1>6 DEF IInv, TypeOK
  <2>2. stack' \in [Tasks -> [1 .. MaxDepth -> Contexts]]
    BY <1>3, <1>5 DEF IInv, TypeOK
  <2>3. /\ mm' \in [Tasks -> {Null} \cup Tasks]
        /\ activeMm' \in [Tasks -> {Null} \cup Tasks]
    BY <1>4, <1>5 DEF IInv, TypeOK
  <2>4. mapped' \in [Tasks -> BOOLEAN]
    BY <1>5 DEF IInv, TypeOK
  <2> QED
    BY <1>1, <1>5, <2>1, <2>2, <2>3, <2>4 DEF IInv, TypeOK, cpu, scratch, switching
<1>8. /\ thread'[c].sp = <<c, 1>> /\ thread'[c].lr = "work"
      /\ stack'[c][1] = regs /\ mm'[c] = own /\ activeMm'[c] = own
      /\ \A t \in Tasks \ {c} : /\ stack'[t] = stack[t] /\ thread'[t] = thread[t]
                                /\ mm'[t] = mm[t] /\ activeMm'[t] = activeMm[t]
  BY <1>3, <1>5 DEF IInv, TypeOK
<1>9. Created(c)
  BY <1>1, <1>3, <1>5, <1>8 DEF Created, Resumes
<1> QED
  BY <1>7, <1>9, CreatedInv

\* exec replaces the frame of the task itself, and calls switch_mm in it.
LEMMA ExecInv ==
    ASSUME IInv, exec
    PROVE  IInv'
<1>1. /\ pc = "task" /\ pc \notin HandlerPlaces /\ sp = <<running, 1>>
      /\ \A t \in Tasks : running # mm[t] /\ running # activeMm[t]
      /\ mm' = [mm EXCEPT ![running] = running]
      /\ activeMm' = [activeMm EXCEPT ![running] = running]
      /\ mapped' = [mapped EXCEPT ![running] = mapped[Idle]]
      /\ stack' = [stack EXCEPT ![running][1] = start_thread(running)]
      /\ contexts' = stack'
      /\ prev' = activeMm[running] /\ next' = running /\ pc' = "switch_mm"
      /\ UNCHANGED <<sp, tp, user, irq, oldUser, oldIrq, scratch1, scratch2, scratch3,
                     wired, thread, work, lr, flags, running>>
  BY DEF exec, HandlerPlaces, scratch, IInv
<1>2. /\ running \in Tasks /\ ~user /\ tp = running /\ scratch2 = running
      /\ scratch1 = Null /\ Depth(running) = 1 /\ activeMm[running] = wired
      /\ scratch3 = wired \/ (scratch3 = Null /\ wired = Idle)
  BY <1>1, InTask
<1>3. /\ start_thread(running) \in Contexts
      /\ start_thread(running).pc = "user" /\ start_thread(running).user = TRUE
  BY <1>2, StartThread
<1>4. /\ stack' \in [Tasks -> [1 .. MaxDepth -> Contexts]]
      /\ stack'[running][1] = start_thread(running)
      /\ \A t \in Tasks \ {running} : stack'[t] = stack[t]
  <2>1. stack \in [Tasks -> [1 .. MaxDepth -> Contexts]] /\ 1 \in 1 .. MaxDepth
    BY DEF IInv, TypeOK
  <2> QED
    BY <1>1, <1>2, <1>3, <2>1
<1>5. /\ \A t \in Tasks : Depth(t)' = Depth(t)
      /\ Depth(running)' = 1
  BY <1>1, <1>2 DEF Depth
<1>6. TypeOK'
  <2>1. prev' \in Tasks /\ next' \in Tasks /\ pc' \in Places
    BY <1>1, <1>2 DEF IInv, TypeOK, Places
  <2>2. /\ mm' \in [Tasks -> {Null} \cup Tasks]
        /\ activeMm' \in [Tasks -> {Null} \cup Tasks]
        /\ mapped' \in [Tasks -> BOOLEAN]
    BY <1>1, <1>2 DEF IInv, TypeOK
  <2> QED
    BY <1>1, <1>4, <2>1, <2>2 DEF IInv, TypeOK
<1>7. Frames'
  <2>1. ASSUME NEW t \in Tasks \ {running}, NEW n \in 1 .. Depth(t)
        PROVE  FrameFits(t, n)'
    <3>1. FrameFits(t, n) /\ ~Switching(t, n) /\ stack'[t] = stack[t]
      BY <1>1, <1>4, NoSwitch DEF IInv, Frames
    <3>2. ~Switching(t, n)'
      BY <3>1 DEF Switching
    <3> QED
      BY <3>1, <3>2 DEF FrameFits
  <2>2. ASSUME NEW n \in 1 .. 1
        PROVE  FrameFits(running, n)'
    <3>1. n = 1 /\ 1 .. (n - 1) = {} /\ running' = running
      BY <1>1
    <3> QED
      BY <1>3, <1>4, <3>1 DEF FrameFits, HandlerPlaces
  <2> QED
    BY <1>1, <1>5, <2>1, <2>2 DEF Frames
<1>8. \A p \in SwitchPlaces : ~Interrupted(p)'
  BY <1>1, <1>3, <1>4, <1>5 DEF Interrupted, SwitchPlaces
<1>9. Registers'
  BY <1>1, <1>2, <1>8 DEF IInv, Registers, HandlerPlaces
<1>10. Waiting'
  <2>1. \A t \in Tasks \ {running} :
          thread'[t] = thread[t] /\ stack'[t] = stack[t] /\ Depth(t)' = Depth(t)
    BY <1>1, <1>4, <1>5
  <2> QED
    BY <1>1, <2>1 DEF IInv, Waiting
<1>11. /\ Active("switch_mm")' /\ ~Active("set_mm")' /\ ~Active("switch_to")'
       /\ ~Active("switch_sp")' /\ ~Active("finish")'
  BY <1>1, <1>8 DEF Active, SwitchPlaces
<1>12. SwitchState'
  <2>1. \A n \in 1 .. Depth(running)' : stack'[running'][n].pc # "switch_sp"
    BY <1>11 DEF Active, Interrupted
  <2>2. prev' # mm'[next'] /\ next' = running'
    BY <1>1, <1>2 DEF IInv, TypeOK
  <2>3. pc' # "switch_sp"
    BY <1>1
  <2> QED
    BY <1>1, <1>2, <1>11, <2>1, <2>2, <2>3 DEF SwitchState
<1>13. Directory'
  <2>1. \A t \in Tasks : mm'[t] # Null => activeMm'[t] = mm'[t]
    BY <1>1, <1>2 DEF IInv, TypeOK, Directory
  <2>2. prev' = wired /\ mm'[next'] # Null
    BY <1>1, <1>2 DEF IInv, TypeOK
  <2>3. ~(\A p \in SwitchPlaces \ {"finish"} : ~Active(p)')
    BY <1>11 DEF SwitchPlaces
  <2> QED
    BY <1>1, <1>2, <1>11, <2>1, <2>2, <2>3 DEF Directory
<1> QED
  BY <1>1, <1>6, <1>7, <1>9, <1>10, <1>12, <1>13 DEF IInv

-----------------------------------------------------------------------------
(* The theorems. *)

\* The invariant is inductive.
LEMMA NextInv ==
    ASSUME IInv, [Next]_vars
    PROVE  IInv'
<1>1. CASE Trap
  BY <1>1, TrapInv
<1>2. CASE Handler
  BY <1>2, HandlerInv
<1>3. CASE Return
  BY <1>3, ReturnInv, RfeInv DEF Return
<1>4. CASE Switch
  BY <1>4, ScheduleInv, SwitchStepInv, SwitchToInv, SwitchSpInv DEF Switch
<1>5. CASE Kernel
  BY <1>5, KernelMapInv, IrqEnableInv, KernelThreadInv, CopyThreadInv, ExecInv DEF
      Kernel
<1>6. CASE UNCHANGED vars
  <2>1. UNCHANGED <<pc, sp, tp, user, irq, oldUser, oldIrq, scratch1, scratch2, scratch3,
                    wired, mapped, mm, activeMm, stack, thread, work, prev, next, lr,
                    flags, running, contexts>>
    BY <1>6 DEF vars, cpu, scratch, memory, switching, history
  <2>2. /\ \A t \in Tasks : Depth(t)' = Depth(t)
        /\ \A p : Interrupted(p)' <=> Interrupted(p)
    BY <2>1, StacksKept
  <2>3. TypeOK' /\ contexts' = stack' /\ Frames' /\ Waiting'
    BY <2>1, <2>2, QuietKeeps DEF IInv, TypeOK, Quiet
  <2>4. Aside /\ (pc' = "fault" => pc = "fault") /\ (mapped[Idle] => mapped'[Idle])
    BY <2>1 DEF Aside, Quiet
  <2>5. SwitchState' /\ Directory'
    BY <2>4, AsideKeeps
  <2>6. Registers'
    BY <2>1, <2>2 DEF IInv, Registers, frame
  <2> QED
    BY <2>3, <2>5, <2>6 DEF IInv
<1> QED
  BY <1>1, <1>2, <1>3, <1>4, <1>5, <1>6 DEF Next

\* In every reachable state the frames on the kernel stacks lead back to user
\* mode and the registers fit the place the CPU is at, whatever was interrupted.
THEOREM Invariance == Spec => []IInv
<1>1. Init => IInv
  BY InitInv
<1>2. IInv /\ [Next]_vars => IInv'
  BY NextInv
<1> QED
  BY <1>1, <1>2, PTL DEF Spec

\* The variables keep their types.
THEOREM TypeCorrect == Spec => []TypeOK
<1>1. IInv => TypeOK
  BY DEF IInv
<1> QED
  BY <1>1, Invariance, PTL

\* trap_entry's choice by scratch1 is right at any instruction: in user mode it
\* takes the running task's stack, in kernel mode it stays on the one in use.
THEOREM EntryPrepared == Spec => []KernelEntryPrepared
<1>1. IInv => KernelEntryPrepared
  <2> SUFFICES ASSUME IInv PROVE KernelEntryPrepared
    OBVIOUS
  <2>1. user => scratch1 = <<running, 0>>
    BY DEF IInv, Registers
  <2>2. ~user => scratch1 = Null /\ sp[1] = running
    BY DEF IInv, Registers
  <2>3. ASSUME user PROVE scratch2 = running
    <3>1. pc \notin HandlerPlaces /\ pc # "switch_sp"
      BY <2>3 DEF IInv, Registers, HandlerPlaces
    <3>2. ~Active("switch_sp")
      BY <3>1, Alone DEF SwitchPlaces
    <3> QED
      BY <3>2 DEF IInv, SwitchState
  <2> QED
    BY <2>1, <2>2, <2>3 DEF KernelEntryPrepared
<1> QED
  BY <1>1, Invariance, PTL

\* Kernel code runs on the stack of `current` and with its page directory, but
\* for code that interrupted __switch_to.
THEOREM OwnsCpu == Spec => []CurrentOwnsCpu
<1>1. IInv => CurrentOwnsCpu
  <2> SUFFICES ASSUME IInv, ~user, pc \in {"task", "work", "exit", "ret"}
               PROVE  \/ sp[1] = tp /\ (pc = "task" => activeMm[tp] = wired)
                      \/ \E n \in 1 .. sp[2] : stack[sp[1]][n].pc = "switch_sp"
    BY DEF CurrentOwnsCpu
  <2>1. tp = scratch2 /\ sp[1] = running /\ Depth(running) = sp[2]
    BY DEF IInv, Registers, Depth
  <2>2. CASE Active("switch_sp")
    BY <2>1, <2>2 DEF Active, Interrupted
  <2>3. CASE ~Active("switch_sp")
    <3>1. scratch2 = running
      BY <2>3 DEF IInv, SwitchState
    <3>2. pc = "task" => activeMm[running] = wired
      BY InTask
    <3> QED
      BY <2>1, <3>1, <3>2
  <2> QED
    BY <2>2, <2>3
<1> QED
  BY <1>1, Invariance, PTL

\* A trap is invisible to what it interrupts: rfe enters the context that was
\* trapped.
THEOREM TrapsInvisible == Spec => ResumesWhatWasTrapped
<1>1. IInv /\ rfe => Context(pc', sp', tp', user', irq') = contexts[running][sp[2]]
  <2> SUFFICES ASSUME IInv, rfe
               PROVE  Context(pc', sp', tp', user', irq') = contexts[running][sp[2]]
    OBVIOUS
  <2>1. pc = "rfe" /\ pc \in HandlerPlaces
    BY DEF rfe, HandlerPlaces
  <2>2. ~user /\ frame = stack[running][sp[2]] /\ frame \in Contexts
    BY <2>1, HandlerFrame
  <2>3. contexts[running][sp[2]] = frame
    BY <2>2 DEF IInv
  <2>4. /\ pc' = frame.pc /\ sp' = frame.sp /\ tp' = frame.tp
        /\ user' = frame.user /\ irq' = frame.irq
    BY <2>1 DEF IInv, Registers, rfe
  <2>5. frame = [pc |-> frame.pc, sp |-> frame.sp, tp |-> frame.tp,
                 user |-> frame.user, irq |-> frame.irq]
    BY <2>2 DEF Contexts
  <2> QED
    BY <2>3, <2>4, <2>5 DEF Context
<1>2. IInv /\ [Next]_vars =>
        [rfe => Context(pc', sp', tp', user', irq') = contexts[running][sp[2]]]_vars
  BY <1>1
<1> QED
  BY <1>2, Invariance, PTL DEF Spec, ResumesWhatWasTrapped

\* vmalloc_fault completes the page directory the CPU walks, in the middle of a
\* switch as well, where it is not the one of the current task's active mm.
THEOREM FaultRepairs == Spec => VmallocFaultRepairs
<1>1. IInv /\ vmalloc_fault => mapped' = [mapped EXCEPT ![wired] = TRUE]
  <2> SUFFICES ASSUME IInv, vmalloc_fault
               PROVE  mapped' = [mapped EXCEPT ![wired] = TRUE]
    OBVIOUS
  <2>1. scratch3 = wired /\ scratch3 # Null /\ mapped[Idle] = TRUE
    <3>1. pc = "fault"
      BY DEF vmalloc_fault
    <3>2. mapped[Idle] \in BOOLEAN
      BY DEF IInv, TypeOK
    <3> QED
      BY <3>1, <3>2 DEF IInv, Directory
  <2> QED
    BY <2>1 DEF vmalloc_fault
<1>2. IInv /\ [Next]_vars =>
        [vmalloc_fault => mapped' = [mapped EXCEPT ![wired] = TRUE]]_vars
  BY <1>1
<1> QED
  BY <1>2, Invariance, PTL DEF Spec, VmallocFaultRepairs

=============================================================================
