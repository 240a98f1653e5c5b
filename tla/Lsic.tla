-------------------------------- MODULE Lsic --------------------------------
(* The interrupt path of the kernel port's drivers on its one CPU: the LSIC
   (irq-xrarch-lsic.c in src/patches/linux/jinx-working-patch.patch) latches
   interrupts, lsic_handle_irq claims them one by one and the fasteoi flow
   completes each; spin_lock_irqsave keeps interrupts off, which on one CPU
   without preemption is all that a lock does.

   The hardware is what the driver relies on: a device's interrupt stays pending
   until it is claimed, one raised while it is being handled is pending again,
   and the CPU is interrupted while an unmasked one is pending. *)
EXTENDS Integers

CONSTANTS Irqs,   \* the hardware interrupts of the devices modelled
          NoIrq   \* CLAIM reads 0; no code is in a critical section

VARIABLES pend,      \* the pending interrupts (PEND)
          disa,      \* the masked interrupts (DISA)
          claimed,   \* the interrupt being handled
          handling,  \* lsic_handle_irq is running
          irqOn,     \* RS_I of the CPU
          owner      \* the task code between spin_lock_irqsave and its unlock

lsic == <<pend, disa, claimed, handling, irqOn, owner>>

\* lsic_init: everything masked, nothing pending.
LsicInit ==
    /\ pend = {} /\ disa = Irqs
    /\ claimed = NoIrq /\ handling = FALSE
    /\ irqOn = TRUE /\ owner = NoIrq

Raise(h) == pend' = pend \cup {h}

\* lsic_irq_set_masked, called with the descriptor's lock held: the
\* read-modify-write of DISA is not interrupted.
lsic_irq_set_masked(h, masked) ==
    disa' = IF masked THEN disa \cup {h} ELSE disa \ {h}

\* Code of a task may run: no handler does, and no other task is between
\* spin_lock_irqsave and its unlock.
TaskRuns(code) == ~handling /\ owner \in {NoIrq, code}

\* Mutant: interrupts stay on.
spin_lock_irqs_on(code) ==
    /\ TaskRuns(code)
    /\ owner' = code
    /\ UNCHANGED <<pend, disa, claimed, handling, irqOn>>

spin_lock_irqsave(code) ==
    /\ TaskRuns(code)
    /\ owner' = code /\ irqOn' = FALSE
    /\ UNCHANGED <<pend, disa, claimed, handling>>

spin_unlock_irqrestore ==
    /\ owner' = NoIrq /\ irqOn' = TRUE
    /\ UNCHANGED <<pend, disa, claimed, handling>>

\* The CPU takes the interrupt and the chained handler starts.
EnterHandler ==
    /\ irqOn /\ ~handling
    /\ pend \ disa # {}
    /\ handling' = TRUE /\ irqOn' = FALSE
    /\ UNCHANGED <<pend, disa, claimed, owner>>

\* lsic_handle_irq: one turn of its loop reads CLAIM, ...
Claim ==
    /\ handling /\ claimed = NoIrq
    /\ \E h \in pend \ disa :
          /\ claimed' = h
          /\ pend' = pend \ {h}
    /\ UNCHANGED <<disa, handling, irqOn, owner>>

\* ... the flow handler ends a turn with lsic_irq_eoi, ...
lsic_irq_eoi ==
    /\ claimed' = NoIrq
    /\ UNCHANGED <<pend, disa, handling, irqOn, owner>>

\* ... and CLAIM reads 0: back to the interrupted code, interrupts on again.
ExitHandler ==
    /\ handling /\ claimed = NoIrq
    /\ pend \ disa = {}
    /\ handling' = FALSE /\ irqOn' = TRUE
    /\ UNCHANGED <<pend, disa, claimed, owner>>

LsicNext == EnterHandler \/ Claim \/ ExitHandler

=============================================================================
