-------------------------------- MODULE Amtsu -------------------------------
(* The AMTSU bus (drivers/amtsu/amtsu.c) and the keyboards on it (aisa-kbd.c) of
   the kernel port: all devices share one set of registers, a device is selected
   before it gets a command, and the driver remembers what is selected. The probe
   sets the keyboards up one after the other while those that are ready already
   interrupt it. The bus and its devices are external: a command goes to the
   device selected when it is written; a keyboard queues scancodes, hands them out
   one by one and interrupts at each if its interrupt is enabled. *)
EXTENDS Lsic, Sequences

CONSTANTS Keyboards,     \* bound: the slots 0 .. n - 1 the probe looks at
          Present,       \* those that hold a keyboard
          Scancodes,
          Keys,          \* bound: slot -> what each key since its RESET may be
          KbdIrq         \* slot -> its interrupt

ASSUME AmtsuAssumption ==
    /\ \A i \in Keyboards : i \in Nat /\ (i = 0 \/ i - 1 \in Keyboards)
    /\ Present \subseteq Keyboards
    /\ Keys \in [Keyboards -> Seq(SUBSET Scancodes)]
    /\ KbdIrq \in [Keyboards -> Irqs]

VARIABLES
    selected,            \* ctrl->selected
    hwSel,               \* the controller: SELECT
    fifo, enabled,       \* the keyboards: scancodes queued, interrupt enabled
    kpc, slot,           \* the probe: where, at which slot
    reported,            \* input events, in order
    pressed              \* history: scancodes since the keyboard's RESET

bus == <<selected, hwSel>>
keyboards == <<fifo, enabled, reported, pressed>>
places == <<kpc, slot>>
amtsuVars == <<bus, keyboards, places>>

CTRL == -1

\* amtsu_ctrl_probe up to the discovery: the controller is selected, interrupts
\* are disabled and the devices reset.
AmtsuInit ==
    /\ selected = CTRL /\ hwSel = CTRL
    /\ fifo = [k \in Keyboards |-> <<>>]
    /\ enabled = [k \in Keyboards |-> FALSE]
    /\ kpc = "discover" /\ slot = 0
    /\ reported = [k \in Keyboards |-> <<>>]
    /\ pressed = [k \in Keyboards |-> <<>>]

\* amtsu_ctrl_select: the register is written only if the driver believes
\* something else is selected.
amtsu_ctrl_select(i) ==
    /\ hwSel' = IF selected = i THEN hwSel ELSE i
    /\ selected' = i

-----------------------------------------------------------------------------
\* A key of a keyboard is pressed or released.
Key(k) ==
    /\ Len(reported[k]) + Len(fifo[k]) < Len(Keys[k])
    /\ \E c \in Keys[k][Len(reported[k]) + Len(fifo[k]) + 1] :
          /\ fifo' = [fifo EXCEPT ![k] = Append(@, c)]
          /\ pressed' = [pressed EXCEPT ![k] = Append(@, c)]
    /\ IF enabled[k] THEN Raise(KbdIrq[k]) ELSE UNCHANGED pend
    /\ UNCHANGED <<bus, enabled, reported, places, disa, claimed, handling, irqOn,
                   owner>>

-----------------------------------------------------------------------------
(* The probe: for each slot the model id is read, then aisa_kbd_probe resets the
   keyboard, requests its interrupt and enables it. Each access is a critical
   section of amtsu.c: the selection, then the command. *)

\* The selection that starts a section: of the slot, or for enable_irq of the
\* controller itself.
Select(p, i, q) ==
    /\ kpc = p /\ slot \in Keyboards
    /\ spin_lock_irqsave("amtsu")
    /\ amtsu_ctrl_select(i)
    /\ kpc' = q
    /\ UNCHANGED <<keyboards, slot>>

SelectToDiscover == Select("discover", slot, "model id")

SelectToReset == Select("probe", slot, "reset")

SelectToEnable == Select("enable", CTRL, "enable irq")

ReadModelId ==
    /\ kpc = "model id" /\ TaskRuns("amtsu")
    /\ spin_unlock_irqrestore
    /\ IF hwSel \in Present THEN kpc' = "probe" /\ UNCHANGED slot
       ELSE kpc' = "discover" /\ slot' = slot + 1
    /\ UNCHANGED <<bus, keyboards>>

\* AISA_KBD_RESET empties the queue of the device that is selected.
KbdReset ==
    /\ kpc = "reset" /\ TaskRuns("amtsu")
    /\ fifo' = [k \in Keyboards |-> IF k = hwSel THEN <<>> ELSE fifo[k]]
    /\ pressed' = [pressed EXCEPT ![slot] = <<>>]
    /\ spin_unlock_irqrestore
    /\ kpc' = "request irq"
    /\ UNCHANGED <<bus, enabled, reported, slot>>

RequestIrq ==
    /\ kpc = "request irq" /\ TaskRuns("amtsu")
    /\ lsic_irq_set_masked(KbdIrq[slot], FALSE)
    /\ kpc' = "enable"
    /\ UNCHANGED <<bus, keyboards, slot, pend, claimed, handling, irqOn, owner>>

EnableIrq ==
    /\ kpc = "enable irq" /\ TaskRuns("amtsu")
    /\ enabled' = IF hwSel = CTRL THEN [enabled EXCEPT ![slot] = TRUE] ELSE enabled
    /\ spin_unlock_irqrestore
    /\ kpc' = "discover" /\ slot' = slot + 1
    /\ UNCHANGED <<bus, fifo, reported, pressed>>

-----------------------------------------------------------------------------
(* aisa_kbd_int: one turn of its loop commands the keyboard to pop a scancode and
   reports it; at the first turn without one the handler is over. Interrupts are
   off from the selection to the answer. *)

\* Mutant: one scancode per interrupt.
aisa_kbd_int_once(k) ==
    /\ claimed = KbdIrq[k]
    /\ amtsu_ctrl_select(k)
    /\ LET queue == IF hwSel' \in Keyboards THEN fifo[hwSel'] ELSE <<>>
       IN  IF queue = <<>> THEN UNCHANGED <<fifo, reported>>
           ELSE /\ fifo' = [fifo EXCEPT ![hwSel'] = Tail(@)]
                /\ reported' = [reported EXCEPT ![k] = Append(@, Head(queue))]
    /\ lsic_irq_eoi
    /\ UNCHANGED <<enabled, pressed, places>>

aisa_kbd_int(k) ==
    /\ claimed = KbdIrq[k]
    /\ amtsu_ctrl_select(k)
    /\ LET queue == IF hwSel' \in Keyboards THEN fifo[hwSel'] ELSE <<>>
       IN  IF queue = <<>>
           THEN lsic_irq_eoi /\ UNCHANGED <<fifo, reported>>
           ELSE /\ fifo' = [fifo EXCEPT ![hwSel'] = Tail(@)]
                /\ reported' = [reported EXCEPT ![k] = Append(@, Head(queue))]
                /\ UNCHANGED lsic
    /\ UNCHANGED <<enabled, pressed, places>>

-----------------------------------------------------------------------------
amtsu_ctrl_probe == SelectToDiscover \/ ReadModelId \/ SelectToReset \/ KbdReset
                    \/ RequestIrq \/ SelectToEnable \/ EnableIrq

AmtsuNext == amtsu_ctrl_probe \/ \E k \in Present : Key(k) \/ aisa_kbd_int(k)

=============================================================================
