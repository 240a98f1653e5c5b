------------------------------ MODULE Drivers -------------------------------
(* The disk driver and the keyboard bus on one CPU and one interrupt controller:
   both probe while their devices interrupt, and the interrupt of one comes in
   the middle of the other's code wherever no lock is held. *)
EXTENDS DiskDriver, Amtsu

\* Interrupts are requested without IRQF_SHARED; the values that stand for none
\* are none.
ASSUME DriversAssumption ==
    /\ \A k, l \in Keyboards : KbdIrq[k] = KbdIrq[l] => k = l
    /\ \A k \in Keyboards : KbdIrq[k] # DiskIrq
    /\ NoIrq \notin Irqs \cup {"queue", "probe", "amtsu"}
    /\ NoRequest \notin Requests

vars == <<lsic, diskVars, amtsuVars>>

Init == LsicInit /\ DiskInit /\ AmtsuInit

Next ==
    \/ LsicNext /\ UNCHANGED <<diskVars, amtsuVars>>
    \/ DiskNext /\ UNCHANGED amtsuVars
    \/ AmtsuNext /\ UNCHANGED diskVars

\* The CPU goes on with what it runs, disks finish their transfers and pending
\* interrupts are claimed. Nobody has to submit requests or press keys.
Fairness ==
    /\ WF_vars(EnterHandler /\ UNCHANGED <<diskVars, amtsuVars>>)
    /\ WF_vars(Claim /\ UNCHANGED <<diskVars, amtsuVars>>)
    /\ WF_vars(ExitHandler /\ UNCHANGED <<diskVars, amtsuVars>>)
    /\ WF_vars(Handle /\ UNCHANGED amtsuVars)
    /\ WF_vars((QueueAddress \/ QueueSubmit) /\ UNCHANGED amtsuVars)
    /\ WF_vars(probe /\ UNCHANGED amtsuVars)
    /\ WF_vars(xrarch_disk_complete /\ UNCHANGED amtsuVars)
    /\ \A d \in Disks : WF_vars(Transfer(d) /\ UNCHANGED amtsuVars)
    /\ WF_vars(amtsu_ctrl_probe /\ UNCHANGED diskVars)
    /\ \A k \in Present : WF_vars(aisa_kbd_int(k) /\ UNCHANGED diskVars)

Spec == Init /\ [][Next]_vars /\ Fairness

-----------------------------------------------------------------------------
\* No completion is ever reported for a disk without a request, no request is put
\* over another, and the interrupt handler follows no pointer of a disk that is absent
\* or was freed, whatever the firmware left in the controller.
CompletionsExpected == ~unexpected

\* A disk gets the size the controller has for it: the answer to INFO is read
\* before a completion of another disk replaces it.
CapacityAsReported ==
    \A d \in Disks : capacity[d] \in {0, Size[d]}

\* Every request that is started ends.
EveryRequestEnds ==
    \A r \in Requests : state[r] = "started" ~> state[r] = "ended"

\* The driver is a block device: each request is served exactly once by its own
\* disk, and ends only then, with the medium's data in its buffer. A request is
\* served when its disk's transfer is over.
InFlight(r) == cur = r \/ \E d \in Disks : op[d].kind \in {"read", "write"} /\ op[d].dest = r

AbstractState(r) ==
    CASE state[r] = "new" -> "new"
      [] state[r] = "started" /\ InFlight(r) -> "submitted"
      [] state[r] = "started" /\ ~InFlight(r) -> "served"
      [] state[r] = "completing" -> "served"
      [] state[r] = "ended" -> "ended"

Device == INSTANCE BlockDevice WITH state <- [r \in Requests |-> AbstractState(r)]

ImplementsBlockDevice == Device!Spec

\* The keys of a keyboard are reported in the order they were pressed, none lost
\* and none of another keyboard, whatever the probe of the next device selects.
KeysArriveInOrder ==
    \A k \in Present :
        reported[k] \o fifo[k] = pressed[k]

\* A keyboard's interrupt empties its queue: no key waits for the next one.
InterruptDrainsQueue ==
    \A k \in Present : KbdIrq[k] \in pend ~> fifo[k] = <<>>

=============================================================================
