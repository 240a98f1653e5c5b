--------------------------- MODULE DriversProofs ---------------------------
(* Proofs about Drivers, for any number of disks, keyboards and requests: the
   safety properties, and that the disk driver implements BlockDevice.

   What makes the drivers right is who may run when: a critical section is the
   only code that runs until it ends (LockInv), so that the registers hold in its
   second step what its first step wrote. For the disks the invariant follows a
   request around: as long as its disk owes an answer it is in one place, on its
   way to the controller, in a transfer, completed or collected, and xreq and the
   disk are there for the handler (DiskInv). *)
EXTENDS TLAPS, Drivers, SequenceTheorems


-----------------------------------------------------------------------------
(* Who may run. *)

InQueue == qpc \in {"address", "submit"}
InProbe == ppc = "add"
InAmtsu == kpc \in {"model id", "reset", "enable irq"}

LockInv ==
    /\ owner \in {NoIrq, "queue", "probe", "amtsu"}
    /\ handling \in BOOLEAN /\ irqOn \in BOOLEAN
    /\ irqOn = (~handling /\ owner = NoIrq)
    /\ handling => owner = NoIrq
    /\ claimed # NoIrq => handling
    /\ owner = "queue" <=> InQueue
    /\ owner = "probe" <=> InProbe
    /\ owner = "amtsu" <=> InAmtsu

LEMMA LockInit == Init => LockInv
BY DriversAssumption DEF Init, LsicInit, DiskInit, AmtsuInit, LockInv, InQueue, InProbe, InAmtsu

LEMMA LockNext == ASSUME LockInv, [Next]_vars PROVE LockInv'
<1> USE DEF LockInv
<1>1. CASE UNCHANGED vars
  BY <1>1 DEF vars, lsic, diskVars, code, amtsuVars, places, InQueue, InProbe, InAmtsu
<1>2. ASSUME LsicNext, UNCHANGED <<diskVars, amtsuVars>> PROVE LockInv'
  <2>1. UNCHANGED <<qpc, ppc, kpc>>
    BY <1>2 DEF diskVars, code, amtsuVars, places
  <2>2. CASE EnterHandler
    BY <2>1, <2>2 DEF EnterHandler, InQueue, InProbe, InAmtsu
  <2>3. CASE Claim
    BY <2>1, <2>3 DEF Claim, InQueue, InProbe, InAmtsu
  <2>4. CASE ExitHandler
    BY <2>1, <2>4 DEF ExitHandler, InQueue, InProbe, InAmtsu
  <2> QED
    BY <1>2, <2>2, <2>3, <2>4 DEF LsicNext
<1>3. ASSUME DiskNext, UNCHANGED amtsuVars PROVE LockInv'
  <2>1. kpc' = kpc
    BY <1>3 DEF amtsuVars, places
  <2> USE <2>1 DEF InQueue, InProbe, InAmtsu
  <2>2. CASE queue_rq
    BY <2>2, DriversAssumption DEF queue_rq, spin_lock_irqsave, TaskRuns
  <2>3. CASE QueueAddress
    BY <2>3 DEF QueueAddress, TaskRuns, lsic
  <2>4. CASE QueueSubmit
    BY <2>4, DriversAssumption DEF QueueSubmit, TaskRuns, spin_unlock_irqrestore
  <2>5. CASE ProbeWait
    BY <2>5 DEF ProbeWait, TaskRuns, lsic
  <2>6. CASE ProbeClear
    BY <2>6 DEF ProbeClear, TaskRuns, lsic
  <2>7. CASE ProbeIrq
    BY <2>7 DEF ProbeIrq, TaskRuns
  <2>8. CASE ProbeInfo
    BY <2>8, DriversAssumption DEF ProbeInfo, TaskRuns, spin_lock_irqsave
  <2>9. CASE ProbeAdd
    BY <2>9, DriversAssumption DEF ProbeAdd, TaskRuns, spin_unlock_irqrestore
  <2>10. CASE IntComplete
    BY <2>10 DEF IntComplete, lsic
  <2>11. CASE IntCollect
    BY <2>11 DEF IntCollect, lsic_irq_eoi
  <2>12. CASE xrarch_disk_complete
    BY <2>12 DEF xrarch_disk_complete, lsic, code
  <2>13. ASSUME NEW d \in Disks, Transfer(d) PROVE LockInv'
    BY <2>13 DEF Transfer, code
  <2> QED
    BY <1>3, <2>2, <2>3, <2>4, <2>5, <2>6, <2>7, <2>8, <2>9, <2>10, <2>11, <2>12, <2>13
       DEF DiskNext, queue, probe, Handle
<1>4. ASSUME AmtsuNext, UNCHANGED diskVars PROVE LockInv'
  <2>1. UNCHANGED <<qpc, ppc>>
    BY <1>4 DEF diskVars, code
  <2> USE <2>1 DEF InQueue, InProbe, InAmtsu
  <2>2. CASE SelectToDiscover
    BY <2>2, DriversAssumption DEF SelectToDiscover, Select, spin_lock_irqsave, TaskRuns
  <2>3. CASE SelectToReset
    BY <2>3, DriversAssumption DEF SelectToReset, Select, spin_lock_irqsave, TaskRuns
  <2>4. CASE SelectToEnable
    BY <2>4, DriversAssumption DEF SelectToEnable, Select, spin_lock_irqsave, TaskRuns
  <2>5. CASE ReadModelId
    BY <2>5, DriversAssumption DEF ReadModelId, spin_unlock_irqrestore, TaskRuns
  <2>6. CASE KbdReset
    BY <2>6, DriversAssumption DEF KbdReset, spin_unlock_irqrestore, TaskRuns
  <2>7. CASE RequestIrq
    BY <2>7 DEF RequestIrq, TaskRuns
  <2>8. CASE EnableIrq
    BY <2>8, DriversAssumption DEF EnableIrq, spin_unlock_irqrestore, TaskRuns
  <2>9. ASSUME NEW k \in Present, Key(k) PROVE LockInv'
    BY <2>9 DEF Key, places
  <2>10. ASSUME NEW k \in Present, aisa_kbd_int(k) PROVE LockInv'
    <3>1. UNCHANGED <<handling, irqOn, owner, kpc>> /\ claimed' \in {claimed, NoIrq}
      BY <2>10 DEF aisa_kbd_int, lsic_irq_eoi, lsic, places
    <3> QED
      BY <3>1
  <2> QED
    BY <1>4, <2>2, <2>3, <2>4, <2>5, <2>6, <2>7, <2>8, <2>9, <2>10
       DEF AmtsuNext, amtsu_ctrl_probe
<1> QED
  BY <1>1, <1>2, <1>3, <1>4 DEF Next

-----------------------------------------------------------------------------
(* The keyboards. *)

KbdPlaces == {"discover", "model id", "probe", "reset", "request irq", "enable",
              "enable irq"}

\* Keyboards whose interrupt has not been requested.
Unprobed(k) ==
    \/ k > slot
    \/ k = slot /\ kpc \notin {"enable", "enable irq"}

KeyTypes ==
    /\ slot \in Nat /\ kpc \in KbdPlaces
    /\ kpc # "discover" => slot \in Keyboards
    /\ fifo \in [Keyboards -> Seq(Scancodes)]
    /\ reported \in [Keyboards -> Seq(Scancodes)]
    /\ pressed \in [Keyboards -> Seq(Scancodes)]

\* What the driver believes is selected, is, and in a section what the section
\* has selected; nothing is reported of a keyboard before its interrupt is
\* unmasked.
KeyInv ==
    /\ KeyTypes
    /\ hwSel = selected
    /\ kpc \in {"model id", "reset"} => selected = slot
    /\ \A k \in Keyboards : Unprobed(k) => KbdIrq[k] \in disa
    /\ \A k \in Keyboards : KbdIrq[k] \in disa =>
                              reported[k] = <<>> /\ claimed # KbdIrq[k]
    /\ KeysArriveInOrder

\* A key that is pressed goes behind the queue and the history.
LEMMA KeyPressed ==
    \A S : \A r, f \in Seq(S), c \in S : r \o Append(f, c) = Append(r \o f, c)
<1> TAKE S
<1> TAKE r, f \in Seq(S), c \in S
<1>1. <<c>> \in Seq(S)
  OBVIOUS
<1>2. Append(f, c) = f \o <<c>>
  BY AppendIsConcat
<1>3. r \o f \in Seq(S)
  BY ConcatProperties
<1>4. Append(r \o f, c) = (r \o f) \o <<c>>
  BY <1>3, AppendIsConcat
<1>5. (r \o f) \o <<c>> = r \o (f \o <<c>>)
  BY <1>1, ConcatAssociative
<1> QED
  BY <1>2, <1>4, <1>5

\* A scancode that is popped goes from the head of the queue to the end of what
\* is reported.
LEMMA KeyPopped ==
    ASSUME NEW S, NEW r \in Seq(S), NEW f \in Seq(S), f # <<>>
    PROVE  Append(r, Head(f)) \o Tail(f) = r \o f
<1>1. /\ Head(f) \in S /\ Tail(f) \in Seq(S) /\ <<Head(f)>> \in Seq(S)
      /\ Len(Tail(f)) = Len(f) - 1
      /\ \A i \in 1 .. Len(Tail(f)) : Tail(f)[i] = f[i + 1]
  BY HeadTailProperties
<1>2. Append(r, Head(f)) = r \o <<Head(f)>>
  BY <1>1, AppendIsConcat
<1>3. (r \o <<Head(f)>>) \o Tail(f) = r \o (<<Head(f)>> \o Tail(f))
  BY <1>1, ConcatAssociative
<1>4. <<Head(f)>> \o Tail(f) = f
  <2> DEFINE g == <<Head(f)>> \o Tail(f)
  <2>1. /\ g \in Seq(S) /\ Len(g) = 1 + Len(Tail(f))
        /\ \A i \in 1 .. 1 + Len(Tail(f)) :
             g[i] = IF i <= 1 THEN <<Head(f)>>[i] ELSE Tail(f)[i - 1]
    BY <1>1, ConcatProperties, Len(<<Head(f)>>) = 1
  <2>2. Len(g) = Len(f)
    BY <1>1, <2>1
  <2>3. ASSUME NEW i \in 1 .. Len(g) PROVE g[i] = f[i]
    <3>1. CASE i = 1
      BY <1>1, <2>1, <2>2, <3>1
    <3>2. CASE i # 1
      <4>1. i - 1 \in 1 .. Len(Tail(f)) /\ ~(i <= 1) /\ (i - 1) + 1 = i
        BY <1>1, <2>2, <3>2
      <4> QED
        BY <1>1, <2>1, <4>1
    <3> QED
      BY <3>1, <3>2
  <2> QED
    BY <2>1, <2>2, <2>3, SeqEqual
<1> QED
  BY <1>2, <1>3, <1>4

LEMMA KeyInit == Init => KeyInv
<1> SUFFICES ASSUME Init PROVE KeyInv
  OBVIOUS
<1>1. <<>> \in Seq(Scancodes) /\ <<>> \o <<>> = <<>>
  OBVIOUS
<1>2. KeyTypes
  BY <1>1 DEF Init, AmtsuInit, KeyTypes, KbdPlaces
<1>3. KeysArriveInOrder
  BY <1>1, AmtsuAssumption, DriversAssumption DEF Init, AmtsuInit, KeysArriveInOrder
<1> QED
  BY <1>2, <1>3, AmtsuAssumption, DriversAssumption DEF Init, AmtsuInit, LsicInit, KeyInv

\* Steps of the disks and of the interrupt controller: they unmask no keyboard
\* and claim no interrupt that is masked.
LEMMA KeyAside ==
    ASSUME KeyInv, UNCHANGED amtsuVars,
           disa' = disa \/ disa' = disa \ {DiskIrq},
           claimed' \in {claimed, NoIrq} \/ claimed' \notin disa
    PROVE  KeyInv'
<1> USE DEF amtsuVars, bus, keyboards, places
<1>1. KeyTypes' /\ KeysArriveInOrder'
  BY DEF KeyInv, KeyTypes, KeysArriveInOrder
<1>2. \A k \in Keyboards : KbdIrq[k] \in disa <=> KbdIrq[k] \in disa'
  BY AmtsuAssumption, DriversAssumption
<1>3. \A k \in Keyboards : KbdIrq[k] # NoIrq
  BY AmtsuAssumption, DriversAssumption
<1> QED
  BY <1>1, <1>2, <1>3 DEF KeyInv, Unprobed

\* The steps of the probe that leave the keyboards alone.
LEMMA KeyProbe ==
    ASSUME KeyInv, UNCHANGED <<fifo, reported, pressed, claimed>>,
           kpc' \in KbdPlaces, slot' \in Nat,
           kpc' # "discover" => slot' \in Keyboards,
           hwSel' = selected', kpc' \in {"model id", "reset"} => selected' = slot',
           disa' \subseteq disa,
           \A k \in Keyboards : Unprobed(k)' =>
               Unprobed(k) /\ (KbdIrq[k] \in disa => KbdIrq[k] \in disa')
    PROVE  KeyInv'
<1>1. KeyTypes'
  <2>1. KeyTypes
    BY DEF KeyInv
  <2> QED
    BY <2>1 DEF KeyTypes
<1>2. KeysArriveInOrder'
  BY DEF KeyInv, KeysArriveInOrder
<1>3. ASSUME NEW k \in Keyboards, Unprobed(k)' PROVE KbdIrq[k] \in disa'
  <2>1. Unprobed(k) /\ (KbdIrq[k] \in disa => KbdIrq[k] \in disa')
    BY <1>3
  <2> QED
    BY <2>1 DEF KeyInv
<1>4. ASSUME NEW k \in Keyboards, KbdIrq[k] \in disa'
      PROVE  reported'[k] = <<>> /\ claimed' # KbdIrq[k]
  <2>1. KbdIrq[k] \in disa
    BY <1>4
  <2> QED
    BY <2>1 DEF KeyInv
<1> QED
  BY <1>1, <1>2, <1>3, <1>4 DEF KeyInv

LEMMA KeyNext ==
    ASSUME LockInv, KeyInv, AmtsuNext
    PROVE  KeyInv'
<1> USE DEF places, keyboards, bus
<1>1. /\ slot \in Nat /\ \A k \in Keyboards : k \in Nat
      /\ KeyTypes /\ hwSel = selected
  BY AmtsuAssumption, DriversAssumption DEF KeyInv, KeyTypes
<1>2. CASE SelectToDiscover \/ SelectToReset \/ SelectToEnable
  <2>1. PICK p \in {"discover", "probe", "enable"}, i \in {slot, CTRL},
             q \in {"model id", "reset", "enable irq"} :
          /\ Select(p, i, q)
          /\ q # "enable irq" => i = slot
          /\ p = "discover" => q = "model id"
          /\ p = "probe" => q = "reset"
          /\ p = "enable" => q = "enable irq"
    BY <1>2 DEF SelectToDiscover, SelectToReset, SelectToEnable
  <2>2. /\ kpc = p /\ slot \in Keyboards /\ kpc' = q
        /\ hwSel' = i /\ selected' = i
        /\ UNCHANGED <<fifo, reported, pressed, slot, disa, claimed>>
    BY <1>1, <2>1 DEF Select, spin_lock_irqsave, amtsu_ctrl_select
  <2>3. \A k \in Keyboards : Unprobed(k)' => Unprobed(k)
    BY <2>1, <2>2 DEF Unprobed
  <2> QED
    BY <1>1, <2>1, <2>2, <2>3, KeyProbe DEF KbdPlaces
<1>3. CASE ReadModelId \/ EnableIrq
  <2>1. /\ UNCHANGED <<selected, hwSel, fifo, reported, pressed, disa, claimed>>
        /\ kpc \in {"model id", "enable irq"}
        /\ \/ kpc' = "probe" /\ slot' = slot /\ kpc = "model id"
           \/ kpc' = "discover" /\ slot' = slot + 1
    BY <1>3 DEF ReadModelId, EnableIrq, spin_unlock_irqrestore
  <2>2. slot' \in Nat
    <3>1. slot' = slot \/ slot' = slot + 1
      BY <2>1
    <3>2. slot \in Nat
      BY <1>1
    <3> QED
      BY <3>1, <3>2
  <2>3. ASSUME NEW k \in Keyboards, Unprobed(k)' PROVE Unprobed(k)
    <3>1. k \in Nat /\ slot \in Nat
      BY <1>1
    <3>2. k > slot' \/ (k = slot' /\ kpc' \notin {"enable", "enable irq"})
      BY <2>3 DEF Unprobed
    <3>3. CASE slot' = slot /\ kpc = "model id"
      BY <3>1, <3>2, <3>3 DEF Unprobed
    <3>4. CASE slot' = slot + 1
      <4>1. k > slot' \/ k = slot'
        BY <3>2
      <4>2. k >= slot'
        BY <2>2, <3>1, <4>1
      <4>3. k > slot
        BY <3>1, <3>4, <4>2
      <4> QED
        BY <4>3 DEF Unprobed
    <3> QED
      BY <2>1, <3>3, <3>4
  <2>4. kpc # "discover" /\ slot \in Keyboards
    BY <1>1, <2>1 DEF KeyTypes
  <2>5. /\ kpc' \in KbdPlaces
        /\ kpc' # "discover" => slot' \in Keyboards
        /\ hwSel' = selected' /\ kpc' \notin {"model id", "reset"}
    BY <1>1, <2>1, <2>4 DEF KbdPlaces
  <2> QED
    BY <2>1, <2>2, <2>3, <2>5, KeyProbe
<1>4. CASE RequestIrq
  <2>1. /\ UNCHANGED <<selected, hwSel, fifo, reported, pressed, slot, claimed>>
        /\ kpc = "request irq" /\ kpc' = "enable"
        /\ disa' = disa \ {KbdIrq[slot]}
    BY <1>4 DEF RequestIrq, lsic_irq_set_masked
  <2>2. slot \in Keyboards
    BY <1>1, <2>1 DEF KeyTypes
  <2>3. ASSUME NEW k \in Keyboards, Unprobed(k)'
        PROVE  Unprobed(k) /\ (KbdIrq[k] \in disa => KbdIrq[k] \in disa')
    <3>1. k \in Nat /\ slot \in Nat
      BY <1>1
    <3>2. k > slot' \/ (k = slot' /\ kpc' \notin {"enable", "enable irq"})
      BY <2>3 DEF Unprobed
    <3>3. slot' = slot /\ kpc' = "enable"
      BY <2>1
    <3>4. k > slot
      BY <3>1, <3>2, <3>3
    <3>5. KbdIrq[k] # KbdIrq[slot]
      BY <2>2, <3>1, <3>4, AmtsuAssumption, DriversAssumption
    <3>6. disa' = disa \ {KbdIrq[slot]}
      BY <2>1
    <3> QED
      BY <3>4, <3>5, <3>6 DEF Unprobed
  <2>4. /\ kpc' \in KbdPlaces /\ slot' \in Nat
        /\ kpc' # "discover" => slot' \in Keyboards
        /\ hwSel' = selected' /\ kpc' \notin {"model id", "reset"}
        /\ disa' \subseteq disa
    BY <1>1, <2>1, <2>2 DEF KbdPlaces
  <2> QED
    BY <2>1, <2>3, <2>4, KeyProbe
<1>5. CASE KbdReset
  <2>1. /\ kpc = "reset" /\ kpc' = "request irq"
        /\ fifo' = [k \in Keyboards |-> IF k = hwSel THEN <<>> ELSE fifo[k]]
        /\ pressed' = [pressed EXCEPT ![slot] = <<>>]
        /\ UNCHANGED <<selected, hwSel, reported, slot, disa, claimed>>
    BY <1>5 DEF KbdReset, spin_unlock_irqrestore
  <2>2. hwSel = slot /\ slot \in Keyboards
    BY <1>1, <2>1 DEF KeyInv, KeyTypes
  <2>3. Unprobed(slot) /\ reported[slot] = <<>>
    BY <2>1, <2>2 DEF KeyInv, Unprobed
  <2>4. <<>> \in Seq(Scancodes) /\ <<>> \o <<>> = <<>>
    OBVIOUS
  <2>5. /\ fifo' \in [Keyboards -> Seq(Scancodes)]
        /\ pressed' \in [Keyboards -> Seq(Scancodes)]
    BY <1>1, <2>1, <2>4 DEF KeyTypes
  <2>6. KeyTypes'
    BY <1>1, <2>1, <2>2, <2>5 DEF KeyTypes, KbdPlaces
  <2>7. KeysArriveInOrder'
    <3> SUFFICES ASSUME NEW k \in Present
                 PROVE  reported[k] \o fifo'[k] = pressed'[k]
      BY <2>1 DEF KeysArriveInOrder
    <3>1. CASE k = slot
      BY <1>1, <2>1, <2>2, <2>3, <2>4, <3>1 DEF KeyTypes
    <3>2. CASE k # slot
      BY <1>1, <2>1, <2>2, <3>2, AmtsuAssumption, DriversAssumption
         DEF KeyInv, KeyTypes, KeysArriveInOrder
    <3> QED
      BY <3>1, <3>2
  <2>8. \A k \in Keyboards : Unprobed(k)' => Unprobed(k)
    BY <2>1 DEF Unprobed
  <2> QED
    BY <2>1, <2>6, <2>7, <2>8 DEF KeyInv
<1>6. ASSUME NEW k \in Present, Key(k) PROVE KeyInv'
  <2>1. PICK c \in Scancodes : /\ fifo' = [fifo EXCEPT ![k] = Append(@, c)]
                               /\ pressed' = [pressed EXCEPT ![k] = Append(@, c)]
    <3> DEFINE a == Len(reported[k])
               b == Len(fifo[k])
               m == Len(Keys[k])
               n == a + b + 1
    <3>1. /\ a + b < m
          /\ \E c \in Keys[k][n] : /\ fifo' = [fifo EXCEPT ![k] = Append(@, c)]
                                  /\ pressed' = [pressed EXCEPT ![k] = Append(@, c)]
      BY <1>6, Zenon DEF Key
    <3>2. k \in Keyboards /\ reported[k] \in Seq(Scancodes) /\ fifo[k] \in Seq(Scancodes)
      BY <1>1, AmtsuAssumption, DriversAssumption DEF KeyTypes
    <3>3. Keys[k] \in Seq(SUBSET Scancodes)
      BY <3>2, AmtsuAssumption
    <3>4. n \in 1 .. m
      <4>1. a \in Nat /\ b \in Nat /\ m \in Nat
        BY <3>2, <3>3, LenProperties
      <4>2. a + b < m
        BY <3>1
      <4> HIDE DEF a, b, m
      <4> QED
        BY <4>1, <4>2
    <3> HIDE DEF n
    <3>5. Keys[k][n] \in SUBSET Scancodes
      BY <3>3, <3>4, ElementOfSeq
    <3> QED
      BY <3>1, <3>5
  <2>2. UNCHANGED <<selected, hwSel, reported, slot, kpc, disa, claimed>>
    BY <1>6 DEF Key
  <2>3. /\ k \in Keyboards /\ c \in Scancodes
        /\ fifo[k] \in Seq(Scancodes) /\ reported[k] \in Seq(Scancodes)
        /\ pressed[k] \in Seq(Scancodes)
    BY <1>1, <2>1, AmtsuAssumption, DriversAssumption DEF KeyTypes
  <2>4. Append(fifo[k], c) \in Seq(Scancodes) /\ Append(pressed[k], c) \in Seq(Scancodes)
    BY <2>3, AppendProperties
  <2>5. KeyTypes'
    BY <1>1, <2>1, <2>2, <2>3, <2>4 DEF KeyTypes
  <2>6. KeysArriveInOrder'
    <3> SUFFICES ASSUME NEW j \in Present
                 PROVE  reported[j] \o fifo'[j] = pressed'[j]
      BY <2>2 DEF KeysArriveInOrder
    <3>1. reported[j] \o fifo[j] = pressed[j]
      BY DEF KeyInv, KeysArriveInOrder
    <3>2. CASE j = k
      <4>1. fifo'[k] = Append(fifo[k], c) /\ pressed'[k] = Append(pressed[k], c)
        BY <1>1, <2>1, <2>3 DEF KeyTypes
      <4>2. reported[k] \o Append(fifo[k], c) = Append(reported[k] \o fifo[k], c)
        <5>1. \A r, f \in Seq(Scancodes), d \in Scancodes :
                 r \o Append(f, d) = Append(r \o f, d)
          BY KeyPressed
        <5> QED
          BY <2>3, <5>1
      <4>3. reported[k] \o fifo'[k] = pressed'[k]
        BY <3>1, <3>2, <4>1, <4>2, Zenon
      <4> QED
        BY <3>2, <4>3, Zenon
    <3>3. CASE j # k
      BY <1>1, <2>1, <3>1, <3>3 DEF KeyTypes
    <3> QED
      BY <3>2, <3>3
  <2> QED
    BY <2>2, <2>5, <2>6 DEF KeyInv, Unprobed
<1>7. ASSUME NEW k \in Present, aisa_kbd_int(k) PROVE KeyInv'
  <2>1. /\ claimed = KbdIrq[k] /\ selected' = k /\ hwSel' = k
        /\ UNCHANGED <<pressed, slot, kpc, disa>> /\ claimed' \in {claimed, NoIrq}
        /\ \/ UNCHANGED <<fifo, reported>>
           \/ /\ fifo[k] # <<>>
              /\ fifo' = [fifo EXCEPT ![k] = Tail(@)]
              /\ reported' = [reported EXCEPT ![k] = Append(@, Head(fifo[k]))]
    <3>1. k \in Keyboards /\ hwSel' = k
      BY <1>1, <1>7, AmtsuAssumption, DriversAssumption DEF aisa_kbd_int, amtsu_ctrl_select
    <3>2. CASE fifo[k] = <<>>
      <4>1. UNCHANGED <<fifo, reported, disa>> /\ claimed' = NoIrq
        BY <1>7, <3>1, <3>2 DEF aisa_kbd_int, lsic_irq_eoi
      <4> QED
        BY <1>7, <3>1, <4>1 DEF aisa_kbd_int, amtsu_ctrl_select
    <3>3. CASE fifo[k] # <<>>
      <4>1. /\ fifo' = [fifo EXCEPT ![k] = Tail(@)]
            /\ reported' = [reported EXCEPT ![k] = Append(@, Head(fifo[k]))]
            /\ UNCHANGED <<disa, claimed>>
        BY <1>7, <3>1, <3>3 DEF aisa_kbd_int, lsic
      <4> QED
        BY <1>7, <3>1, <3>3, <4>1 DEF aisa_kbd_int, amtsu_ctrl_select
    <3> QED
      BY <3>2, <3>3
  <2>2. /\ k \in Keyboards /\ fifo[k] \in Seq(Scancodes) /\ reported[k] \in Seq(Scancodes)
        /\ KbdIrq[k] # NoIrq /\ KbdIrq[k] \notin disa
    <3>1. k \in Keyboards
      BY AmtsuAssumption, DriversAssumption
    <3>2. fifo[k] \in Seq(Scancodes) /\ reported[k] \in Seq(Scancodes)
      BY <1>1, <3>1 DEF KeyTypes
    <3>3. KbdIrq[k] \in disa => claimed # KbdIrq[k]
      BY <3>1 DEF KeyInv
    <3>4. claimed = KbdIrq[k]
      BY <2>1
    <3> QED
      BY <3>1, <3>2, <3>3, <3>4, AmtsuAssumption, DriversAssumption
  <2>3. kpc \notin {"model id", "reset"}
    BY <2>1, <2>2, AmtsuAssumption, DriversAssumption DEF LockInv, InAmtsu
  <2>4. CASE UNCHANGED <<fifo, reported>>
    <3>1. KeyTypes' /\ KeysArriveInOrder'
      BY <2>1, <2>4 DEF KeyInv, KeyTypes, KeysArriveInOrder
    <3>2. \A j \in Keyboards : KbdIrq[j] # NoIrq
      BY AmtsuAssumption, DriversAssumption
    <3> QED
      BY <2>1, <2>3, <2>4, <3>1, <3>2 DEF KeyInv, Unprobed
  <2>5. CASE /\ fifo[k] # <<>>
             /\ fifo' = [fifo EXCEPT ![k] = Tail(@)]
             /\ reported' = [reported EXCEPT ![k] = Append(@, Head(fifo[k]))]
    <3>1. Head(fifo[k]) \in Scancodes /\ Tail(fifo[k]) \in Seq(Scancodes)
      BY <2>2, <2>5, HeadTailProperties
    <3>2. Append(reported[k], Head(fifo[k])) \in Seq(Scancodes)
      BY <2>2, <3>1, AppendProperties
    <3>6. KeyTypes'
      BY <1>1, <2>1, <2>2, <2>5, <3>1, <3>2 DEF KeyTypes
    <3>3. KeysArriveInOrder'
      <4> SUFFICES ASSUME NEW j \in Present
                   PROVE  reported'[j] \o fifo'[j] = pressed[j]
        BY <2>1 DEF KeysArriveInOrder
      <4>1. reported[j] \o fifo[j] = pressed[j]
        BY DEF KeyInv, KeysArriveInOrder
      <4>2. CASE j = k
        <5>1. fifo'[k] = Tail(fifo[k]) /\ reported'[k] = Append(reported[k], Head(fifo[k]))
          BY <1>1, <2>2, <2>5 DEF KeyTypes
        <5>2. Append(reported[k], Head(fifo[k])) \o Tail(fifo[k]) = reported[k] \o fifo[k]
          BY <2>2, <2>5, KeyPopped
        <5> QED
          BY <4>1, <4>2, <5>1, <5>2
      <4>3. CASE j # k
        BY <1>1, <2>5, <4>1, <4>3 DEF KeyTypes
      <4> QED
        BY <4>2, <4>3
    <3>4. \A j \in Keyboards : KbdIrq[j] # NoIrq /\ (KbdIrq[j] \in disa => j # k)
      BY <2>2, AmtsuAssumption, DriversAssumption
    <3>5. \A j \in Keyboards : j # k => reported'[j] = reported[j]
      BY <1>1, <2>5 DEF KeyTypes
    <3> QED
      BY <2>1, <2>3, <3>6, <3>3, <3>4, <3>5 DEF KeyInv, Unprobed
  <2> QED
    BY <2>1, <2>4, <2>5
<1> QED
  BY <1>2, <1>3, <1>4, <1>5, <1>6, <1>7 DEF AmtsuNext, amtsu_ctrl_probe

LEMMA KeyStep == ASSUME LockInv, KeyInv, [Next]_vars PROVE KeyInv'
<1>1. CASE UNCHANGED vars
  BY <1>1, KeyAside DEF vars, lsic
<1>2. ASSUME LsicNext, UNCHANGED <<diskVars, amtsuVars>> PROVE KeyInv'
  <2>1. disa' = disa /\ (claimed' = claimed \/ claimed' \notin disa)
    BY <1>2 DEF LsicNext, EnterHandler, Claim, ExitHandler
  <2> QED
    BY <1>2, <2>1, KeyAside
<1>3. ASSUME DiskNext, UNCHANGED amtsuVars PROVE KeyInv'
  <2>1. CASE ProbeIrq
    BY <1>3, <2>1, KeyAside DEF ProbeIrq, lsic_irq_set_masked
  <2>2. CASE queue \/ ProbeWait \/ ProbeClear \/ ProbeInfo \/ ProbeAdd
    <3>1. UNCHANGED <<disa, claimed>>
      BY <2>2 DEF queue, queue_rq, QueueAddress, QueueSubmit, ProbeWait, ProbeClear,
                  ProbeInfo, ProbeAdd, spin_lock_irqsave, spin_unlock_irqrestore, lsic
    <3> QED
      BY <1>3, <3>1, KeyAside
  <2>3. CASE Handle \/ xrarch_disk_complete \/ \E d \in Disks : Transfer(d)
    <3>1. disa' = disa /\ claimed' \in {claimed, NoIrq}
      BY <2>3 DEF Handle, IntComplete, IntCollect, lsic_irq_eoi, xrarch_disk_complete,
                  Transfer, lsic
    <3> QED
      BY <1>3, <3>1, KeyAside
  <2> QED
    BY <1>3, <2>1, <2>2, <2>3 DEF DiskNext, probe
<1> QED
  BY <1>1, <1>2, <1>3, KeyNext DEF Next

-----------------------------------------------------------------------------
(* The disks. *)

\* Until the interrupt is requested nothing was submitted and no disk is known.
Early == ppc \in {"busy", "clear", "irq"}

\* A request on its way to the controller; a transfer; a completion the controller
\* has not reported yet; one that the handler has read.
Submitting(d) == InQueue /\ request[cur].disk = d
Transferring(d) == op[d] # NoOp
Completed(d) == d \in complete
Collected(d) == ipc = "collect" /\ d \in data1[2]

Owes(d) == Submitting(d) \/ Transferring(d) \/ Completed(d) \/ Collected(d)

OnlyOne(d) ==
    /\ Submitting(d) => ~Transferring(d) /\ ~Completed(d) /\ ~Collected(d)
    /\ Transferring(d) => ~Completed(d) /\ ~Collected(d)
    /\ Completed(d) => ~Collected(d)

Orders == [kind : {"read", "write"}, sector : Sectors, dest : Requests]

DiskTypes ==
    /\ request \in [Requests -> Submissions]
    /\ state \in [Requests -> {"new", "started", "completing", "ended"}]
    /\ xreq \in [Disks -> Requests \cup {NoRequest}]
    /\ disks \in [Disks -> {"NULL", "live", "freed"}]
    /\ capacity \in [Disks -> Nat]
    /\ op \in [Disks -> {NoOp, FirmwareOp} \cup Orders]
    /\ complete \in SUBSET Disks
    /\ done \in SUBSET Requests
    /\ idx \in Nat
    /\ ppc \in {"busy", "clear", "irq", "info", "add"}
    /\ ppc = "add" => idx \in Disks
    /\ qpc \in {"idle", "address", "submit"}
    /\ ipc \in {"idle", "collect"}

EarlyInv ==
    Early =>
      /\ DiskIrq \in disa /\ claimed # DiskIrq
      /\ qpc = "idle" /\ ipc = "idle" /\ idx = 0
      /\ \A d \in Disks : xreq[d] = NoRequest
      /\ \A d \in Disks : op[d] \in {NoOp, FirmwareOp}
      /\ ppc # "busy" => \A d \in Disks : ~Transferring(d)
      /\ ppc = "irq" => complete = {}

\* The disks the probe has added, and what INFO has answered.
ProbeInv ==
    /\ \A d \in Disks : capacity[d] \in {0, Size[d]}
    /\ \A d \in Disks : capacity[d] > 0 => disks[d] = "live"
    /\ \A d \in Disks : d >= idx => disks[d] = "NULL"
    /\ ppc = "add" => data1 = <<"sectors", Size[idx]>>

\* xreq is the request that is started.
RequestInv ==
    /\ \A d \in Disks : xreq[d] # NoRequest =>
                          request[xreq[d]].disk = d /\ state[xreq[d]] = "started"
    /\ \A r \in Requests : state[r] = "started" => xreq[request[r].disk] = r
    /\ \A r \in done : state[r] = "completing"

\* A disk owes one answer at a time, and only for a request.
AnswerInv(d) ==
    /\ OnlyOne(d)
    /\ Owes(d) => xreq[d] # NoRequest /\ disks[d] = "live"
    /\ Transferring(d) =>
         op[d] = [kind |-> request[xreq[d]].kind,
                  sector |-> request[xreq[d]].sector, dest |-> xreq[d]]

OwesInv == ~Early => \A d \in Disks : AnswerInv(d)

\* What queue_rq has written is still there in its second step, ...
QueueInv ==
    /\ InQueue => cur \in Requests /\ xreq[request[cur].disk] = cur
    /\ qpc = "submit" => sel = request[cur].disk /\ dest = cur
    /\ qpc = "idle" => cur = NoRequest

\* ... and so is what the handler has read.
IntInv == ipc = "collect" => claimed = DiskIrq /\ data1[2] \in SUBSET Disks

DiskInv ==
    DiskTypes /\ EarlyInv /\ ProbeInv /\ RequestInv /\ OwesInv /\ QueueInv /\ IntInv
    /\ CompletionsExpected

LEMMA DiskInvInit == Init => DiskInv
<1> SUFFICES ASSUME Init PROVE DiskInv
  OBVIOUS
<1>1. ppc = "busy" /\ qpc = "idle" /\ ipc = "idle" /\ idx = 0 /\ ~unexpected /\ done = {}
  BY DEF Init, DiskInit
<1>2. DiskTypes
  <2>1. /\ request \in [Requests -> Submissions]
        /\ state \in [Requests -> {"new", "started", "completing", "ended"}]
        /\ xreq \in [Disks -> Requests \cup {NoRequest}]
        /\ disks \in [Disks -> {"NULL", "live", "freed"}]
        /\ capacity \in [Disks -> Nat]
    BY DiskAssumption DEF Init, DiskInit
  <2>2. op \in [Disks -> {NoOp, FirmwareOp} \cup Orders] /\ complete \in SUBSET Disks
    BY DEF Init, DiskInit, Drives
  <2> QED
    BY <1>1, <2>1, <2>2 DEF DiskTypes
<1>3. EarlyInv
  BY <1>1, DiskAssumption, DriversAssumption DEF Init, DiskInit, LsicInit, EarlyInv
<1>4. ProbeInv
  BY <1>1, DiskAssumption DEF Init, DiskInit, ProbeInv
<1>5. RequestInv
  BY <1>1 DEF Init, DiskInit, RequestInv
<1>6. OwesInv /\ QueueInv /\ IntInv /\ CompletionsExpected
  BY <1>1 DEF Init, DiskInit, OwesInv, QueueInv, IntInv, CompletionsExpected, Early, InQueue
<1> QED
  BY <1>2, <1>3, <1>4, <1>5, <1>6 DEF DiskInv

\* Steps of the interrupt controller and of the keyboards.
LEMMA DiskAside ==
    ASSUME DiskInv, UNCHANGED diskVars,
           DiskIrq \in disa => DiskIrq \in disa',
           \/ claimed' = claimed
           \/ claimed # DiskIrq /\ (claimed' = DiskIrq => DiskIrq \notin disa)
    PROVE  DiskInv'
<1> USE DEF diskVars, block, driver, controller, code
<1>1. DiskTypes' /\ ProbeInv' /\ RequestInv' /\ CompletionsExpected'
  BY DEF DiskInv, DiskTypes, ProbeInv, RequestInv, CompletionsExpected
<1>2. OwesInv' /\ QueueInv'
  BY DEF DiskInv, OwesInv, AnswerInv, QueueInv, Early, OnlyOne, Owes, Submitting, Transferring,
         Completed, Collected, InQueue
<1>3. EarlyInv'
  BY DEF DiskInv, EarlyInv, Early, Transferring
<1>4. IntInv'
  BY DEF DiskInv, IntInv
<1> QED
  BY <1>1, <1>2, <1>3, <1>4 DEF DiskInv

\* While a task runs the handler is not between its two steps, and what runs in
\* one task is not in a section of another.
LEMMA TaskAlone ==
    ASSUME LockInv, DiskInv
    PROVE  /\ ~handling => ipc = "idle"
           /\ TaskRuns("probe") => qpc = "idle"
           /\ handling => qpc = "idle" /\ ppc # "add"
<1>1. ipc = "collect" => claimed = DiskIrq
  BY DEF DiskInv, IntInv
<1>2. DiskIrq # NoIrq /\ NoIrq \notin {"queue", "probe", "amtsu"}
  BY DiskAssumption, DriversAssumption
<1>3. qpc \in {"idle", "address", "submit"} /\ ipc \in {"idle", "collect"}
  BY DEF DiskInv, DiskTypes
<1>4. ~handling => ipc = "idle"
  BY <1>1, <1>2, <1>3 DEF LockInv
<1>5. TaskRuns("probe") => qpc = "idle"
  BY <1>2, <1>3 DEF LockInv, TaskRuns, InQueue
<1>6. handling => qpc = "idle" /\ ppc # "add"
  BY <1>2, <1>3 DEF LockInv, InQueue, InProbe
<1> QED
  BY <1>4, <1>5, <1>6

\* The probe up to the first INFO: nothing is owed when it begins.
LEMMA DiskProbeEarly ==
    ASSUME LockInv, DiskInv, ProbeWait \/ ProbeClear \/ ProbeIrq
    PROVE  DiskInv'
<1>1. /\ UNCHANGED <<request, state, xreq, disks, capacity, done, unexpected, op, qpc, cur,
                     idx, ipc,
                     sel, dest, claimed>>
      /\ Early /\ ppc' \in {"clear", "irq", "info"}
      /\ complete' \in {complete, {}}
  BY DEF ProbeWait, ProbeClear, ProbeIrq, CommandComplete, block, driver, controller, lsic,
         Early
<1>2. /\ DiskIrq \in disa /\ claimed # DiskIrq
      /\ qpc = "idle" /\ ipc = "idle" /\ idx = 0
      /\ \A d \in Disks : xreq[d] = NoRequest
      /\ \A d \in Disks : op[d] \in {NoOp, FirmwareOp}
      /\ ppc # "busy" => \A d \in Disks : ~Transferring(d)
      /\ ppc = "irq" => complete = {}
  BY <1>1 DEF DiskInv, EarlyInv
<1>3. DiskTypes'
  BY <1>1 DEF DiskInv, DiskTypes
<1>4. ProbeInv' /\ RequestInv' /\ CompletionsExpected'
  BY <1>1 DEF DiskInv, ProbeInv, RequestInv, CompletionsExpected
<1>5. QueueInv' /\ IntInv'
  BY <1>1, <1>2 DEF DiskInv, QueueInv, IntInv, InQueue
<1>6. EarlyInv'
  <2>1. CASE ProbeWait
    BY <1>1, <1>2, <2>1 DEF ProbeWait, EarlyInv, Early, lsic, Transferring
  <2>2. CASE ProbeClear
    BY <1>1, <1>2, <2>2 DEF ProbeClear, CommandComplete, EarlyInv, Early, lsic, Transferring
  <2>3. CASE ProbeIrq
    BY <2>3 DEF ProbeIrq, EarlyInv, Early
  <2> QED
    BY <2>1, <2>2, <2>3
<1>7. OwesInv'
  <2>1. CASE ProbeWait \/ ProbeClear
    BY <2>1 DEF ProbeWait, ProbeClear, OwesInv, Early
  <2>2. CASE ProbeIrq
    <3>1. complete' = {} /\ \A d \in Disks : ~Transferring(d)
      BY <1>2, <2>2 DEF ProbeIrq
    <3>2. \A d \in Disks : ~Submitting(d)' /\ ~Transferring(d)' /\ ~Completed(d)'
    /\ ~Collected(d)'
      BY <1>1, <1>2, <3>1 DEF Submitting, Transferring, Completed, Collected, InQueue
    <3> QED
      BY <3>2 DEF OwesInv, AnswerInv, OnlyOne, Owes
  <2> QED
    BY <2>1, <2>2
<1> QED
  BY <1>3, <1>4, <1>5, <1>6, <1>7 DEF DiskInv

\* INFO: nobody has written DATA1 since when its answer is read.
LEMMA DiskProbeInfo ==
    ASSUME LockInv, DiskInv, ProbeInfo
    PROVE  DiskInv'
<1>1. /\ UNCHANGED <<request, state, xreq, disks, capacity, done, unexpected, op, complete,
                     qpc, cur,
                     idx, ipc, sel, dest, claimed>>
      /\ ppc = "info" /\ ppc' = "add" /\ idx \in Disks
      /\ data1' = <<"sectors", Size[idx]>>
      /\ TaskRuns("probe")
  BY DEF ProbeInfo, CommandInfo, spin_lock_irqsave, block, driver
<1>2. ipc = "idle" /\ qpc = "idle"
  BY <1>1, TaskAlone DEF TaskRuns
<1>3. DiskTypes'
  BY <1>1 DEF DiskInv, DiskTypes
<1>4. ProbeInv' /\ RequestInv' /\ CompletionsExpected'
  BY <1>1 DEF DiskInv, ProbeInv, RequestInv, CompletionsExpected
<1>5. QueueInv' /\ IntInv' /\ EarlyInv'
  BY <1>1, <1>2 DEF DiskInv, QueueInv, IntInv, InQueue, EarlyInv, Early
<1>6. OwesInv'
  BY <1>1, <1>2 DEF DiskInv, OwesInv, AnswerInv, Early, OnlyOne, Owes, Submitting, Transferring,
                    Completed, Collected, InQueue
<1> QED
  BY <1>3, <1>4, <1>5, <1>6 DEF DiskInv

\* The slot that is added owes nothing: its disk was not there.
LEMMA DiskProbeAdd ==
    ASSUME LockInv, DiskInv, ProbeAdd
    PROVE  DiskInv'
<1>1. /\ UNCHANGED <<request, state, xreq, done, unexpected, op, complete, qpc, cur, ipc, sel,
                     dest,
                     data1, claimed>>
      /\ ppc = "add" /\ ppc' = "info"
      /\ TaskRuns("probe")
  BY DEF ProbeAdd, spin_unlock_irqrestore, block, controller
<1>2. ipc = "idle" /\ qpc = "idle"
  BY <1>1, TaskAlone DEF TaskRuns
<1>3. /\ idx \in Disks /\ idx \in Nat /\ idx' = idx + 1
      /\ data1 = <<"sectors", Size[idx]>> /\ disks[idx] = "NULL"
      /\ Size[idx] \in Nat
  BY <1>1, DiskAssumption DEF ProbeAdd, DiskInv, DiskTypes, ProbeInv
<1>4. \/ UNCHANGED <<disks, capacity>>
      \/ disks' = [disks EXCEPT ![idx] = "freed"] /\ UNCHANGED capacity
      \/ /\ disks' = [disks EXCEPT ![idx] = "live"]
         /\ capacity' = [capacity EXCEPT ![idx] = Size[idx]]
  BY <1>3 DEF ProbeAdd
<1>5. disks \in [Disks -> {"NULL", "live", "freed"}] /\ capacity \in [Disks -> Nat]
  BY DEF DiskInv, DiskTypes
<1>6. /\ disks' \in [Disks -> {"NULL", "live", "freed"}] /\ capacity' \in [Disks -> Nat]
      /\ \A d \in Disks : d # idx => disks'[d] = disks[d] /\ capacity'[d] = capacity[d]
      /\ capacity'[idx] = capacity[idx] \/ (capacity'[idx] = Size[idx] /\ disks'[idx] = "live")
  BY <1>3, <1>4, <1>5
<1>7. idx' \in Nat
  BY <1>3
<1>8. DiskTypes'
  BY <1>1, <1>6, <1>7 DEF DiskInv, DiskTypes
<1>9. capacity[idx] = 0
  BY <1>3, <1>5 DEF DiskInv, ProbeInv
<1>10. ProbeInv'
  <2>1. \A d \in Disks : d >= idx' => d \in Nat /\ d # idx /\ d >= idx
    BY <1>3, DiskAssumption
  <2>2. \A d \in Disks : d >= idx' => disks'[d] = "NULL"
    BY <1>6, <2>1 DEF DiskInv, ProbeInv
  <2>3. ASSUME NEW d \in Disks
        PROVE  capacity'[d] \in {0, Size[d]} /\ (capacity'[d] > 0 => disks'[d] = "live")
    <3>1. CASE d = idx
      BY <1>6, <1>9, <3>1
    <3>2. CASE d # idx
      BY <1>6, <3>2 DEF DiskInv, ProbeInv
    <3> QED
      BY <3>1, <3>2
  <2> QED
    BY <1>1, <2>2, <2>3 DEF ProbeInv
<1>11. RequestInv' /\ CompletionsExpected'
  BY <1>1 DEF DiskInv, RequestInv, CompletionsExpected
<1>12. QueueInv' /\ IntInv' /\ EarlyInv'
  BY <1>1, <1>2 DEF DiskInv, QueueInv, IntInv, InQueue, EarlyInv, Early
<1>13. OwesInv'
  <2> SUFFICES ASSUME NEW d \in Disks
               PROVE  AnswerInv(d)'
    BY DEF OwesInv
  <2> USE DEF AnswerInv
  <2>1. /\ OnlyOne(d)' <=> OnlyOne(d)
        /\ Owes(d)' <=> Owes(d)
        /\ Transferring(d)' <=> Transferring(d)
    BY <1>1, <1>2 DEF OnlyOne, Owes, Submitting, Transferring, Completed, Collected, InQueue
  <2>2. AnswerInv(d)
    BY <1>1 DEF DiskInv, OwesInv, Early
  <2>3. Owes(d) => d # idx
    BY <1>3, <2>2
  <2> QED
    BY <1>1, <1>6, <2>1, <2>2, <2>3
<1> QED
  BY <1>8, <1>10, <1>11, <1>12, <1>13 DEF DiskInv

\* A request is started: its disk is live and owes nothing.
LEMMA DiskQueue ==
    ASSUME LockInv, DiskInv, queue_rq
    PROVE  DiskInv'
<1>1. PICK r \in Requests :
        /\ state[r] = "new" /\ capacity[request[r].disk] > 0
        /\ \A s \in Requests :
              request[s].disk = request[r].disk => state[s] \in {"new", "ended"}
        /\ state' = [state EXCEPT ![r] = "started"]
        /\ unexpected' = (unexpected \/ xreq[request[r].disk] # NoRequest)
        /\ xreq' = [xreq EXCEPT ![request[r].disk] = r]
        /\ cur' = r
  BY DEF queue_rq
<1>2. /\ UNCHANGED <<request, disks, capacity, done, sel, dest, op, complete, data1, ppc, idx,
                     ipc,
                     disa, claimed>>
      /\ qpc = "idle" /\ qpc' = "address"
      /\ ~handling
  BY DEF queue_rq, spin_lock_irqsave, TaskRuns, controller
<1>3. PICK e \in Disks : e = request[r].disk
  BY DEF DiskInv, DiskTypes, Submissions
<1>4. /\ request \in [Requests -> Submissions]
      /\ state \in [Requests -> {"new", "started", "completing", "ended"}]
      /\ xreq \in [Disks -> Requests \cup {NoRequest}]
  BY DEF DiskInv, DiskTypes
<1>5. xreq[e] = NoRequest
  <2>1. xreq[e] # NoRequest =>
          xreq[e] \in Requests /\ request[xreq[e]].disk = e /\ state[xreq[e]] = "started"
    BY <1>4 DEF DiskInv, RequestInv
  <2> QED
    BY <1>1, <1>3, <2>1
<1>6. disks[e] = "live" /\ ipc = "idle" /\ r # NoRequest
  BY <1>1, <1>2, <1>3, TaskAlone, DriversAssumption DEF DiskInv, ProbeInv
<1>7. ~Early
  BY <1>1, <1>3, DiskAssumption DEF DiskInv, EarlyInv, ProbeInv, DiskTypes
<1>8. /\ state'[r] = "started" /\ xreq'[e] = r
      /\ \A s \in Requests : s # r => state'[s] = state[s]
      /\ \A d \in Disks : d # e => xreq'[d] = xreq[d]
  BY <1>1, <1>3, <1>4
<1>9. DiskTypes'
  <2>1. /\ state' \in [Requests -> {"new", "started", "completing", "ended"}]
        /\ xreq' \in [Disks -> Requests \cup {NoRequest}]
    BY <1>1, <1>3, <1>4
  <2> QED
    BY <1>2, <2>1 DEF DiskInv, DiskTypes
<1>10. ProbeInv' /\ EarlyInv' /\ CompletionsExpected'
  BY <1>1, <1>2, <1>3, <1>5, <1>7 DEF DiskInv, ProbeInv, EarlyInv, Early, CompletionsExpected
<1>11. RequestInv'
  <2>1. ASSUME NEW d \in Disks, xreq'[d] # NoRequest
        PROVE  request'[xreq'[d]].disk = d /\ state'[xreq'[d]] = "started"
    <3>1. CASE d = e
      BY <1>2, <1>3, <1>8, <3>1
    <3>2. CASE d # e
      <4>1. xreq'[d] = xreq[d] /\ xreq[d] \in Requests
        BY <1>4, <1>8, <2>1, <3>2
      <4>2. request[xreq[d]].disk = d /\ state[xreq[d]] = "started"
        BY <2>1, <4>1 DEF DiskInv, RequestInv
      <4>3. xreq[d] # r
        BY <1>1, <4>2
      <4> QED
        BY <1>2, <1>8, <4>1, <4>2, <4>3
    <3> QED
      BY <3>1, <3>2
  <2>2. ASSUME NEW s \in Requests, state'[s] = "started" PROVE xreq'[request'[s].disk] = s
    <3>1. CASE s = r
      BY <1>2, <1>3, <1>8, <3>1
    <3>2. CASE s # r
      <4>1. state[s] = "started" /\ xreq[request[s].disk] = s
        BY <1>8, <2>2, <3>2 DEF DiskInv, RequestInv
      <4>2. request[s].disk \in Disks /\ request[s].disk # e
        BY <1>1, <1>3, <1>4, <4>1 DEF Submissions
      <4> QED
        BY <1>2, <1>8, <4>1, <4>2
    <3> QED
      BY <3>1, <3>2
  <2>3. ASSUME NEW s \in done PROVE state'[s] = "completing"
    <3>1. s \in Requests /\ state[s] = "completing"
      BY DEF DiskInv, DiskTypes, RequestInv
    <3> QED
      BY <1>1, <1>8, <3>1
  <2> QED
    BY <1>2, <2>1, <2>2, <2>3 DEF RequestInv
<1>12. OwesInv'
  <2> SUFFICES ASSUME NEW d \in Disks
               PROVE  AnswerInv(d)'
    BY DEF OwesInv
  <2> USE DEF AnswerInv
  <2>1. AnswerInv(d)
    BY <1>7 DEF DiskInv, OwesInv
  <2>2. /\ Transferring(d)' <=> Transferring(d)
        /\ Completed(d)' <=> Completed(d)
        /\ ~Collected(d)'
        /\ Submitting(d)' <=> d = e
    BY <1>1, <1>2, <1>3, <1>6 DEF Transferring, Completed, Collected, Submitting, InQueue
  <2>3. CASE d = e
    <3>1. ~Owes(d)
      BY <1>5, <2>1, <2>3
    <3> QED
      BY <1>2, <1>6, <1>8, <2>2, <2>3, <3>1 DEF OnlyOne, Owes
  <2>4. CASE d # e
    <3>1. xreq'[d] = xreq[d]
      BY <1>8, <2>4
    <3> QED
      BY <1>2, <2>1, <2>2, <2>4, <3>1 DEF OnlyOne, Owes
  <2> QED
    BY <2>3, <2>4
<1>13. QueueInv' /\ IntInv'
  BY <1>1, <1>2, <1>3, <1>6, <1>8 DEF QueueInv, IntInv, InQueue
<1> QED
  BY <1>9, <1>10, <1>11, <1>12, <1>13 DEF DiskInv

\* The two steps of queue_rq: the order is on its way, then it is a transfer.
LEMMA DiskAddress ==
    ASSUME LockInv, DiskInv, QueueAddress
    PROVE  DiskInv'
<1>1. /\ UNCHANGED <<request, state, xreq, disks, capacity, done, unexpected, op, complete,
                     data1, cur,
                     ppc, idx, ipc, disa, claimed>>
      /\ qpc = "address" /\ qpc' = "submit"
      /\ sel' = request[cur].disk /\ dest' = cur
  BY DEF QueueAddress, block, driver, lsic
<1>2. DiskTypes' /\ ProbeInv' /\ RequestInv' /\ CompletionsExpected'
  BY <1>1 DEF DiskInv, DiskTypes, ProbeInv, RequestInv, CompletionsExpected
<1>3. OwesInv'
  BY <1>1 DEF DiskInv, OwesInv, AnswerInv, Early, OnlyOne, Owes, Submitting, Transferring,
              Completed,
              Collected, InQueue
<1>4. EarlyInv'
  BY <1>1 DEF DiskInv, EarlyInv, Early
<1>5. QueueInv' /\ IntInv'
  BY <1>1 DEF DiskInv, QueueInv, IntInv, InQueue
<1> QED
  BY <1>2, <1>3, <1>4, <1>5 DEF DiskInv

LEMMA DiskSubmit ==
    ASSUME LockInv, DiskInv, QueueSubmit
    PROVE  DiskInv'
<1>1. /\ UNCHANGED <<request, state, xreq, disks, capacity, done, unexpected, complete, data1,
                     ppc, idx,
                     ipc, disa, claimed>>
      /\ qpc = "submit" /\ qpc' = "idle" /\ cur' = NoRequest
  BY DEF QueueSubmit, block, driver, spin_unlock_irqrestore
<1>2. PICK e \in Disks : /\ e = request[cur].disk /\ sel = e /\ dest = cur
                         /\ cur \in Requests /\ xreq[e] = cur
  BY <1>1 DEF DiskInv, DiskTypes, QueueInv, InQueue, Submissions
<1>3. op' = [op EXCEPT ![e] = [kind |-> request[cur].kind, sector |-> request[cur].sector,
                               dest |-> cur]]
  BY <1>2 DEF QueueSubmit
<1>4. op \in [Disks -> {NoOp, FirmwareOp} \cup Orders] /\ request[cur] \in Submissions
  BY <1>2 DEF DiskInv, DiskTypes
<1>5. ~Early
  BY <1>1 DEF DiskInv, EarlyInv
<1>6. /\ op'[e] = [kind |-> request[cur].kind, sector |-> request[cur].sector, dest |-> cur]
      /\ \A d \in Disks : d # e => op'[d] = op[d]
  BY <1>3, <1>4
<1>7. DiskTypes'
  <2>1. op' \in [Disks -> {NoOp, FirmwareOp} \cup Orders]
    BY <1>2, <1>3, <1>4 DEF Submissions, Orders
  <2> QED
    BY <1>1, <2>1 DEF DiskInv, DiskTypes
<1>8. ProbeInv' /\ RequestInv' /\ CompletionsExpected' /\ EarlyInv' /\ QueueInv' /\ IntInv'
  BY <1>1, <1>5 DEF DiskInv, ProbeInv, RequestInv, CompletionsExpected, EarlyInv, Early,
                    QueueInv, InQueue, IntInv
<1>9. OwesInv'
  <2> SUFFICES ASSUME NEW d \in Disks
               PROVE  AnswerInv(d)'
    BY DEF OwesInv
  <2> USE DEF AnswerInv
  <2>1. AnswerInv(d)
    BY <1>5 DEF DiskInv, OwesInv
  <2>2. /\ ~Submitting(d)'
        /\ Completed(d)' <=> Completed(d)
        /\ Collected(d)' <=> Collected(d)
        /\ Submitting(d) <=> d = e
        /\ Transferring(d)' => d = e \/ Transferring(d)
    BY <1>1, <1>2, <1>6 DEF Transferring, Completed, Collected, Submitting, InQueue
  <2>3. CASE d = e
    <3>1. Owes(d) /\ ~Completed(d) /\ ~Collected(d)
      BY <2>1, <2>2, <2>3 DEF OnlyOne, Owes
    <3> QED
      BY <1>1, <1>2, <1>6, <2>1, <2>2, <2>3, <3>1 DEF OnlyOne
  <2>4. CASE d # e
    BY <1>1, <1>6, <2>1, <2>2, <2>4 DEF OnlyOne, Owes
  <2> QED
    BY <2>3, <2>4
<1> QED
  BY <1>7, <1>8, <1>9 DEF DiskInv

\* A transfer becomes a completion, which the handler reads ...
LEMMA DiskTransfer ==
    ASSUME LockInv, DiskInv, NEW e \in Disks, Transfer(e)
    PROVE  DiskInv'
<1>1. /\ UNCHANGED <<request, state, xreq, disks, capacity, done, unexpected, sel, dest, data1,
                     qpc, cur,
                     ppc, idx, ipc, disa, claimed>>
      /\ Transferring(e)
      /\ op' = [op EXCEPT ![e] = NoOp] /\ complete' = complete \cup {e}
  BY DEF Transfer, driver, code, Transferring
<1>2. op \in [Disks -> {NoOp, FirmwareOp} \cup Orders]
  BY DEF DiskInv, DiskTypes
<1>3. op'[e] = NoOp /\ \A d \in Disks : d # e => op'[d] = op[d]
  BY <1>1, <1>2
<1>4. DiskTypes'
  <2>1. op' \in [Disks -> {NoOp, FirmwareOp} \cup Orders]
    BY <1>1, <1>2
  <2> QED
    BY <1>1, <2>1 DEF DiskInv, DiskTypes
<1>5. ProbeInv' /\ RequestInv' /\ CompletionsExpected' /\ QueueInv' /\ IntInv'
  BY <1>1 DEF DiskInv, ProbeInv, RequestInv, CompletionsExpected, QueueInv, InQueue, IntInv
<1>6. EarlyInv'
  <2>1. Early => ppc = "busy"
    BY <1>1 DEF DiskInv, EarlyInv, Early
  <2> QED
    BY <1>1, <2>1 DEF DiskInv, EarlyInv, Early
<1>7. OwesInv'
  <2> SUFFICES ASSUME ~Early, NEW d \in Disks
               PROVE  AnswerInv(d)'
    BY <1>1 DEF OwesInv, Early
  <2> USE DEF AnswerInv
  <2>1. AnswerInv(d)
    BY DEF DiskInv, OwesInv
  <2>2. /\ Submitting(d)' <=> Submitting(d)
        /\ Collected(d)' <=> Collected(d)
        /\ Completed(d)' <=> d = e \/ Completed(d)
        /\ Transferring(d)' <=> d # e /\ Transferring(d)
    BY <1>1, <1>3 DEF Transferring, Completed, Collected, Submitting, InQueue
  <2>3. CASE d = e
    BY <1>1, <2>1, <2>2, <2>3 DEF OnlyOne, Owes
  <2>4. CASE d # e
    BY <1>1, <1>3, <2>1, <2>2, <2>4 DEF OnlyOne, Owes
  <2> QED
    BY <2>3, <2>4
<1> QED
  BY <1>4, <1>5, <1>6, <1>7 DEF DiskInv

LEMMA DiskIntComplete ==
    ASSUME LockInv, DiskInv, IntComplete
    PROVE  DiskInv'
<1>1. /\ UNCHANGED <<request, state, xreq, disks, capacity, done, unexpected, sel, dest, op,
                     qpc, cur,
                     ppc, idx, disa, claimed>>
      /\ claimed = DiskIrq /\ ipc = "idle" /\ ipc' = "collect"
      /\ data1' = <<"complete", complete>> /\ complete' = {}
  BY DEF IntComplete, CommandComplete, block, driver, lsic
<1>2. ~Early /\ complete \in SUBSET Disks
  BY <1>1 DEF DiskInv, DiskTypes, EarlyInv
<1>3. data1'[2] = complete
  BY <1>1
<1>4. handling /\ ppc # "add"
  BY <1>1, TaskAlone, DiskAssumption, DriversAssumption DEF LockInv
<1>5. DiskTypes'
  BY <1>1 DEF DiskInv, DiskTypes
<1>6. ProbeInv' /\ RequestInv' /\ CompletionsExpected' /\ QueueInv'
  BY <1>1, <1>4 DEF DiskInv, ProbeInv, RequestInv, CompletionsExpected, QueueInv, InQueue
<1>7. EarlyInv' /\ IntInv'
  BY <1>1, <1>2, <1>3 DEF EarlyInv, Early, IntInv
<1>8. OwesInv'
  <2> SUFFICES ASSUME NEW d \in Disks
               PROVE  AnswerInv(d)'
    BY DEF OwesInv
  <2> USE DEF AnswerInv
  <2>1. AnswerInv(d)
    BY <1>2 DEF DiskInv, OwesInv
  <2>2. /\ Submitting(d)' <=> Submitting(d)
        /\ Transferring(d)' <=> Transferring(d)
        /\ ~Completed(d)'
        /\ Collected(d)' <=> Completed(d)
    BY <1>1, <1>3 DEF Transferring, Completed, Collected, Submitting, InQueue
  <2> QED
    BY <1>1, <2>1, <2>2 DEF OnlyOne, Owes
<1> QED
  BY <1>5, <1>6, <1>7, <1>8 DEF DiskInv

\* ... and ends: each completion finds the request of its own disk.
LEMMA DiskIntCollect ==
    ASSUME LockInv, DiskInv, IntCollect
    PROVE  DiskInv'
<1> DEFINE completed == data1[2]
           ended == {xreq[d] : d \in completed} \ {NoRequest}
<1>1. /\ UNCHANGED <<request, disks, capacity, sel, dest, op, complete, data1, qpc, cur, ppc,
                     idx,
                     disa>>
      /\ claimed = DiskIrq /\ ipc = "collect" /\ ipc' = "idle"
      /\ unexpected' = (unexpected \/ \E d \in completed :
                                        disks[d] # "live" \/ xreq[d] = NoRequest)
      /\ xreq' = [d \in Disks |-> IF d \in completed THEN NoRequest ELSE xreq[d]]
      /\ done' = done \cup ended
      /\ state' = [r \in Requests |-> IF r \in ended THEN "completing" ELSE state[r]]
  BY DEF IntCollect, lsic_irq_eoi, controller
<1>2. /\ ~Early /\ completed \in SUBSET Disks /\ ~unexpected
      /\ xreq \in [Disks -> Requests \cup {NoRequest}]
      /\ state \in [Requests -> {"new", "started", "completing", "ended"}]
      /\ request \in [Requests -> Submissions]
  BY <1>1 DEF DiskInv, EarlyInv, IntInv, DiskTypes, CompletionsExpected
<1>3. qpc = "idle"
  BY <1>1, TaskAlone, DiskAssumption, DriversAssumption DEF LockInv
<1>4. \A d \in completed : xreq[d] # NoRequest /\ disks[d] = "live"
  BY <1>1, <1>2 DEF DiskInv, OwesInv, AnswerInv, Owes, Collected
<1>5. CompletionsExpected'
  BY <1>1, <1>2, <1>4 DEF CompletionsExpected
<1>6. DiskTypes'
  <2>1. ended \in SUBSET Requests
    BY <1>2
  <2>2. /\ xreq' \in [Disks -> Requests \cup {NoRequest}]
        /\ state' \in [Requests -> {"new", "started", "completing", "ended"}]
        /\ done' \in SUBSET Requests
    BY <1>1, <1>2, <2>1 DEF DiskInv, DiskTypes
  <2> QED
    BY <1>1, <2>2 DEF DiskInv, DiskTypes
<1>7. ProbeInv' /\ EarlyInv' /\ QueueInv' /\ IntInv'
  BY <1>1, <1>2, <1>3 DEF DiskInv, ProbeInv, EarlyInv, Early, QueueInv, InQueue, IntInv
<1>8. \A d \in Disks : xreq[d] # NoRequest =>
         /\ xreq[d] \in Requests
         /\ request[xreq[d]].disk = d /\ state[xreq[d]] = "started"
         /\ xreq[d] \in ended <=> d \in completed
  BY <1>2 DEF DiskInv, RequestInv
<1>9. RequestInv'
  <2>1. ASSUME NEW d \in Disks, xreq'[d] # NoRequest
        PROVE  request'[xreq'[d]].disk = d /\ state'[xreq'[d]] = "started"
    <3>1. xreq'[d] = xreq[d] /\ d \notin completed
      BY <1>1, <2>1
    <3>2. xreq[d] \in Requests /\ xreq[d] \notin ended
      BY <1>8, <2>1, <3>1
    <3>3. state'[xreq[d]] = state[xreq[d]]
      BY <1>1, <3>2
    <3> QED
      BY <1>1, <1>8, <2>1, <3>1, <3>3
  <2>2. ASSUME NEW r \in Requests, state'[r] = "started" PROVE xreq'[request'[r].disk] = r
    <3>1. r \notin ended /\ state[r] = "started"
      BY <1>1, <2>2
    <3>2. xreq[request[r].disk] = r /\ request[r].disk \in Disks
      BY <1>2, <3>1 DEF DiskInv, RequestInv, Submissions
    <3>3. r # NoRequest
      BY DriversAssumption
    <3>4. request[r].disk \notin completed
      BY <1>8, <3>1, <3>2, <3>3
    <3> QED
      BY <1>1, <3>2, <3>4
  <2>3. ASSUME NEW r \in done' PROVE state'[r] = "completing"
    <3>1. r \in Requests
      BY <1>6 DEF DiskTypes
    <3>2. r \in ended \/ state[r] = "completing"
      BY <1>1, <2>3 DEF DiskInv, RequestInv
    <3> QED
      BY <1>1, <3>1, <3>2
  <2> QED
    BY <2>1, <2>2, <2>3 DEF RequestInv
<1>10. OwesInv'
  <2> SUFFICES ASSUME NEW d \in Disks
               PROVE  AnswerInv(d)'
    BY DEF OwesInv
  <2> USE DEF AnswerInv
  <2>1. AnswerInv(d)
    BY <1>2 DEF DiskInv, OwesInv
  <2>2. /\ ~Submitting(d)'
        /\ Transferring(d)' <=> Transferring(d)
        /\ Completed(d)' <=> Completed(d)
        /\ ~Collected(d)'
        /\ Collected(d) <=> d \in completed
    BY <1>1, <1>3 DEF Transferring, Completed, Collected, Submitting, InQueue
  <2>3. Owes(d)' => Owes(d) /\ d \notin completed
    BY <2>1, <2>2 DEF OnlyOne, Owes
  <2>4. Owes(d)' => xreq'[d] = xreq[d]
    BY <1>1, <2>3
  <2>5. OnlyOne(d)' /\ (Transferring(d)' => Owes(d)')
    BY <2>1, <2>2 DEF OnlyOne, Owes
  <2> QED
    BY <1>1, <2>1, <2>2, <2>3, <2>4, <2>5
<1> QED
  BY <1>5, <1>6, <1>7, <1>9, <1>10 DEF DiskInv

LEMMA DiskComplete ==
    ASSUME LockInv, DiskInv, xrarch_disk_complete
    PROVE  DiskInv'
<1>1. PICK r \in done : done' = done \ {r} /\ state' = [state EXCEPT ![r] = "ended"]
  BY DEF xrarch_disk_complete
<1>2. UNCHANGED <<request, xreq, disks, capacity, unexpected, sel, dest, op, complete, data1,
                  qpc, cur,
                  ppc, idx, ipc, disa, claimed>>
  BY DEF xrarch_disk_complete, controller, code, lsic
<1>3. /\ r \in Requests /\ state[r] = "completing"
      /\ state \in [Requests -> {"new", "started", "completing", "ended"}]
      /\ xreq \in [Disks -> Requests \cup {NoRequest}]
  BY <1>1 DEF DiskInv, DiskTypes, RequestInv
<1>4. state'[r] = "ended" /\ \A s \in Requests : s # r => state'[s] = state[s]
  BY <1>1, <1>3
<1>5. DiskTypes'
  <2>1. /\ state' \in [Requests -> {"new", "started", "completing", "ended"}]
        /\ done' \in SUBSET Requests
    BY <1>1, <1>3 DEF DiskInv, DiskTypes
  <2> QED
    BY <1>2, <2>1 DEF DiskInv, DiskTypes
<1>6. ProbeInv' /\ CompletionsExpected' /\ EarlyInv' /\ QueueInv' /\ IntInv'
  BY <1>2 DEF DiskInv, ProbeInv, CompletionsExpected, EarlyInv, Early, Transferring, QueueInv,
              InQueue, IntInv
<1>7. OwesInv'
  BY <1>2 DEF DiskInv, OwesInv, AnswerInv, Early, OnlyOne, Owes, Submitting, Transferring,
              Completed,
              Collected, InQueue
<1>8. RequestInv'
  <2>1. ASSUME NEW d \in Disks, xreq[d] # NoRequest
        PROVE  request[xreq[d]].disk = d /\ state'[xreq[d]] = "started"
    <3>1. xreq[d] \in Requests /\ request[xreq[d]].disk = d /\ state[xreq[d]] = "started"
      BY <1>3, <2>1 DEF DiskInv, RequestInv
    <3> QED
      BY <1>3, <1>4, <3>1
  <2>2. \A s \in Requests : state'[s] = "started" => xreq[request[s].disk] = s
    BY <1>4 DEF DiskInv, RequestInv
  <2>3. \A s \in done' : s \in Requests /\ state'[s] = "completing"
    BY <1>1, <1>4 DEF DiskInv, DiskTypes, RequestInv
  <2> QED
    BY <1>2, <2>1, <2>2, <2>3 DEF RequestInv
<1> QED
  BY <1>5, <1>6, <1>7, <1>8 DEF DiskInv

LEMMA DiskStep == ASSUME LockInv, KeyInv, DiskInv, [Next]_vars PROVE DiskInv'
<1>1. CASE UNCHANGED vars
  BY <1>1, DiskAside DEF vars, lsic
<1>2. ASSUME LsicNext, UNCHANGED <<diskVars, amtsuVars>> PROVE DiskInv'
  <2>1. CASE EnterHandler \/ ExitHandler
    BY <1>2, <2>1, DiskAside DEF EnterHandler, ExitHandler
  <2>2. CASE Claim
    BY <1>2, <2>2, DiskAside, DiskAssumption, DriversAssumption DEF Claim
  <2> QED
    BY <1>2, <2>1, <2>2 DEF LsicNext
<1>3. ASSUME DiskNext PROVE DiskInv'
  BY <1>3, DiskQueue, DiskAddress, DiskSubmit, DiskProbeEarly, DiskProbeInfo, DiskProbeAdd,
     DiskIntComplete, DiskIntCollect, DiskComplete, DiskTransfer
     DEF DiskNext, queue, probe, Handle
<1>4. ASSUME AmtsuNext, UNCHANGED diskVars PROVE DiskInv'
  <2>1. CASE RequestIrq
    <3>1. disa' = disa \ {KbdIrq[slot]} /\ claimed' = claimed /\ slot \in Keyboards
      BY <2>1 DEF RequestIrq, lsic_irq_set_masked, KeyInv, KeyTypes
    <3> QED
      BY <1>4, <3>1, DiskAside, DriversAssumption
  <2>2. ASSUME NEW k \in Present, aisa_kbd_int(k) PROVE DiskInv'
    <3>1. disa' = disa /\ claimed = KbdIrq[k] /\ claimed' \in {claimed, NoIrq}
      BY <2>2 DEF aisa_kbd_int, lsic_irq_eoi, lsic
    <3>2. KbdIrq[k] # DiskIrq /\ NoIrq # DiskIrq
      BY DiskAssumption, AmtsuAssumption, DriversAssumption
    <3> QED
      BY <1>4, <3>1, <3>2, DiskAside
  <2>3. ASSUME NEW k \in Present, Key(k) PROVE DiskInv'
    BY <1>4, <2>3, DiskAside DEF Key
  <2>4. CASE amtsu_ctrl_probe /\ ~RequestIrq
    <3>1. disa' = disa /\ claimed' = claimed
      BY <2>4 DEF amtsu_ctrl_probe, SelectToDiscover, SelectToReset, SelectToEnable, Select,
                  ReadModelId, KbdReset, EnableIrq, spin_lock_irqsave, spin_unlock_irqrestore
    <3> QED
      BY <1>4, <3>1, DiskAside
  <2> QED
    BY <1>4, <2>1, <2>2, <2>3, <2>4 DEF AmtsuNext
<1> QED
  BY <1>1, <1>2, <1>3, <1>4 DEF Next

\* In every behaviour a disk owes one answer at a time, and only for a request that
\* xreq and the disk still hold for the handler.
THEOREM Invariance == Spec => [](LockInv /\ KeyInv /\ DiskInv)
<1>1. Init => LockInv /\ KeyInv /\ DiskInv
  BY LockInit, KeyInit, DiskInvInit
<1>2. LockInv /\ KeyInv /\ DiskInv /\ [Next]_vars => (LockInv /\ KeyInv /\ DiskInv)'
  BY LockNext, KeyStep, DiskStep
<1> QED
  BY <1>1, <1>2, PTL DEF Spec

\* The interrupt handler gets no completion for a disk without a request and follows no
\* pointer of a disk that is absent or was freed, and queue_rq puts no request over
\* another, whatever the firmware left in the controller.
THEOREM CompletionsAreExpected == Spec => []CompletionsExpected
<1>1. DiskInv => CompletionsExpected
  BY DEF DiskInv
<1> QED
  BY <1>1, Invariance, PTL

\* A disk gets the size the controller has for it, whatever interrupts its probe.
THEOREM Capacities == Spec => []CapacityAsReported
<1>1. DiskInv => CapacityAsReported
  BY DEF DiskInv, ProbeInv, CapacityAsReported
<1> QED
  BY <1>1, Invariance, PTL

\* The keys of a keyboard are reported in the order they were pressed, none lost
\* and none of another keyboard, whatever the probe of the next device selects.
THEOREM KeyOrder == Spec => []KeysArriveInOrder
<1>1. KeyInv => KeysArriveInOrder
  BY DEF KeyInv
<1> QED
  BY <1>1, Invariance, PTL

-----------------------------------------------------------------------------
(* The disk driver implements BlockDevice. *)

\* A started request is in flight as long as its disk has not transferred.
Moving(r) == Submitting(request[r].disk) \/ Transferring(request[r].disk)

AbstractStateIs(r) ==
    /\ state[r] = "new" => AbstractState(r) = "new"
    /\ state[r] = "started" => AbstractState(r) = IF Moving(r) THEN "submitted" ELSE "served"
    /\ state[r] = "completing" => AbstractState(r) = "served"
    /\ state[r] = "ended" => AbstractState(r) = "ended"

LEMMA InFlightMoving ==
    ASSUME DiskInv, NEW r \in Requests, state[r] = "started"
    PROVE  InFlight(r) <=> Moving(r)
<1>1. PICK e \in Disks : e = request[r].disk /\ xreq[e] = r
  BY DEF DiskInv, DiskTypes, RequestInv, Submissions
<1>2. r # NoRequest
  BY DriversAssumption
<1>3. ~Early
  BY <1>1, <1>2 DEF DiskInv, EarlyInv
<1>4. ASSUME InFlight(r) PROVE Moving(r)
  <2>1. CASE cur = r
    BY <1>2, <2>1 DEF DiskInv, DiskTypes, QueueInv, InQueue, Moving, Submitting
  <2>2. ASSUME NEW d \in Disks, op[d].kind \in {"read", "write"}, op[d].dest = r
        PROVE  Moving(r)
    <3>1. Transferring(d)
      BY <2>2 DEF Transferring, NoOp
    <3>2. op[d] = [kind |-> request[xreq[d]].kind,
                   sector |-> request[xreq[d]].sector, dest |-> xreq[d]]
      BY <1>3, <3>1 DEF DiskInv, OwesInv, AnswerInv
    <3>3. xreq[d] = r
      BY <2>2, <3>2
    <3>4. request[r].disk = d
      BY <1>2, <3>3 DEF DiskInv, RequestInv
    <3> QED
      BY <3>1, <3>4 DEF Moving
  <2> QED
    BY <1>4, <2>1, <2>2 DEF InFlight
<1>5. ASSUME Moving(r) PROVE InFlight(r)
  <2>1. CASE Submitting(e)
    BY <1>1, <2>1 DEF Submitting, DiskInv, QueueInv, InFlight
  <2>2. CASE Transferring(e)
    <3>1. op[e] = [kind |-> request[r].kind, sector |-> request[r].sector, dest |-> r]
      BY <1>1, <1>3, <2>2 DEF DiskInv, OwesInv, AnswerInv
    <3>2. request[r].kind \in {"read", "write"}
      BY DEF DiskInv, DiskTypes, Submissions
    <3> QED
      BY <1>1, <3>1, <3>2 DEF InFlight
  <2> QED
    BY <1>1, <1>5, <2>1, <2>2 DEF Moving
<1> QED
  BY <1>4, <1>5

LEMMA Abstraction == DiskInv => \A r \in Requests : AbstractStateIs(r)
<1> SUFFICES ASSUME DiskInv, NEW r \in Requests PROVE AbstractStateIs(r)
  OBVIOUS
<1>1. CASE state[r] = "started"
  BY <1>1, InFlightMoving DEF AbstractState, AbstractStateIs
<1>2. CASE state[r] # "started"
  BY <1>2 DEF AbstractState, AbstractStateIs
<1> QED
  BY <1>1, <1>2

LEMMA AbstractionNext == DiskInv' => \A r \in Requests : AbstractStateIs(r)'
<1>1. (DiskInv => \A r \in Requests : AbstractStateIs(r))'
  BY Abstraction, PTL
<1> QED
  BY <1>1

\* Requests that stay where they are look the same to the block layer.
LEMMA SameState ==
    ASSUME DiskInv, DiskInv', NEW r \in Requests, state'[r] = state[r],
           state[r] = "started" => (Moving(r)' <=> Moving(r))
    PROVE  AbstractState(r)' = AbstractState(r)
<1>1. AbstractStateIs(r) /\ AbstractStateIs(r)'
  BY Abstraction, AbstractionNext
<1>2. state[r] \in {"new", "started", "completing", "ended"}
  BY DEF DiskInv, DiskTypes
<1> QED
  BY <1>1, <1>2 DEF AbstractStateIs

LEMMA DeviceStutters ==
    ASSUME DiskInv, DiskInv', UNCHANGED <<request, state, data, media>>,
           \A r \in Requests : state[r] = "started" => (Moving(r)' <=> Moving(r))
    PROVE  UNCHANGED Device!vars
<1>1. \A r \in Requests : AbstractState(r)' = AbstractState(r)
  BY SameState
<1> QED
  BY <1>1 DEF Device!vars

LEMMA DeviceInit == Init => Device!Init
<1> SUFFICES ASSUME Init PROVE Device!Init
  OBVIOUS
<1>1. \A r \in Requests : AbstractState(r) = "new"
  BY DEF Init, DiskInit, AbstractState
<1>2. request \in [Requests -> Submissions]
  BY DiskAssumption DEF Init, DiskInit
<1> QED
  BY <1>1, <1>2 DEF Init, DiskInit, Device!Init, Device!Submissions, Device!Kinds, Submissions

\* queue_rq submits.
LEMMA DeviceSubmits ==
    ASSUME LockInv, DiskInv, DiskInv', queue_rq
    PROVE  \E r \in Requests : Device!Submit(r)
<1>1. PICK r \in Requests :
        /\ state[r] = "new"
        /\ \A s \in Requests :
              request[s].disk = request[r].disk => state[s] \in {"new", "ended"}
        /\ state' = [state EXCEPT ![r] = "started"]
        /\ cur' = r
  BY DEF queue_rq
<1>2. UNCHANGED <<request, data, media, op>> /\ qpc = "idle" /\ qpc' = "address"
  BY DEF queue_rq, controller
<1>3. state'[r] = "started" /\ \A s \in Requests : s # r => state'[s] = state[s]
  BY <1>1 DEF DiskInv, DiskTypes
<1>4. Moving(r)'
  BY <1>1, <1>2 DEF Moving, Submitting, InQueue
<1>5. AbstractState(r) = "new" /\ AbstractState(r)' = "submitted"
  <2>1. AbstractStateIs(r) /\ AbstractStateIs(r)'
    BY Abstraction, AbstractionNext
  <2> QED
    BY <1>1, <1>3, <1>4, <2>1 DEF AbstractStateIs
<1>6. ASSUME NEW s \in Requests, s # r PROVE AbstractState(s)' = AbstractState(s)
  <2>1. state[s] = "started" => request[s].disk # request[r].disk
    BY <1>1
  <2>2. state[s] = "started" => (Moving(s)' <=> Moving(s))
    BY <1>1, <1>2, <2>1 DEF Moving, Submitting, Transferring, InQueue
  <2> QED
    BY <1>3, <1>6, <2>2, SameState
<1>7. Device!Submit(r)
  BY <1>2, <1>5, <1>6 DEF Device!Submit
<1> QED
  BY <1>7

\* A transfer serves the request of its disk; before the probe it serves none.
LEMMA DeviceServes ==
    ASSUME LockInv, DiskInv, DiskInv', NEW e \in Disks, Transfer(e)
    PROVE  (\E r \in Requests : Device!Serve(r)) \/ UNCHANGED Device!vars
<1>1. /\ UNCHANGED <<request, state, xreq, qpc, cur, ppc>>
      /\ Transferring(e) /\ op' = [op EXCEPT ![e] = NoOp]
  BY DEF Transfer, driver, code, Transferring
<1>2. op'[e] = NoOp /\ \A d \in Disks : d # e => op'[d] = op[d]
  BY <1>1 DEF DiskInv, DiskTypes
<1>3. CASE Early
  <2>1. op[e] \in {NoOp, FirmwareOp} /\ \A d \in Disks : xreq[d] = NoRequest
    BY <1>3 DEF DiskInv, EarlyInv
  <2>2. op[e].kind \notin {"read", "write"}
    BY <2>1 DEF NoOp, FirmwareOp
  <2>3. UNCHANGED <<data, media>>
    BY <2>2 DEF Transfer
  <2>4. \A r \in Requests : state[r] # "started"
    BY <2>1, DriversAssumption DEF DiskInv, DiskTypes, RequestInv, Submissions
  <2> QED
    BY <1>1, <2>3, <2>4, DeviceStutters
<1>4. CASE ~Early
  <2>1. /\ OnlyOne(e) /\ xreq[e] # NoRequest
        /\ op[e] = [kind |-> request[xreq[e]].kind,
                    sector |-> request[xreq[e]].sector, dest |-> xreq[e]]
    BY <1>1, <1>4 DEF DiskInv, OwesInv, AnswerInv, Owes
  <2>2. PICK r \in Requests : r = xreq[e]
    BY <2>1 DEF DiskInv, DiskTypes
  <2>3. request[r].disk = e /\ state[r] = "started" /\ request[r] \in Submissions
    BY <2>1, <2>2 DEF DiskInv, DiskTypes, RequestInv
  <2>4. Moving(r) /\ ~Moving(r)'
    BY <1>1, <1>2, <2>1, <2>3 DEF Moving, OnlyOne, Submitting, Transferring, InQueue
  <2>5. AbstractState(r) = "submitted" /\ AbstractState(r)' = "served"
    <3>1. AbstractStateIs(r) /\ AbstractStateIs(r)'
      BY Abstraction, AbstractionNext
    <3> QED
      BY <1>1, <2>3, <2>4, <3>1 DEF AbstractStateIs
  <2>6. ASSUME NEW s \in Requests, s # r PROVE AbstractState(s)' = AbstractState(s)
    <3>1. state[s] = "started" => request[s].disk \in Disks /\ request[s].disk # e
      BY <2>2, <2>6 DEF DiskInv, DiskTypes, RequestInv, Submissions
    <3>2. state[s] = "started" => (Moving(s)' <=> Moving(s))
      BY <1>1, <1>2, <3>1 DEF Moving, Submitting, Transferring, InQueue
    <3> QED
      BY <1>1, <3>2, SameState
  <2>7. IF request[r].kind = "read"
        THEN data' = [data EXCEPT ![r] = media[e][request[r].sector]] /\ UNCHANGED media
        ELSE media' = [media EXCEPT ![e][request[r].sector] = data[r]] /\ UNCHANGED data
    <3>1. /\ op[e].kind = request[r].kind /\ op[e].sector = request[r].sector /\ op[e].dest = r
          /\ request[r].kind \in {"read", "write"}
      BY <2>1, <2>2, <2>3 DEF Submissions
    <3> QED
      BY <3>1 DEF Transfer
  <2>8. Device!Serve(r)
    BY <1>1, <2>3, <2>5, <2>6, <2>7 DEF Device!Serve
  <2> QED
    BY <2>8
<1> QED
  BY <1>3, <1>4

\* The softirq ends a request that was served.
LEMMA DeviceEnds ==
    ASSUME DiskInv, DiskInv', xrarch_disk_complete
    PROVE  \E r \in Requests : Device!End(r)
<1>1. PICK r \in done : state' = [state EXCEPT ![r] = "ended"]
  BY DEF xrarch_disk_complete
<1>2. UNCHANGED <<request, data, media, op, qpc, cur>>
  BY DEF xrarch_disk_complete, controller, code
<1>3. /\ r \in Requests /\ state[r] = "completing" /\ state'[r] = "ended"
      /\ \A s \in Requests : s # r => state'[s] = state[s]
  BY <1>1 DEF DiskInv, DiskTypes, RequestInv
<1>4. AbstractState(r) = "served" /\ AbstractState(r)' = "ended"
  <2>1. AbstractStateIs(r) /\ AbstractStateIs(r)'
    BY <1>3, Abstraction, AbstractionNext
  <2> QED
    BY <1>3, <2>1 DEF AbstractStateIs
<1>5. ASSUME NEW s \in Requests, s # r PROVE AbstractState(s)' = AbstractState(s)
  <2>1. Moving(s)' <=> Moving(s)
    BY <1>2 DEF Moving, Submitting, Transferring, InQueue
  <2> QED
    BY <1>3, <1>5, <2>1, SameState
<1>6. Device!End(r)
  BY <1>2, <1>3, <1>4, <1>5 DEF Device!End
<1> QED
  BY <1>3, <1>6

\* The handler gives up requests whose transfer is over.
LEMMA DeviceCollects ==
    ASSUME LockInv, DiskInv, DiskInv', IntCollect
    PROVE  UNCHANGED Device!vars
<1> DEFINE completed == data1[2]
           ended == {xreq[d] : d \in completed} \ {NoRequest}
<1>1. /\ UNCHANGED <<request, data, media, op, qpc, cur>>
      /\ claimed = DiskIrq /\ ipc = "collect"
      /\ state' = [r \in Requests |-> IF r \in ended THEN "completing" ELSE state[r]]
  BY DEF IntCollect, controller
<1>2. ~Early /\ completed \in SUBSET Disks
  BY <1>1 DEF DiskInv, EarlyInv, IntInv
<1>3. \A r \in Requests : Moving(r)' <=> Moving(r)
  BY <1>1 DEF Moving, Submitting, Transferring, InQueue
<1>4. ASSUME NEW r \in Requests PROVE AbstractState(r)' = AbstractState(r)
  <2>1. CASE r \notin ended
    BY <1>1, <1>3, <2>1, SameState
  <2>2. CASE r \in ended
    <3>1. PICK d \in Disks : d \in completed /\ r = xreq[d] /\ r # NoRequest
      BY <1>2, <2>2
    <3>2. request[r].disk = d /\ state[r] = "started"
      BY <3>1 DEF DiskInv, RequestInv
    <3>3. OnlyOne(d) /\ Collected(d)
      BY <1>1, <1>2, <3>1 DEF DiskInv, OwesInv, AnswerInv, Collected
    <3>4. ~Moving(r)
      BY <3>2, <3>3 DEF Moving, OnlyOne
    <3>5. state'[r] = "completing"
      BY <1>1, <2>2
    <3>6. AbstractStateIs(r) /\ AbstractStateIs(r)'
      BY Abstraction, AbstractionNext
    <3> QED
      BY <3>2, <3>4, <3>5, <3>6 DEF AbstractStateIs
  <2> QED
    BY <2>1, <2>2
<1> QED
  BY <1>1, <1>4 DEF Device!vars

\* The second step of queue_rq starts the transfer of what it was submitting.
LEMMA DeviceStarts ==
    ASSUME LockInv, DiskInv, DiskInv', QueueSubmit
    PROVE  UNCHANGED Device!vars
<1>1. UNCHANGED <<request, state, data, media>> /\ qpc = "submit" /\ qpc' = "idle"
  BY DEF QueueSubmit, block
<1>2. PICK e \in Disks : e = request[cur].disk /\ sel = e /\ dest = cur /\ cur \in Requests
  BY <1>1 DEF DiskInv, DiskTypes, QueueInv, InQueue, Submissions
<1>3. op' = [op EXCEPT ![e] = [kind |-> request[cur].kind, sector |-> request[cur].sector,
                               dest |-> cur]]
  BY <1>2 DEF QueueSubmit
<1>4. /\ op'[e] = [kind |-> request[cur].kind, sector |-> request[cur].sector, dest |-> cur]
      /\ \A d \in Disks : d # e => op'[d] = op[d]
  BY <1>3 DEF DiskInv, DiskTypes
<1>5. Transferring(e)'
  <2>1. op'[e].kind \in {"read", "write"}
    BY <1>2, <1>4 DEF DiskInv, DiskTypes, Submissions
  <2> QED
    BY <2>1 DEF Transferring, NoOp
<1>6. ASSUME NEW r \in Requests PROVE Moving(r)' <=> Moving(r)
  <2>1. PICK d \in Disks : d = request[r].disk
    BY DEF DiskInv, DiskTypes, Submissions
  <2>2. CASE d = e
    BY <1>1, <1>2, <1>5, <2>1, <2>2 DEF Moving, Submitting, InQueue
  <2>3. CASE d # e
    BY <1>1, <1>2, <1>4, <2>1, <2>3 DEF Moving, Submitting, Transferring, InQueue
  <2> QED
    BY <2>2, <2>3
<1> QED
  BY <1>1, <1>6, DeviceStutters

LEMMA DeviceStep ==
    ASSUME LockInv, DiskInv, DiskInv', [Next]_vars
    PROVE  Device!Next \/ UNCHANGED Device!vars
<1>1. ASSUME UNCHANGED diskVars PROVE UNCHANGED Device!vars
  BY <1>1, DeviceStutters DEF diskVars, block, driver, controller, code, Moving, Submitting,
                              Transferring, InQueue
<1>2. ASSUME QueueAddress \/ probe \/ IntComplete PROVE UNCHANGED Device!vars
  <2>1. UNCHANGED <<request, state, data, media, op, cur>> /\ (InQueue' <=> InQueue)
    BY <1>2 DEF QueueAddress, probe, ProbeWait, ProbeClear, ProbeIrq, ProbeInfo, ProbeAdd,
                IntComplete, CommandComplete, CommandInfo, block, controller, InQueue
  <2> QED
    BY <2>1, DeviceStutters DEF Moving, Submitting, Transferring
<1>3. CASE DiskNext
  BY <1>2, <1>3, DeviceSubmits, DeviceServes, DeviceEnds, DeviceCollects, DeviceStarts
     DEF DiskNext, queue, Handle, Device!Next
<1>4. CASE UNCHANGED diskVars
  BY <1>1, <1>4
<1> QED
  BY <1>3, <1>4 DEF Next, vars

\* The driver is a block device: each request is served exactly once by its own
\* disk and ends only then, for any number of disks and requests and whatever
\* comes in between.
THEOREM Implementation == Spec => ImplementsBlockDevice
<1>1. LockInv /\ DiskInv /\ DiskInv' /\ [Next]_vars => [Device!Next]_(Device!vars)
  BY DeviceStep
<1> QED
  BY <1>1, DeviceInit, Invariance, PTL DEF Spec, ImplementsBlockDevice, Device!Spec

=============================================================================
