----------------------------- MODULE DiskDriver -----------------------------
(* drivers/block/xrarch.c of the kernel port: one controller with several disks,
   a queue of depth one for each, one interrupt for all of them. Tasks submit
   requests and probe the disks; the interrupt handler collects completions and
   a softirq ends the requests.

   The controller is external, as the driver uses it: a command takes its operand
   from DATA0, so that a DATA0 write and the command after it are one step here;
   each disk transfers on its own; COMPLETE hands over the completed disks in
   DATA1 and forgets them, INFO puts a size there. A transfer never fails: the
   driver knows no error. The workload is chosen at the start; a request is of
   one segment inside a page, which is what the driver transfers, and of a size
   and at an address that it takes: what it asserts of the block layer's limits
   is left out. *)
EXTENDS Lsic

CONSTANTS Requests, Sectors, Blank,
          Disks,       \* bound: the slots 0 .. n - 1 the probe asks for
          Size,        \* slot -> sectors of its disk, 0 if there is none
          Workloads,   \* bound: what the requests may ask for
          DiskIrq, NoRequest

Submissions == [disk : Disks, kind : {"read", "write"}, sector : Sectors]

ASSUME DiskAssumption ==
    /\ \A i \in Disks : i \in Nat /\ (i = 0 \/ i - 1 \in Disks)
    /\ Size \in [Disks -> Nat]
    /\ Workloads \subseteq [Requests -> Submissions]
    /\ DiskIrq \in Irqs

VARIABLES
    request, state, data, media,   \* block layer: requests, buffers; the media
    xreq,                          \* disk -> xdisk->req
    disks,                         \* disk -> ctrl->disks[idx]: NULL, live, freed
    capacity,                      \* disk -> set_capacity
    done,                          \* requests the softirq has to end
    sel, dest, op, complete,       \* controller: SELECT, DEST, transfers, COMPLETE
    data1, diskIrqOn,              \* controller: DATA1, IRQ_ON
    qpc, cur, ppc, idx, ipc,       \* queue_rq, probe and interrupt handler: where
    unexpected     \* a completion or a request came that the driver does not expect

block == <<request, state, data, media>>
driver == <<xreq, disks, capacity, done, unexpected>>
controller == <<sel, dest, op, complete, data1, diskIrqOn>>
code == <<qpc, cur, ppc, idx, ipc>>
diskVars == <<block, driver, controller, code>>

-----------------------------------------------------------------------------
Drives == {d \in Disks : Size[d] > 0}
NoOp == [kind |-> "none"]
FirmwareOp == [kind |-> "firmware"]

\* What the controller may be left in: transfers going on, completions not
\* collected, anything in DATA1.
DiskInit ==
    /\ request \in {q \in Workloads :
                      \A r \in Requests : q[r].disk \in Drives}
    /\ state = [r \in Requests |-> "new"]
    /\ data = [r \in Requests |-> r]
    /\ media = [d \in Disks |-> [s \in Sectors |-> Blank]]
    /\ xreq = [d \in Disks |-> NoRequest]
    /\ disks = [d \in Disks |-> "NULL"]
    /\ capacity = [d \in Disks |-> 0]
    /\ done = {}
    /\ sel = 0 /\ dest = NoRequest
    /\ op \in {o \in [Disks -> {NoOp, FirmwareOp}] : \A d \in Disks \ Drives : o[d] = NoOp}
    /\ complete \in SUBSET Drives
    /\ data1 = <<"sectors", 0>>
    /\ diskIrqOn = FALSE
    /\ qpc = "idle" /\ cur = NoRequest
    /\ ppc = "busy" /\ idx = 0 /\ ipc = "idle"
    /\ unexpected = FALSE

-----------------------------------------------------------------------------
(* The controller. *)

\* A disk finishes its transfer.
Transfer(d) ==
    /\ op[d] # NoOp
    /\ LET o == op[d]
       IN  CASE o.kind = "read" ->
                  data' = [data EXCEPT ![o.dest] = media[d][o.sector]] /\ UNCHANGED media
             [] o.kind = "write" ->
                  media' = [media EXCEPT ![d][o.sector] = data[o.dest]] /\ UNCHANGED data
             [] OTHER -> UNCHANGED <<data, media>>
    /\ op' = [op EXCEPT ![d] = NoOp]
    /\ complete' = complete \cup {d}
    /\ IF diskIrqOn THEN Raise(DiskIrq) ELSE UNCHANGED pend
    /\ UNCHANGED <<request, state, driver, sel, dest, data1, diskIrqOn, code,
                   disa, claimed, handling, irqOn, owner>>

CommandComplete ==
    /\ data1' = <<"complete", complete>>
    /\ complete' = {}
    /\ UNCHANGED <<sel, dest, op, diskIrqOn>>

CommandInfo(i) ==
    /\ data1' = <<"sectors", Size[i]>>
    /\ UNCHANGED <<sel, dest, op, complete, diskIrqOn>>

-----------------------------------------------------------------------------
(* xrarch_disk_queue_rq, with the lock held from the first step to the last. *)

\* The block layer calls it for a disk that was added, one request at a time:
\* queue_depth is 1.
queue_rq ==
    /\ qpc = "idle"
    /\ \E r \in Requests :
          LET d == request[r].disk
          IN  /\ state[r] = "new"
              /\ capacity[d] > 0
              /\ \A s \in Requests :
                    request[s].disk = d => state[s] \in {"new", "ended"}
              /\ state' = [state EXCEPT ![r] = "started"]
              /\ unexpected' = (unexpected \/ xreq[d] # NoRequest)
              /\ xreq' = [xreq EXCEPT ![d] = r]
              /\ cur' = r
    /\ spin_lock_irqsave("queue")
    /\ qpc' = "address"
    /\ UNCHANGED <<request, data, media, disks, capacity, done, controller,
                   ppc, idx, ipc>>

\* Mutant: the disk is not selected.
QueueAddress_no_select ==
    /\ qpc = "address" /\ TaskRuns("queue")
    /\ dest' = cur
    /\ qpc' = "submit"
    /\ UNCHANGED <<block, driver, sel, op, complete, data1, diskIrqOn, cur, ppc,
                   idx, ipc, lsic>>

\* SELECT, DEST and COUNT, ...
QueueAddress ==
    /\ qpc = "address" /\ TaskRuns("queue")
    /\ sel' = request[cur].disk
    /\ dest' = cur
    /\ qpc' = "submit"
    /\ UNCHANGED <<block, driver, op, complete, data1, diskIrqOn, cur, ppc, idx,
                   ipc, lsic>>

\* ... and READ or WRITE with the sector.
QueueSubmit ==
    /\ qpc = "submit" /\ TaskRuns("queue")
    /\ op' = [op EXCEPT ![sel] = [kind |-> request[cur].kind,
                                  sector |-> request[cur].sector, dest |-> dest]]
    /\ spin_unlock_irqrestore
    /\ qpc' = "idle" /\ cur' = NoRequest
    /\ UNCHANGED <<block, driver, sel, dest, complete, data1, diskIrqOn, ppc, idx, ipc>>

-----------------------------------------------------------------------------
(* xrarch_disk_int and the softirq it raises. *)

IntComplete ==
    /\ claimed = DiskIrq /\ ipc = "idle"
    /\ CommandComplete
    /\ ipc' = "collect"
    /\ UNCHANGED <<block, driver, qpc, cur, ppc, idx, lsic>>

\* Mutant: one disk is handled per interrupt.
IntCollect_first_only ==
    /\ claimed = DiskIrq /\ ipc = "collect"
    /\ IF data1[2] = {} THEN UNCHANGED <<xreq, done, state>>
       ELSE LET d == CHOOSE d \in data1[2] : \A e \in data1[2] : d <= e
            IN  /\ xreq' = [xreq EXCEPT ![d] = NoRequest]
                /\ done' = done \cup ({xreq[d]} \ {NoRequest})
                /\ state' = [r \in Requests |-> IF r = xreq[d] THEN "completing" ELSE state[r]]
    /\ lsic_irq_eoi
    /\ ipc' = "idle"
    /\ UNCHANGED <<request, data, media, disks, capacity, unexpected, controller, qpc,
                   cur, ppc, idx>>

\* Every disk that completed gives up its request; blk_mq_complete_request
\* leaves it to the softirq.
IntCollect ==
    /\ claimed = DiskIrq /\ ipc = "collect"
    /\ LET completed == data1[2]
           ended == {xreq[d] : d \in completed} \ {NoRequest}
       IN  /\ unexpected' = (unexpected \/ \E d \in completed :
                                disks[d] # "live" \/ xreq[d] = NoRequest)
           /\ xreq' = [d \in Disks |-> IF d \in completed THEN NoRequest ELSE xreq[d]]
           /\ done' = done \cup ended
           /\ state' = [r \in Requests |-> IF r \in ended THEN "completing" ELSE state[r]]
    /\ lsic_irq_eoi
    /\ ipc' = "idle"
    /\ UNCHANGED <<request, data, media, disks, capacity, controller, qpc, cur,
                   ppc, idx>>

\* xrarch_disk_complete: the request ends and its tag is free again.
xrarch_disk_complete ==
    /\ ~handling /\ irqOn
    /\ \E r \in done :
          /\ done' = done \ {r}
          /\ state' = [state EXCEPT ![r] = "ended"]
    /\ UNCHANGED <<request, data, media, xreq, disks, capacity, unexpected, controller,
                   code, lsic>>

-----------------------------------------------------------------------------
(* xrarch_disk_probe. *)

\* Waits until no transfer goes on, then makes sure "next completion status
\* doesn't include stale info".
ProbeWait ==
    /\ ppc = "busy" /\ TaskRuns("probe")
    /\ \A d \in Disks : op[d] = NoOp
    /\ ppc' = "clear"
    /\ UNCHANGED <<block, driver, controller, qpc, cur, idx, ipc, lsic>>

\* Mutant: completions from before the probe are not collected.
ProbeClear_none ==
    /\ ppc = "clear" /\ TaskRuns("probe")
    /\ ppc' = "irq"
    /\ UNCHANGED <<block, driver, controller, qpc, cur, idx, ipc, lsic>>

ProbeClear ==
    /\ ppc = "clear" /\ TaskRuns("probe")
    /\ CommandComplete
    /\ ppc' = "irq"
    /\ UNCHANGED <<block, driver, qpc, cur, idx, ipc, lsic>>

\* request_irq unmasks the interrupt; IRQ_ON.
ProbeIrq ==
    /\ ppc = "irq" /\ TaskRuns("probe")
    /\ lsic_irq_set_masked(DiskIrq, FALSE)
    /\ diskIrqOn' = TRUE
    /\ ppc' = "info"
    /\ UNCHANGED <<block, driver, sel, dest, op, complete, data1, qpc, cur, idx,
                   ipc, pend, claimed, handling, irqOn, owner>>

\* Mutant: no lock around INFO and its answer.
ProbeInfo_unlocked ==
    /\ ppc = "info" /\ idx \in Disks
    /\ TaskRuns("probe")
    /\ CommandInfo(idx)
    /\ ppc' = "add"
    /\ UNCHANGED <<block, driver, qpc, cur, idx, ipc, lsic>>

ProbeInfo ==
    /\ ppc = "info" /\ idx \in Disks
    /\ spin_lock_irqsave("probe")
    /\ CommandInfo(idx)
    /\ ppc' = "add"
    /\ UNCHANGED <<block, driver, qpc, cur, idx, ipc>>

\* Reads the answer and, for a disk that is present, xrarch_disk_init_one: it may
\* fail before ctrl->disks[idx] is set or, in device_add_disk, after that, which
\* leaves the pointer to the freed disk; added, the disk takes requests at once.
ProbeAdd ==
    /\ ppc = "add" /\ TaskRuns("probe")
    /\ spin_unlock_irqrestore
    /\ IF Size[idx] = 0 THEN UNCHANGED <<disks, capacity>>
       ELSE \/ UNCHANGED <<disks, capacity>>
            \/ disks' = [disks EXCEPT ![idx] = "freed"] /\ UNCHANGED capacity
            \/ /\ disks' = [disks EXCEPT ![idx] = "live"]
               /\ capacity' = [capacity EXCEPT ![idx] =
                                 IF data1[1] = "sectors" THEN data1[2] ELSE -1]
    /\ idx' = idx + 1
    /\ ppc' = "info"
    /\ UNCHANGED <<block, xreq, done, unexpected, controller, qpc, cur, ipc>>

-----------------------------------------------------------------------------
queue == queue_rq \/ QueueAddress \/ QueueSubmit

probe == ProbeWait \/ ProbeClear \/ ProbeIrq \/ ProbeInfo \/ ProbeAdd

Handle == IntComplete \/ IntCollect

DiskNext == queue \/ probe \/ Handle \/ xrarch_disk_complete
            \/ \E d \in Disks : Transfer(d)

=============================================================================
