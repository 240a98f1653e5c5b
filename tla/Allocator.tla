------------------------------ MODULE Allocator ------------------------------
(***************************************************************************)
(* What the bootloader's heap promises to its callers                      *)
(* (bootloader/memory.h), without saying how it finds the memory: blocks   *)
(* lie in the memory it was given and never share a unit, a permanent      *)
(* block stays forever, a temporary one keeps its place until its owner    *)
(* resizes or frees it, and an aligned block is aligned.                   *)
(***************************************************************************)
EXTENDS Integers

CONSTANTS Requests, Growths

VARIABLES memory, live, pinned

Units(b) == b.ptr..(b.ptr + b.size - 1)

Taken(blocks) == UNION {Units(b) : b \in blocks}

\* A block of the given size that shares no unit with the given blocks.
Place(ptr, size, align, others) ==
  /\ ptr % align = 0
  /\ ptr..(ptr + size - 1) \subseteq memory \ Taken(others)

Init ==
  /\ memory = {}
  /\ live = {}
  /\ pinned = {}

Give ==
  /\ memory \subseteq memory'
  /\ UNCHANGED <<live, pinned>>

Allocate(q) ==
  /\ \E ptr \in memory :
       /\ Place(ptr, q.size, q.align, live \union pinned)
       /\ LET new == {[ptr |-> ptr, size |-> q.size]} IN
            IF q.permanent
              THEN pinned' = pinned \union new /\ live' = live
              ELSE live' = live \union new /\ pinned' = pinned
  /\ UNCHANGED memory

Resize(b, growth) ==
  /\ \E ptr \in memory :
       /\ Place(ptr, b.size + growth, 1, (live \ {b}) \union pinned)
       /\ live' = (live \ {b}) \union {[ptr |-> ptr, size |-> b.size + growth]}
  /\ UNCHANGED <<memory, pinned>>

Free(b) ==
  /\ live' = live \ {b}
  /\ UNCHANGED <<memory, pinned>>

Next ==
  \/ Give
  \/ \E q \in Requests : Allocate(q)
  \/ \E b \in live : Free(b) \/ \E growth \in Growths : Resize(b, growth)

Spec == Init /\ [][Next]_<<memory, live, pinned>>
==============================================================================
