----------------------------- MODULE BlockDevice ----------------------------
(* What the block layer expects of a disk driver: every request it submits is
   served exactly once, by the disk it was submitted to, and ends after that and
   not before; a read returns what the medium holds when it is served. *)
CONSTANTS Requests, Disks, Sectors, Blank

VARIABLES request,  \* request -> disk, kind and sector, once it is submitted
          state,    \* request -> "new", "submitted", "served" or "ended"
          data,     \* request -> what its buffer holds
          media     \* disk -> sector -> what it holds

vars == <<request, state, data, media>>

Kinds == {"read", "write"}
Submissions == [disk : Disks, kind : Kinds, sector : Sectors]

Init ==
    /\ request \in [Requests -> Submissions]
    /\ state = [r \in Requests |-> "new"]
    /\ data = [r \in Requests |-> r]
    /\ media = [d \in Disks |-> [s \in Sectors |-> Blank]]

Submit(r) ==
    /\ state[r] = "new"
    /\ state' = [state EXCEPT ![r] = "submitted"]
    /\ UNCHANGED <<request, data, media>>

Serve(r) ==
    /\ state[r] = "submitted"
    /\ state' = [state EXCEPT ![r] = "served"]
    /\ LET q == request[r]
       IN  IF q.kind = "read"
           THEN /\ data' = [data EXCEPT ![r] = media[q.disk][q.sector]]
                /\ UNCHANGED media
           ELSE /\ media' = [media EXCEPT ![q.disk][q.sector] = data[r]]
                /\ UNCHANGED data
    /\ UNCHANGED request

End(r) ==
    /\ state[r] = "served"
    /\ state' = [state EXCEPT ![r] = "ended"]
    /\ UNCHANGED <<request, data, media>>

Next == \E r \in Requests : Submit(r) \/ Serve(r) \/ End(r)

Spec == Init /\ [][Next]_vars

=============================================================================
