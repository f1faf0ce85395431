----------------------------- MODULE LeasePool ------------------------------
(***************************************************************************)
(* What a resource branch promises its users: an entity is leased to at    *)
(* most one thread at a time, and those who queue for a leased entity get  *)
(* it in the order in which they queued.                                   *)
(***************************************************************************)
EXTENDS Sequences, SequencesExt

CONSTANTS Threads, Entities, Nobody

VARIABLES
  lease,   \* the thread that may use an entity, or Nobody
  queue    \* the threads waiting for it, first come first

vars == <<lease, queue>>

Init ==
  /\ lease = [e \in Entities |-> Nobody]
  /\ queue = [e \in Entities |-> <<>>]

Lease(t, e) ==
  /\ lease[e] = Nobody
  /\ lease' = [lease EXCEPT ![e] = t]
  /\ UNCHANGED queue

\* The lessee makes another thread the lessee.
PassOn(t, e) ==
  /\ lease[e] \notin {t, Nobody}
  /\ lease' = [lease EXCEPT ![e] = t]
  /\ UNCHANGED queue

\* Nobody queued, or the entity is taken out of service for good.
GiveUp(e) ==
  /\ lease[e] # Nobody
  /\ lease' = [lease EXCEPT ![e] = Nobody]
  /\ UNCHANGED queue

Queue(t, e) ==
  /\ lease[e] # t
  /\ \A d \in Entities : ~Contains(queue[d], t)
  /\ queue' = [queue EXCEPT ![e] = Append(@, t)]
  /\ UNCHANGED lease

HandOver(e) ==
  /\ lease[e] # Nobody
  /\ queue[e] # <<>>
  /\ lease' = [lease EXCEPT ![e] = Head(queue[e])]
  /\ queue' = [queue EXCEPT ![e] = Tail(@)]

Next ==
  \E e \in Entities :
    \/ GiveUp(e) \/ HandOver(e)
    \/ \E t \in Threads : Lease(t, e) \/ PassOn(t, e) \/ Queue(t, e)

Spec == Init /\ [][Next]_vars
=============================================================================
