------------------------- MODULE ResourceTreeLease --------------------------
(***************************************************************************)
(* ResourceTree implements LeasePool: the lessee of an entity is its       *)
(* owner, and its queue is the waiters in the order of their tickets,      *)
(* across the wrap of the ticket counters.                                 *)
(***************************************************************************)
EXTENDS ResourceTree

lease ==
  [e \in Entities |-> IF Owners(e) = {} THEN Nobody ELSE CHOOSE t \in Owners(e) : TRUE]

Pending(e) == (waiters_head[e] - waiters_bottom[e]) % (MaxTicket + 1)

\* The waiter with the ticket that is k after the one that is up, if it has one.
InLine(e, k) ==
  LET due == {t \in Threads :
                Waits(t, e) /\ ticket[t] = (waiters_bottom[e] + k) % (MaxTicket + 1)}
  IN IF due = {} THEN Nobody ELSE CHOOSE t \in due : TRUE

queue == [e \in Entities |-> [k \in 1..Pending(e) |-> InLine(e, k)]]

Pool == INSTANCE LeasePool

\* Every step of resourcetree.c is a step of the pool: exclusive leases, and
\* hand-overs by set_free and set_loaded in the order of get_loaded's,
\* get_specific's and block_until_free's tickets.
ImplementsPool == Pool!Spec
=============================================================================
