------------------------- MODULE ResourceTreeProofs -------------------------
(***************************************************************************)
(* Theorems about ResourceTree, for any number of threads, entities and    *)
(* sessions: its types, its mutual exclusion (an entity has one owner at   *)
(* most, and it has one exactly while it is on the busy list), and what it *)
(* promises its callers:                                                   *)
(*                                                                         *)
(*   - a session's tags: no entity on the free list carries one, which is  *)
(*     what get_loaded asserts, and block_until_free leaves none behind;   *)
(*   - the abstract pool: every step of the branch is one of LeasePool's,  *)
(*     exclusive leases handed over first come first served;               *)
(*   - on diskbranch, that no wake-up of get_free is lost;                 *)
(*   - on membranch, that its sleepers learn that all buffers are lost;    *)
(*   - and, while sessions play back, that get_loaded delivers the file it *)
(*     was asked for, waits only for what has an owner, and wakes up.      *)
(*                                                                         *)
(* Ownership goes by tickets, so the invariant that carries the proof is   *)
(* about them: the tickets given out and not yet up form a window of the   *)
(* counters' cycle, every waiter has one of them, or the one that is up,   *)
(* no two waiters have the same one, and every one of them has its waiter. *)
(*                                                                         *)
(* Of the promises, the first needs to know which calls are still under    *)
(* way once a session was joined (CallsInv); the second that the tickets   *)
(* between the two counters are exactly the waiters, in order, across the  *)
(* wrap; the third that as many threads are awake as there are entities to *)
(* take; the last whose session each entity in use belongs to, so that     *)
(* nobody else waits for it (PlayInv).                                     *)
(***************************************************************************)
EXTENDS ResourceTree, ResourceTreeLease, FiniteSetTheorems, SequenceTheorems, TLAPS

-----------------------------------------------------------------------------
(* Types                                                                     *)

\* Where a thread is inside a call that is about one particular entity.
AboutEntity == {"acquire", "grant", "ticket", "waiting", "waitwoken", "reclaim"}

NamesEntity == \A t \in Threads : pc[t] \in AboutEntity => ent[t] \in Entities

TypeInv == TypeOK /\ NamesEntity

-----------------------------------------------------------------------------
(* Helpers                                                                   *)

\* pthread_cond_signal changes the state of sleepers only, and wakes them up.
LEMMA SignalEffect ==
  ASSUME NEW control \in [Threads -> PCs], NEW sleepers \in SUBSET Threads,
         NEW awake \in PCs, NEW after \in Signal(control, sleepers, awake)
  PROVE  /\ after \in [Threads -> PCs]
         /\ \A u \in Threads : \/ after[u] = control[u]
                               \/ u \in sleepers /\ after[u] = awake
<1>1. CASE sleepers = {}
  BY <1>1 DEF Signal
<1>2. CASE sleepers # {}
  <2>1. PICK u \in sleepers : after = [control EXCEPT ![u] = awake]
    BY <1>2 DEF Signal
  <2> QED BY <2>1
<1> QED BY <1>1, <1>2

\* A ticket counter never leaves the range of an int16_t's non-negative values.
LEMMA TicketType ==
  ASSUME NEW x \in 0..MaxTicket
  PROVE  ADD_SAFELY_INT16T(x) \in 0..MaxTicket
BY TicketAssumption DEF ADD_SAFELY_INT16T

\* SetFree's signal wakes a sleeper of get_free and touches nobody else.
LEMMA SetFreeEffect ==
  ASSUME TypeOK, NEW t \in Threads, NEW e \in Entities, SetFree(t, e), pc[t] = "idle"
  PROVE  /\ pc' \in [Threads -> PCs]
         /\ \A u \in Threads : \/ pc'[u] = pc[u]
                               \/ pc[u] = "busywait" /\ pc'[u] = "busywoken"
                               \/ u = t /\ pc'[t] = "grant" /\ ent'[t] = e
<1>1. CASE waiters_bottom[e] # waiters_head[e]
  BY <1>1 DEF TypeOK, SetFree, PCs
<1>2. CASE waiters_bottom[e] = waiters_head[e]
  <2>1. pc' \in Signal(pc, BusySleepers, "busywoken")
    BY <1>2 DEF SetFree
  <2> QED BY <2>1, SignalEffect DEF TypeOK, BusySleepers, PCs
<1> QED BY <1>1, <1>2

\* NextTicket's signal wakes a waiter of the entity and touches nobody else.
LEMMA NextTicketEffect ==
  ASSUME TypeOK, NEW e \in Entities, NEW control \in [Threads -> PCs], NextTicket(e, control)
  PROVE  /\ pc' \in [Threads -> PCs]
         /\ \A u \in Threads : \/ pc'[u] = control[u]
                               \/ pc[u] = "waiting" /\ pc'[u] = "waitwoken"
         /\ waiters_bottom' \in [Entities -> 0..MaxTicket]
<1>1. pc' \in Signal(control, WaitSleepers(e), "waitwoken")
  BY DEF NextTicket
<1>2. /\ pc' \in [Threads -> PCs]
      /\ \A u \in Threads : \/ pc'[u] = control[u]
                            \/ u \in WaitSleepers(e) /\ pc'[u] = "waitwoken"
  BY <1>1, SignalEffect DEF WaitSleepers, PCs
<1> QED BY <1>2, TicketType DEF NextTicket, TypeOK, WaitSleepers

-----------------------------------------------------------------------------
(* Type correctness                                                          *)

LEMMA TypeInit == Init => TypeInv
BY ConstantsAssumption, TicketAssumption
DEF Init, TypeInv, TypeOK, NamesEntity, AboutEntity, Lists, PCs, Stages

\* A woken thread and one that never slept take a free entity the same way.
LEMMA TypeTakeFree ==
  ASSUME TypeInv, NEW t \in Threads, NEW key \in Keys \cup {NoKey}, TakeFree(t, key)
  PROVE  TypeInv'
BY DEF TypeInv, NamesEntity, AboutEntity, TypeOK, TakeFree, FreeFit, On, Lists, PCs, OpNames

LEMMA TypeSleep ==
  ASSUME TypeInv, NEW t \in Threads, NEW key \in Keys \cup {NoKey}, SleepOnBusysignal(t, key)
  PROVE  TypeInv'
BY DEF TypeInv, NamesEntity, AboutEntity, TypeOK, SleepOnBusysignal, entityVars, PCs, OpNames

\* A call that ends leaves its locals reset.
LEMMA TypeLeave ==
  ASSUME TypeOK, NEW t \in Threads, Leave(t)
  PROVE  /\ op' \in [Threads -> OpNames \cup {"none"}]
         /\ ent' \in [Threads -> Entities \cup {Nobody}]
         /\ want' \in [Threads -> Keys \cup {NoKey}]
         /\ ticket' \in [Threads -> 0..MaxTicket]
         /\ \A u \in Threads : u # t => ent'[u] = ent[u] /\ ticket'[u] = ticket[u]
BY TicketAssumption DEF TypeOK, Leave

LEMMA TypeExit ==
  ASSUME TypeInv, NEW t \in Threads, NEW where_ \in {"idle", "exited"}, Leave(t),
         pc' = [pc EXCEPT ![t] = where_], UNCHANGED <<entityVars, stage>>,
         holds' \in [Threads -> SUBSET Entities]
  PROVE  TypeInv'
BY TypeLeave DEF TypeInv, NamesEntity, AboutEntity, TypeOK, entityVars, PCs

LEMMA TypeSetFree ==
  ASSUME TypeInv, NEW t \in Threads, NEW e \in Entities, SetFree(t, e), pc[t] = "idle",
         full' \in SUBSET Entities
  PROVE  TypeInv'
<1>1. TypeOK /\ NamesEntity
  BY DEF TypeInv
<1>2. NamesEntity'
  BY <1>1, SetFreeEffect DEF NamesEntity, AboutEntity, SetFree, TypeOK
<1>3. tag' \in [Entities -> Keys \cup {NoKey}] /\ pc' \in [Threads -> PCs]
  BY <1>1, SetFreeEffect DEF TypeOK, SetFree, ReleaseEntity
<1>4. TypeOK'
  <2>1. CASE waiters_bottom[e] # waiters_head[e]
    BY <1>1, <1>3, <2>1 DEF TypeOK, SetFree, OpNames
  <2>2. CASE waiters_bottom[e] = waiters_head[e]
    BY <1>1, <1>3, <2>2 DEF TypeOK, SetFree, Lists
  <2> QED BY <2>1, <2>2
<1> QED BY <1>2, <1>4 DEF TypeInv

LEMMA TypeQueueFor ==
  ASSUME TypeInv, NEW t \in Threads, NEW e \in Entities, NEW name \in OpNames,
         NEW key \in Keys, QueueFor(t, e, name, key)
  PROVE  TypeInv'
BY DEF TypeInv, NamesEntity, AboutEntity, TypeOK, QueueFor, PCs

LEMMA TypeBlockScan ==
  ASSUME TypeInv, NEW t \in Threads,
         NEW lists \in [Entities -> Lists], NEW tags \in [Entities -> Keys \cup {NoKey}],
         BlockScan(t, lists, tags),
         UNCHANGED <<full, waiters_head, waiters_bottom, holds>>
  PROVE  TypeInv'
<1> DEFINE s == SessionOf[t]
           Owned(list) == {e \in Entities : lists[e] = list /\ tags[e] \in {s} \X Seqs}
<1>1. CASE \E e \in Owned("busylist") :
             /\ waitlock' = [waitlock EXCEPT ![e] = t]
             /\ pc' = [pc EXCEPT ![t] = "ticket"]
             /\ op' = [op EXCEPT ![t] = "block_until_free"]
             /\ ent' = [ent EXCEPT ![t] = e]
             /\ ticket' = [ticket EXCEPT ![t] = 0]
             /\ where' = lists
             /\ tag' = tags
             /\ UNCHANGED <<want, stage>>
  BY <1>1, TicketAssumption
  DEF TypeInv, NamesEntity, AboutEntity, TypeOK, PCs, OpNames
<1>2. CASE /\ where' = [e \in Entities |->
                          IF e \in Owned("loadedlist") THEN "freelist" ELSE lists[e]]
           /\ tag' = [e \in Entities |->
                          IF e \in Owned("loadedlist") THEN NoKey ELSE tags[e]]
           /\ stage' = [stage EXCEPT ![s] = "finished"]
           /\ pc' = [pc EXCEPT ![t] = "exited"]
           /\ Leave(t)
           /\ UNCHANGED waitlock
  <2>1. where' \in [Entities -> Lists] /\ tag' \in [Entities -> Keys \cup {NoKey}]
    BY <1>2 DEF Lists
  <2>2. stage' \in [Sessions -> Stages]
    BY <1>2 DEF TypeInv, TypeOK, Stages
  <2> QED BY <1>2, <2>1, <2>2, TypeLeave
          DEF TypeInv, NamesEntity, AboutEntity, TypeOK, PCs
<1> QED BY <1>1, <1>2 DEF BlockScan

\* The steps a call takes by itself keep every variable in its type.
LEMMA TypeContinue ==
  ASSUME TypeInv, NEW t \in Threads, Continue(t)
  PROVE  TypeInv'
<1>0. TypeOK /\ NamesEntity
  BY DEF TypeInv
<1>1. CASE GetFreeWoken(t)
  <2>1. want[t] \in Keys \cup {NoKey}
    BY <1>0 DEF TypeOK
  <2>2. CASE \/ Quits(t) /\ pc' = [pc EXCEPT ![t] = "exited"] /\ Leave(t)
                /\ UNCHANGED <<entityVars, holds, stage>>
             \/ NoEntityLeft(t)
    BY <1>0, <2>2, TypeExit DEF NoEntityLeft, TypeOK
  <2>3. CASE TakeFree(t, want[t])
    BY <2>1, <2>3, TypeTakeFree
  <2>4. CASE SleepOnBusysignal(t, want[t])
    BY <2>1, <2>4, TypeSleep
  <2> QED BY <1>1, <2>2, <2>3, <2>4 DEF GetFreeWoken
<1>2. CASE Acquire(t)
  <2>1. ent[t] \in Entities /\ want[t] \in Keys \cup {NoKey}
    BY <1>0, <1>2 DEF Acquire, NamesEntity, AboutEntity, TypeOK
  <2>2. tag' \in [Entities -> Keys \cup {NoKey}]
    BY <1>0, <1>2, <2>1 DEF Acquire, TypeOK
  <2> QED BY <1>0, <1>2, <2>2, TypeLeave
          DEF Acquire, TypeInv, NamesEntity, AboutEntity, TypeOK, PCs
<1>3. CASE Grant(t)
  <2>1. ent[t] \in Entities
    BY <1>0, <1>3 DEF Grant, NamesEntity, AboutEntity
  <2>2. [pc EXCEPT ![t] = "idle"] \in [Threads -> PCs]
    BY <1>0 DEF TypeOK, PCs
  <2>3. /\ pc' \in [Threads -> PCs]
        /\ \A u \in Threads : \/ pc'[u] = [pc EXCEPT ![t] = "idle"][u]
                              \/ pc[u] = "waiting" /\ pc'[u] = "waitwoken"
        /\ waiters_bottom' \in [Entities -> 0..MaxTicket]
    BY <1>0, <1>3, <2>1, <2>2, NextTicketEffect DEF Grant
  <2>4. Leave(t) /\ UNCHANGED <<where, tag, full, waiters_head, waitlock, stage>>
    BY <1>3 DEF Grant
  <2>5. holds' \in [Threads -> SUBSET Entities]
    BY <1>0, <1>3 DEF Grant, TypeOK
  <2>6. TypeOK'
    BY <1>0, <2>3, <2>4, <2>5, TypeLeave DEF TypeOK
  <2>7. pc[t] = "grant"
    BY <1>3 DEF Grant
  <2>8. NamesEntity'
    BY <1>0, <2>3, <2>4, <2>7, TypeLeave DEF NamesEntity, AboutEntity, TypeOK
  <2> QED BY <2>6, <2>8 DEF TypeInv
<1>4. CASE TakeTicket(t)
  <2>1. ent[t] \in Entities
    BY <1>0, <1>4 DEF TakeTicket, NamesEntity, AboutEntity
  <2>2. waiters_head[ent[t]] \in 0..MaxTicket
    BY <1>0, <2>1 DEF TypeOK
  <2>3. ADD_SAFELY_INT16T(waiters_head[ent[t]]) \in 0..MaxTicket
    BY <2>2, TicketType
  <2>4. TypeOK'
    BY <1>0, <1>4, <2>1, <2>3 DEF TakeTicket, TypeOK, PCs
  <2>5. NamesEntity'
    BY <1>0, <1>4, <2>1 DEF TakeTicket, NamesEntity, AboutEntity, TypeOK
  <2> QED BY <2>4, <2>5 DEF TypeInv
<1>5. CASE CheckTicket(t)
  <2>1. ent[t] \in Entities
    BY <1>0, <1>5 DEF CheckTicket, NamesEntity, AboutEntity
  <2>2. holds' \in [Threads -> SUBSET Entities]
    BY <1>0, <1>5, <2>1 DEF CheckTicket, TypeOK
  <2>3. CASE pc' = [pc EXCEPT ![t] = "idle"] /\ Leave(t)
    BY <1>5, <2>2, <2>3, TypeExit DEF CheckTicket
  <2>4. CASE /\ \E next \in {"waiting", "acquire", "reclaim"} : pc' = [pc EXCEPT ![t] = next]
             /\ UNCHANGED <<op, ent, want, ticket>>
    <3>1. UNCHANGED <<entityVars, stage>>
      BY <1>5 DEF CheckTicket
    <3> QED BY <1>0, <2>1, <2>2, <2>4, <3>1
            DEF TypeInv, TypeOK, NamesEntity, AboutEntity, entityVars, PCs
  <2> QED BY <1>5, <2>3, <2>4 DEF CheckTicket
<1>6. CASE Reclaim(t)
  <2>1. [where EXCEPT ![ent[t]] = "freelist"] \in [Entities -> Lists]
    BY <1>0 DEF TypeOK, Lists
  <2>2. [tag EXCEPT ![ent[t]] = NoKey] \in [Entities -> Keys \cup {NoKey}]
    BY <1>0 DEF TypeOK
  <2> QED BY <1>6, <2>1, <2>2, TypeBlockScan DEF Reclaim
<1> QED BY <1>1, <1>2, <1>3, <1>4, <1>5, <1>6 DEF Continue

\* However a holder passes its entity on, every variable stays in its type.
LEMMA TypeRelease ==
  ASSUME TypeInv, NEW t \in Threads, NEW e \in Entities, Release(t, e)
  PROVE  TypeInv'
<1>0. TypeOK /\ NamesEntity
  BY DEF TypeInv
<1>1. CASE set_free(t, e) \/ DiskFull(t, e)
  <2>1. SetFree(t, e) /\ pc[t] = "idle" /\ full' \in SUBSET Entities
    BY <1>0, <1>1 DEF set_free, DiskFull, Calls, TypeOK
  <2> QED BY <2>1, TypeSetFree
<1>2. CASE set_loaded(t, e)
  <2>1. /\ pc' \in [Threads -> PCs]
        /\ \A u \in Threads : \/ pc'[u] = pc[u]
                              \/ pc[u] = "waiting" /\ pc'[u] = "waitwoken"
        /\ waiters_bottom' \in [Entities -> 0..MaxTicket]
    <3>1. CASE waiters_head[e] # waiters_bottom[e]
      BY <1>0, <1>2, <3>1, NextTicketEffect DEF set_loaded, TypeOK
    <3>2. CASE waiters_head[e] = waiters_bottom[e]
      BY <1>0, <1>2, <3>2 DEF set_loaded, TypeOK
    <3> QED BY <3>1, <3>2
  <2>2. where' \in [Entities -> Lists] /\ holds' \in [Threads -> SUBSET Entities]
    BY <1>0, <1>2 DEF set_loaded, TypeOK, Lists
  <2>3. UNCHANGED <<tag, full, waiters_head, waitlock, op, ent, want, ticket, stage>>
    BY <1>2 DEF set_loaded
  <2> QED BY <1>0, <2>1, <2>2, <2>3 DEF TypeInv, TypeOK, NamesEntity, AboutEntity
<1>3. CASE set_ready(t, e)
  BY <1>0, <1>3
  DEF set_ready, entityVars, TypeInv, TypeOK, NamesEntity, AboutEntity
<1>4. CASE remove_from_branch(t, e)
  <2>1. /\ pc' \in [Threads -> PCs]
        /\ \A u \in Threads : pc'[u] \in AboutEntity => pc'[u] = pc[u]
    BY <1>0, <1>4 DEF remove_from_branch, BroadcastBusy, TypeOK, PCs, AboutEntity
  <2> QED BY <1>0, <1>4, <2>1
          DEF remove_from_branch, TypeInv, TypeOK, NamesEntity, AboutEntity, Lists
<1> QED BY <1>1, <1>2, <1>3, <1>4 DEF Release

\* So does a call that asks for an entity.
LEMMA TypeObtain ==
  ASSUME TypeInv, NEW t \in Threads, Obtain(t)
  PROVE  TypeInv'
<1>0. TypeOK /\ NamesEntity
  BY DEF TypeInv
<1>k. \A q \in Seqs : <<SessionOf[t], q>> \in Keys
  BY ConstantsAssumption DEF Keys
<1>1. CASE get_free(t)
  <2>1. CASE NoEntityLeft(t)
    BY <1>0, <2>1, TypeExit DEF NoEntityLeft, TypeOK
  <2>2. CASE \E q \in Seqs : \/ TakeFree(t, <<SessionOf[t], q>>)
                             \/ SleepOnBusysignal(t, <<SessionOf[t], q>>)
    BY <1>k, <2>2, TypeTakeFree, TypeSleep
  <2> QED BY <1>1, <2>1, <2>2 DEF get_free
<1>2. CASE get_loaded(t)
  <2>1. PICK q \in Seqs :
          \/ \E e \in Found("busylist", <<SessionOf[t], q>>) :
                QueueFor(t, e, "get_loaded", <<SessionOf[t], q>>)
          \/ \E e \in Found("loadedlist", <<SessionOf[t], q>>) :
                /\ where' = [where EXCEPT ![e] = "busylist"]
                /\ holds' = [holds EXCEPT ![t] = @ \cup {e}]
                /\ UNCHANGED <<tag, full, waiters_head, waiters_bottom, waitlock,
                               pc, op, ent, want, ticket, stage>>
    BY <1>2 DEF get_loaded
  <2>2. CASE \E e \in Found("busylist", <<SessionOf[t], q>>) :
                QueueFor(t, e, "get_loaded", <<SessionOf[t], q>>)
    BY <1>k, <2>2, TypeQueueFor DEF Found, On, OpNames
  <2>3. CASE \E e \in Found("loadedlist", <<SessionOf[t], q>>) :
                /\ where' = [where EXCEPT ![e] = "busylist"]
                /\ holds' = [holds EXCEPT ![t] = @ \cup {e}]
                /\ UNCHANGED <<tag, full, waiters_head, waiters_bottom, waitlock,
                               pc, op, ent, want, ticket, stage>>
    BY <1>0, <2>3 DEF TypeInv, TypeOK, NamesEntity, AboutEntity, Found, On, Lists
  <2> QED BY <2>1, <2>2, <2>3
<1>3. CASE \E e \in Entities : get_specific(t, e)
  <2>1. PICK e \in Entities, q \in Seqs :
          \/ /\ where' = [where EXCEPT ![e] = "busylist"]
             /\ holds' = [holds EXCEPT ![t] = @ \cup {e}]
             /\ pc' = [pc EXCEPT ![t] = "acquire"]
             /\ op' = [op EXCEPT ![t] = "get_specific"]
             /\ ent' = [ent EXCEPT ![t] = e]
             /\ want' = [want EXCEPT ![t] = <<SessionOf[t], q>>]
             /\ UNCHANGED <<tag, full, waiters_head, waiters_bottom, waitlock, ticket, stage>>
          \/ QueueFor(t, e, "get_specific", <<SessionOf[t], q>>)
    BY <1>3 DEF get_specific
  <2>2. CASE QueueFor(t, e, "get_specific", <<SessionOf[t], q>>)
    BY <1>k, <2>2, TypeQueueFor DEF OpNames
  <2>3. CASE /\ where' = [where EXCEPT ![e] = "busylist"]
             /\ holds' = [holds EXCEPT ![t] = @ \cup {e}]
             /\ pc' = [pc EXCEPT ![t] = "acquire"]
             /\ op' = [op EXCEPT ![t] = "get_specific"]
             /\ ent' = [ent EXCEPT ![t] = e]
             /\ want' = [want EXCEPT ![t] = <<SessionOf[t], q>>]
             /\ UNCHANGED <<tag, full, waiters_head, waiters_bottom, waitlock, ticket, stage>>
    BY <1>0, <1>k, <2>3
    DEF TypeInv, TypeOK, NamesEntity, AboutEntity, Lists, PCs, OpNames
  <2> QED BY <2>1, <2>2, <2>3
<1> QED BY <1>1, <1>2, <1>3 DEF Obtain

\* And so do the end of a session and a wake-up that nobody caused.
LEMMA TypeEndSession ==
  ASSUME TypeInv, NEW t \in Threads, EndSession(t) \/ SpuriousWakeup(t)
  PROVE  TypeInv'
<1>0. TypeOK /\ NamesEntity
  BY DEF TypeInv
<1>1. CASE Shutdown(t) \/ Join(t)
  BY <1>0, <1>1, ConstantsAssumption
  DEF Shutdown, Join, MovesTo, entityVars, threadVars,
      TypeInv, TypeOK, NamesEntity, AboutEntity, Stages
<1>2. CASE WakeSleepers(t)
  <2>1. /\ pc' \in [Threads -> PCs]
        /\ \A u \in Threads : pc'[u] \in AboutEntity => pc'[u] = pc[u]
    BY <1>0, <1>2 DEF WakeSleepers, BroadcastBusy, TypeOK, PCs, AboutEntity
  <2> QED BY <1>0, <1>2, <2>1, ConstantsAssumption
          DEF WakeSleepers, MovesTo, entityVars, TypeInv, TypeOK, NamesEntity, Stages
<1>3. CASE block_until_free(t)
  BY <1>0, <1>3, TypeBlockScan DEF block_until_free, TypeOK
<1>4. CASE SpuriousWakeup(t)
  BY <1>0, <1>4
  DEF SpuriousWakeup, entityVars, TypeInv, TypeOK, NamesEntity, AboutEntity, PCs
<1> QED BY <1>1, <1>2, <1>3, <1>4 DEF EndSession

\* Every variable of the branch stays in its type, the ticket counters within
\* an int16_t's non-negative values among them, whatever the threads do.
THEOREM TypeCorrect == Spec => []TypeOK
<1>1. Init => TypeInv
  BY TypeInit
<1>2. TypeInv /\ [Next]_vars => TypeInv'
  <2> SUFFICES ASSUME TypeInv, [Next]_vars PROVE TypeInv'
    OBVIOUS
  <2>1. CASE Next
    BY <2>1, TypeContinue, TypeObtain, TypeEndSession, TypeRelease DEF Next
  <2>2. CASE UNCHANGED vars
    BY <2>2 DEF vars, entityVars, threadVars, TypeInv, TypeOK, NamesEntity
  <2> QED BY <2>1, <2>2
<1>3. TypeInv => TypeOK
  BY DEF TypeInv
<1> QED BY <1>1, <1>2, <1>3, PTL DEF Spec

-----------------------------------------------------------------------------
(* Tickets and owners                                                        *)

\* The tickets after waiters_bottom up to waiters_head, across the wrap.
InWindow(k, bottom, head) ==
  IF bottom <= head THEN bottom < k /\ k <= head ELSE bottom < k \/ k <= head

TicketsInWindow ==
  \A t \in Threads, e \in Entities : Waits(t, e) =>
    \/ ticket[t] = waiters_bottom[e]
    \/ InWindow(ticket[t], waiters_bottom[e], waiters_head[e])

TicketsDistinct ==
  \A t, u \in Threads, e \in Entities :
    Waits(t, e) /\ Waits(u, e) /\ ticket[t] = ticket[u] => t = u

EveryTicketWaits ==
  \A e \in Entities, k \in 0..MaxTicket :
    InWindow(k, waiters_bottom[e], waiters_head[e]) =>
      \E t \in Threads : Waits(t, e) /\ ticket[t] = k

\* What a thread in the middle of acquire, or of set_free's hand-over, has.
Prepared(t) ==
  /\ pc[t] \in {"acquire", "grant"} => ent[t] \in holds[t]
  /\ pc[t] = "grant" => waiters_bottom[ent[t]] # waiters_head[ent[t]]

Owns(t, e) ==
  \/ e \in holds[t]
  \/ Waits(t, e) /\ ticket[t] = waiters_bottom[e]
  \/ ent[t] = e /\ pc[t] = "reclaim"

SoleOwner == \A e \in Entities : \A t, u \in Threads : Owns(t, e) /\ Owns(u, e) => t = u

\* A thread does not wait for, or reclaim, what it holds already.
OwnsOnce ==
  \A t \in Threads, e \in Entities : e \in holds[t] =>
    /\ ~(Waits(t, e) /\ ticket[t] = waiters_bottom[e])
    /\ ~(ent[t] = e /\ pc[t] = "reclaim")

BusyOwned == \A e \in Entities : where[e] = "busylist" <=> \E t \in Threads : Owns(t, e)

Ownership ==
  /\ TicketsInWindow /\ TicketsDistinct /\ EveryTicketWaits
  /\ \A t \in Threads : Prepared(t)
  /\ SoleOwner /\ OwnsOnce /\ BusyOwned

IInv == TypeInv /\ Ownership

-----------------------------------------------------------------------------
(* The window of tickets                                                     *)

\* set_free and set_loaded take the first ticket out of the window.
LEMMA WindowMoves ==
  ASSUME NEW b \in 0..MaxTicket, NEW h \in 0..MaxTicket, b # h
  PROVE  /\ InWindow(ADD_SAFELY_INT16T(b), b, h)
         /\ ADD_SAFELY_INT16T(b) # b
         /\ \A k \in 0..MaxTicket :
              InWindow(k, ADD_SAFELY_INT16T(b), h)
                <=> InWindow(k, b, h) /\ k # ADD_SAFELY_INT16T(b)
BY TicketAssumption DEF InWindow, ADD_SAFELY_INT16T

\* A new waiter adds one to its other end, unless the window has become the
\* whole cycle; and then all tickets but the one that is up are in it.
LEMMA WindowGrows ==
  ASSUME NEW b \in 0..MaxTicket, NEW h \in 0..MaxTicket
  PROVE  LET mine == ADD_SAFELY_INT16T(h) IN
         /\ ~InWindow(b, b, h)
         /\ mine # b => /\ b # mine
                        /\ ~InWindow(mine, b, h)
                        /\ \A k \in 0..MaxTicket :
                             InWindow(k, b, mine) <=> InWindow(k, b, h) \/ k = mine
         /\ mine = b => \A k \in 0..MaxTicket : k # b => InWindow(k, b, h)
BY TicketAssumption DEF InWindow, ADD_SAFELY_INT16T

\* There are more tickets than threads: the counter never catches up with the
\* ticket that is up, however often it wraps.
LEMMA NewTicketIsNew ==
  ASSUME TypeInv, TicketsDistinct, EveryTicketWaits,
         NEW t \in Threads, NEW e \in Entities, pc[t] = "ticket"
  PROVE  ADD_SAFELY_INT16T(waiters_head[e]) # waiters_bottom[e]
<1>0. \A k \in 0..MaxTicket : InWindow(k, waiters_bottom[e], waiters_head[e]) =>
        \E u \in Threads : Waits(u, e) /\ ticket[u] = k
  BY Zenon DEF EveryTicketWaits
<1> DEFINE b == waiters_bottom[e]
           h == waiters_head[e]
           Others == (0..MaxTicket) \ {b}
           Waiter == [k \in Others |-> CHOOSE u \in Threads : Waits(u, e) /\ ticket[u] = k]
<1>1. b \in 0..MaxTicket /\ h \in 0..MaxTicket
  BY DEF TypeInv, TypeOK
<1> SUFFICES ASSUME ADD_SAFELY_INT16T(h) = b PROVE FALSE
  OBVIOUS
<1>2. \A k \in Others : \E u \in Threads : Waits(u, e) /\ ticket[u] = k
  <2>1. \A k \in Others : InWindow(k, b, h)
    BY <1>1, WindowGrows
  <2> HIDE DEF b, h
  <2>2. TAKE k \in Others
  <2>3. InWindow(k, waiters_bottom[e], waiters_head[e]) /\ k \in 0..MaxTicket
    BY <2>1, <2>2 DEF b, h
  <2> QED BY <1>0, <2>3, Zenon
<1>3. \A k \in Others : /\ Waiter[k] \in Threads \ {t}
                        /\ Waits(Waiter[k], e) /\ ticket[Waiter[k]] = k
  <2>1. ASSUME NEW k \in Others
        PROVE  Waiter[k] \in Threads /\ Waits(Waiter[k], e) /\ ticket[Waiter[k]] = k
    <3>1. PICK u \in Threads : Waits(u, e) /\ ticket[u] = k
      BY <1>2, Zenon
    <3>2. Waiter[k] = CHOOSE v \in Threads : Waits(v, e) /\ ticket[v] = k
      OBVIOUS
    <3> HIDE DEF Waiter
    <3> QED BY <3>1, <3>2
  <2>2. ~Waits(t, e)
    BY DEF Waits
  <2> HIDE DEF Waiter, Others, b, h
  <2>3. \A u \in Threads : Waits(u, e) => u \in Threads \ {t}
    BY <2>2
  <2> QED BY <2>1, <2>3
<1>4. Waiter \in Injection(Others, Threads \ {t})
  <2>1. Waiter \in [Others -> Threads \ {t}]
    BY <1>3
  <2>2. ASSUME NEW j \in Others, NEW k \in Others, Waiter[j] = Waiter[k]
        PROVE  j = k
    <3> HIDE DEF Waiter, Others, b, h
    <3> QED BY <1>3, <2>2
  <2>3. DOMAIN Waiter = Others
    OBVIOUS
  <2> HIDE DEF Waiter, Others, b, h
  <2> QED BY <2>1, <2>2, <2>3 DEF Injection, IsInjective
<1>5. IsFiniteSet(Threads \ {t}) /\ Cardinality(Threads \ {t}) < MaxTicket
  <2>1. IsFiniteSet(Threads) /\ Cardinality(Threads) <= MaxTicket /\ MaxTicket \in Nat
    BY TicketAssumption
  <2>2. Cardinality(Threads) \in Nat
    BY <2>1, FS_CardinalityType
  <2>3. IsFiniteSet(Threads \ {t}) /\ Cardinality(Threads \ {t}) = Cardinality(Threads) - 1
    BY <2>1, FS_RemoveElement
  <2> QED BY <2>1, <2>2, <2>3
<1>6. Cardinality(Others) = MaxTicket
  <2>1. MaxTicket \in Nat \ {0}
    BY TicketAssumption
  <2>2. IsFiniteSet(0..MaxTicket) /\ Cardinality(0..MaxTicket) = MaxTicket + 1
    BY <2>1, FS_Interval
  <2>3. Cardinality((0..MaxTicket) \ {b}) = Cardinality(0..MaxTicket) - 1
    BY <1>1, <2>2, FS_RemoveElement
  <2> QED BY <2>1, <2>2, <2>3
<1>7. Cardinality(Others) <= Cardinality(Threads \ {t})
  BY <1>4, <1>5, FS_Injection
<1> QED BY <1>5, <1>6, <1>7, FS_CardinalityType, TicketAssumption
-----------------------------------------------------------------------------
(* What a step does to ownership                                             *)

\* Where a thread owns what it holds and nothing else.
Plain == {"idle", "busywait", "busywoken", "acquire", "grant", "ticket", "exited"}

\* A thread that is left alone, wakes up, or goes back to sleep.
StaysPut(u) ==
  /\ ent'[u] = ent[u] /\ ticket'[u] = ticket[u] /\ holds'[u] = holds[u]
  /\ \/ pc'[u] = pc[u]
     \/ pc[u] = "busywait" /\ pc'[u] = "busywoken"
     \/ pc[u] = "waiting" /\ pc'[u] = "waitwoken"
     \/ pc[u] = "waitwoken" /\ pc'[u] = "waiting"

CountersStay == UNCHANGED <<waiters_head, waiters_bottom>>

\* No entity moves onto or off the busy list.
BusyStays == \A e \in Entities : where'[e] = "busylist" <=> where[e] = "busylist"

-----------------------------------------------------------------------------
(* What a step can do to ownership: one of eight things                      *)

\* 1. Nobody's ownership changes.
Unmoved ==
  /\ CountersStay /\ BusyStays
  /\ \A u \in Threads :
       \/ StaysPut(u)
       \/ /\ pc[u] \in Plain /\ pc'[u] \in Plain
          /\ holds'[u] = holds[u] /\ Prepared(u)'

\* 2. A thread takes an entity that is not busy.
Taken(t, e) ==
  /\ CountersStay
  /\ where[e] # "busylist" /\ where' = [where EXCEPT ![e] = "busylist"]
  /\ holds' = [holds EXCEPT ![t] = @ \cup {e}]
  /\ pc[t] \in Plain /\ pc'[t] \in {"idle", "acquire"}
  /\ pc'[t] = "acquire" => ent'[t] = e
  /\ \A u \in Threads \ {t} : StaysPut(u)

\* 3. A holder puts its entity on another list, or removes it.
GivenUp(t, e) ==
  /\ CountersStay
  /\ e \in holds[t] /\ holds' = [holds EXCEPT ![t] = @ \ {e}]
  /\ \E list \in Lists \ {"busylist"} : where' = [where EXCEPT ![e] = list]
  /\ pc[t] = "idle" /\ pc'[t] = "idle"
  /\ \A u \in Threads \ {t} : StaysPut(u)

\* 4. A holder hands its entity to the waiter whose ticket comes up.
HandedOver(t, e) ==
  /\ waiters_bottom[e] # waiters_head[e]
  /\ waiters_bottom' = [waiters_bottom EXCEPT ![e] = ADD_SAFELY_INT16T(@)]
  /\ UNCHANGED <<waiters_head, where>>
  /\ e \in holds[t] /\ holds' = [holds EXCEPT ![t] = @ \ {e}]
  /\ pc[t] \in {"idle", "grant"} /\ pc'[t] = "idle"
  /\ \A u \in Threads \ {t} : StaysPut(u)

\* 5. A holder gives its entity to another thread by itself, in set_ready.
PassedOn(t, v, e) ==
  /\ CountersStay /\ UNCHANGED <<where, pc, ent, ticket>>
  /\ pc[t] = "idle"
  /\ e \in holds[t] /\ holds' = [holds EXCEPT ![t] = @ \ {e}, ![v] = @ \cup {e}]

\* 6. A thread queues behind the other waiters of an entity: TakeTicket.

\* 7. A woken waiter sees that its ticket is up, and goes on as the owner.
Claimed(t, e) ==
  /\ CountersStay /\ UNCHANGED where
  /\ ent[t] = e /\ pc[t] = "waitwoken" /\ ticket[t] = waiters_bottom[e]
  /\ \/ /\ holds' = [holds EXCEPT ![t] = @ \cup {e}]
        /\ pc'[t] = "idle" \/ (pc'[t] = "acquire" /\ ent'[t] = e)
     \/ UNCHANGED holds /\ pc'[t] = "reclaim" /\ ent'[t] = e
  /\ \A u \in Threads \ {t} : StaysPut(u)

\* 8. block_until_free moves the entity it waited for to the free list.
Reclaimed(t, e) ==
  /\ CountersStay /\ UNCHANGED holds
  /\ ent[t] = e /\ pc[t] = "reclaim" /\ pc'[t] \in {"ticket", "exited"}
  /\ where'[e] # "busylist"
  /\ \A x \in Entities : x # e => (where'[x] = "busylist" <=> where[x] = "busylist")
  /\ \A u \in Threads \ {t} : StaysPut(u)

OneOfEight(t) ==
  \/ Unmoved
  \/ TakeTicket(t)
  \/ \E e \in Entities :
       \/ Taken(t, e) \/ GivenUp(t, e) \/ HandedOver(t, e)
       \/ Claimed(t, e) \/ Reclaimed(t, e)
       \/ \E v \in Threads \ {t} : PassedOn(t, v, e)

-----------------------------------------------------------------------------
(* Each of them keeps the invariant, and changes the owner of one entity at  *)
(* most                                                                      *)

OwnersStay(kept) ==
  \A u \in Threads, x \in kept : Owns(u, x)' <=> Owns(u, x)

OwnedBy(t, e) == \A u \in Threads : Owns(u, e) <=> u = t

Unowned(e) == \A u \in Threads : ~Owns(u, e)

WaitersStay ==
  \A u \in Threads, x \in Entities :
    /\ Waits(u, x)' <=> Waits(u, x)
    /\ Waits(u, x) => ticket'[u] = ticket[u]

\* A thread whose wait for an entity does not begin or end keeps its ticket.
LEMMA WaitsStay ==
  ASSUME NEW u \in Threads, NEW e \in Entities, StaysPut(u)
  PROVE  /\ Waits(u, e)' <=> Waits(u, e)
         /\ ticket'[u] = ticket[u]
BY DEF StaysPut, Waits

\* What no wait begins or ends, and no counter moves, leaves the tickets as they were.
LEMMA TicketsStay ==
  ASSUME TicketsInWindow, TicketsDistinct, EveryTicketWaits, CountersStay,
         \A u \in Threads : \/ StaysPut(u)
                            \/ pc[u] \in Plain /\ pc'[u] \in Plain
  PROVE  TicketsInWindow' /\ TicketsDistinct' /\ EveryTicketWaits'
<1>1. \A u \in Threads, e \in Entities :
        /\ Waits(u, e)' <=> Waits(u, e)
        /\ Waits(u, e) => ticket'[u] = ticket[u]
  BY WaitsStay DEF Waits, Plain
<1>2. waiters_head' = waiters_head /\ waiters_bottom' = waiters_bottom
  BY DEF CountersStay
<1>3. TicketsInWindow'
  BY <1>1, <1>2 DEF TicketsInWindow
<1>4. TicketsDistinct'
  BY <1>1 DEF TicketsDistinct
<1>5. EveryTicketWaits'
  BY <1>1, <1>2 DEF EveryTicketWaits
<1> QED BY <1>3, <1>4, <1>5

\* A thread left alone keeps what it has prepared, if the counters stay too.
LEMMA PreparedStays ==
  ASSUME NEW u \in Threads, Prepared(u), StaysPut(u), CountersStay
  PROVE  Prepared(u)'
BY DEF Prepared, StaysPut, CountersStay

\* Who owns an entity is not changed by a thread left alone.
LEMMA OwnsStays ==
  ASSUME NEW u \in Threads, NEW e \in Entities, StaysPut(u), CountersStay
  PROVE  Owns(u, e)' <=> Owns(u, e)
BY DEF Owns, Waits, StaysPut, CountersStay

LEMMA OwnershipStays ==
  ASSUME Ownership, Unmoved
  PROVE  Ownership' /\ OwnersStay(Entities) /\ WaitersStay
<1> USE DEF Unmoved
<1>1. TicketsInWindow' /\ TicketsDistinct' /\ EveryTicketWaits'
  BY TicketsStay DEF Ownership
<1>2. \A u \in Threads : Prepared(u)'
  BY PreparedStays DEF Ownership
<1>3. \A u \in Threads, e \in Entities : Owns(u, e)' <=> Owns(u, e)
  BY OwnsStays DEF Owns, Waits, Plain
<1>4. SoleOwner' /\ BusyOwned'
  BY <1>3 DEF Ownership, SoleOwner, BusyOwned, BusyStays
<1>5. OwnsOnce'
  BY DEF Ownership, OwnsOnce, Waits, StaysPut, Plain, CountersStay
<1>6. WaitersStay
  BY WaitsStay DEF WaitersStay, Waits, Plain
<1> QED BY <1>1, <1>2, <1>3, <1>4, <1>5, <1>6 DEF Ownership, OwnersStay

LEMMA OwnershipTaken ==
  ASSUME Ownership, TypeOK, NEW t \in Threads, NEW e \in Entities, Taken(t, e)
  PROVE  /\ Ownership' /\ OwnersStay(Entities \ {e}) /\ WaitersStay
         /\ Unowned(e) /\ OwnedBy(t, e)'
<1> USE DEF Taken
<1>1. TicketsInWindow' /\ TicketsDistinct' /\ EveryTicketWaits'
  BY TicketsStay DEF Ownership, Plain
<1>2. \A u \in Threads : Prepared(u)'
  BY PreparedStays DEF Ownership, Prepared, TypeOK
<1>3. \A u \in Threads : ~Owns(u, e)
  BY DEF Ownership, BusyOwned
<1>4. \A u \in Threads \ {t}, x \in Entities : Owns(u, x)' <=> Owns(u, x)
  BY OwnsStays
<1>5. \A x \in Entities : Owns(t, x)' <=> Owns(t, x) \/ x = e
  BY DEF Owns, Waits, Plain, TypeOK
<1>6. SoleOwner' /\ BusyOwned'
  <2>1. SoleOwner'
    BY <1>3, <1>4, <1>5 DEF Ownership, SoleOwner
  <2>2. \A x \in Entities : where'[x] = "busylist" <=> where[x] = "busylist" \/ x = e
    BY DEF TypeOK
  <2>3. BusyOwned'
    BY <1>3, <1>4, <1>5, <2>2 DEF Ownership, BusyOwned
  <2> QED BY <2>1, <2>3
<1>7. OwnsOnce'
  BY <1>3 DEF Ownership, OwnsOnce, Owns, Waits, StaysPut, CountersStay, TypeOK
<1>8. WaitersStay
  BY WaitsStay DEF WaitersStay, Waits, Plain
<1>9. OwnersStay(Entities \ {e}) /\ Unowned(e) /\ OwnedBy(t, e)'
  BY <1>3, <1>4, <1>5 DEF OwnersStay, Unowned, OwnedBy
<1> QED BY <1>1, <1>2, <1>6, <1>7, <1>8, <1>9 DEF Ownership

LEMMA OwnershipGivenUp ==
  ASSUME Ownership, TypeOK, NEW t \in Threads, NEW e \in Entities, GivenUp(t, e)
  PROVE  /\ Ownership' /\ OwnersStay(Entities \ {e}) /\ WaitersStay
         /\ OwnedBy(t, e) /\ Unowned(e)'
<1> USE DEF GivenUp
<1>1. TicketsInWindow' /\ TicketsDistinct' /\ EveryTicketWaits'
  BY TicketsStay DEF Ownership, Plain
<1>2. \A u \in Threads : Prepared(u)'
  BY PreparedStays DEF Ownership, Prepared
<1>3. \A u \in Threads : Owns(u, e) <=> u = t
  BY DEF Ownership, SoleOwner, Owns
<1>4. \A u \in Threads \ {t}, x \in Entities : Owns(u, x)' <=> Owns(u, x)
  BY OwnsStays
<1>5. \A x \in Entities : Owns(t, x)' <=> Owns(t, x) /\ x # e
  BY DEF Owns, Waits, TypeOK
<1>6. SoleOwner' /\ BusyOwned'
  <2>1. SoleOwner'
    BY <1>4, <1>5 DEF Ownership, SoleOwner
  <2>2. \A x \in Entities : where'[x] = "busylist" <=> where[x] = "busylist" /\ x # e
    BY <1>3 DEF TypeOK, Ownership, BusyOwned
  <2>3. BusyOwned'
    BY <1>3, <1>4, <1>5, <2>2 DEF Ownership, BusyOwned
  <2> QED BY <2>1, <2>3
<1>7. OwnsOnce'
  BY DEF Ownership, OwnsOnce, Waits, StaysPut, CountersStay, TypeOK
<1>8. WaitersStay
  BY WaitsStay DEF WaitersStay, Waits
<1>9. OwnersStay(Entities \ {e}) /\ OwnedBy(t, e) /\ Unowned(e)'
  BY <1>3, <1>4, <1>5 DEF OwnersStay, Unowned, OwnedBy
<1> QED BY <1>1, <1>2, <1>6, <1>7, <1>8, <1>9 DEF Ownership

LEMMA OwnershipHandedOver ==
  ASSUME Ownership, TypeOK, NEW t \in Threads, NEW e \in Entities, HandedOver(t, e)
  PROVE  /\ Ownership' /\ OwnersStay(Entities \ {e}) /\ WaitersStay
         /\ OwnedBy(t, e)
         /\ \A u \in Threads : Owns(u, e)' <=>
              Waits(u, e) /\ ticket[u] = ADD_SAFELY_INT16T(waiters_bottom[e])
<1> USE DEF HandedOver
<1> DEFINE b == waiters_bottom[e]
           next == ADD_SAFELY_INT16T(b)
<1>1. /\ b \in 0..MaxTicket /\ waiters_head[e] \in 0..MaxTicket /\ next \in 0..MaxTicket
      /\ waiters_bottom'[e] = next
      /\ \A x \in Entities : x # e => waiters_bottom'[x] = waiters_bottom[x]
  BY TicketType DEF TypeOK
<1>2. /\ InWindow(next, b, waiters_head[e]) /\ next # b
      /\ \A k \in 0..MaxTicket : InWindow(k, next, waiters_head[e])
                                   <=> InWindow(k, b, waiters_head[e]) /\ k # next
  BY <1>1, WindowMoves
<1>3. \A u \in Threads, x \in Entities :
        /\ Waits(u, x)' <=> Waits(u, x)
        /\ Waits(u, x) => u # t /\ ticket'[u] = ticket[u] /\ ticket[u] \in 0..MaxTicket
  BY WaitsStay DEF Waits, TypeOK
<1>4. \A u \in Threads : Owns(u, e) <=> u = t
  BY DEF Ownership, SoleOwner, Owns
<1>5. \A u \in Threads : Waits(u, e) => ticket[u] # b
  BY <1>3, <1>4 DEF Owns
<1> HIDE DEF b, next
<1>6. TicketsInWindow'
  <2> SUFFICES ASSUME NEW u \in Threads, NEW x \in Entities, Waits(u, x)'
               PROVE  \/ ticket'[u] = waiters_bottom'[x]
                      \/ InWindow(ticket'[u], waiters_bottom'[x], waiters_head'[x])
    BY DEF TicketsInWindow
  <2>1. CASE x = e
    <3>1. InWindow(ticket[u], b, waiters_head[e])
      BY <1>3, <1>5, <2>1 DEF Ownership, TicketsInWindow, b
    <3> QED BY <1>1, <1>2, <1>3, <2>1, <3>1
  <2>2. CASE x # e
    BY <1>1, <1>3, <2>2 DEF Ownership, TicketsInWindow
  <2> QED BY <2>1, <2>2
<1>7. TicketsDistinct'
  BY <1>3 DEF Ownership, TicketsDistinct
<1>8. EveryTicketWaits'
  <2> SUFFICES ASSUME NEW x \in Entities, NEW k \in 0..MaxTicket,
                      InWindow(k, waiters_bottom'[x], waiters_head'[x])
               PROVE  \E u \in Threads : Waits(u, x)' /\ ticket'[u] = k
    BY DEF EveryTicketWaits
  <2>1. InWindow(k, waiters_bottom[x], waiters_head[x])
    BY <1>1, <1>2 DEF b
  <2> QED BY <1>3, <2>1 DEF Ownership, EveryTicketWaits
<1>9. PICK w \in Threads : Waits(w, e) /\ ticket[w] = next
  BY <1>1, <1>2 DEF Ownership, EveryTicketWaits, b
<1>10. \A u \in Threads : Owns(u, e)' <=> u = w
  <2>1. \A u \in Threads : e \notin holds'[u]
    BY <1>4 DEF StaysPut, TypeOK, Owns
  <2>2. \A u \in Threads : ~(ent'[u] = e /\ pc'[u] = "reclaim")
    BY <1>4 DEF StaysPut, Owns
  <2>3. \A u \in Threads : Waits(u, e)' /\ ticket'[u] = next <=> u = w
    BY <1>3, <1>9 DEF Ownership, TicketsDistinct
  <2> QED BY <1>1, <2>1, <2>2, <2>3 DEF Owns
<1>11. \A u \in Threads, x \in Entities : x # e => (Owns(u, x)' <=> Owns(u, x))
  <2> SUFFICES ASSUME NEW u \in Threads, NEW x \in Entities, x # e
               PROVE  Owns(u, x)' <=> Owns(u, x)
    OBVIOUS
  <2>1. x \in holds'[u] <=> x \in holds[u]
    BY DEF StaysPut, TypeOK
  <2>2. ent'[u] = x /\ pc'[u] = "reclaim" <=> ent[u] = x /\ pc[u] = "reclaim"
    BY DEF StaysPut
  <2>3. Waits(u, x)' /\ ticket'[u] = waiters_bottom'[x]
          <=> Waits(u, x) /\ ticket[u] = waiters_bottom[x]
    BY <1>1, <1>3
  <2> QED BY <2>1, <2>2, <2>3 DEF Owns
<1>12. SoleOwner'
  BY <1>10, <1>11 DEF Ownership, SoleOwner
<1>13. BusyOwned'
  <2>1. where[e] = "busylist"
    BY <1>4 DEF Ownership, BusyOwned
  <2> QED BY <1>10, <1>11, <2>1 DEF Ownership, BusyOwned
<1>14. \A u \in Threads : Prepared(u)'
  <2> SUFFICES ASSUME NEW u \in Threads, u # t PROVE Prepared(u)'
    BY DEF Prepared
  <2>1. Prepared(u) /\ StaysPut(u)
    BY DEF Ownership
  <2>2. pc'[u] = "grant" => ent[u] # e
    BY <1>4, <2>1 DEF Prepared, StaysPut, Owns
  <2>3. pc'[u] = "grant" => waiters_bottom'[ent'[u]] = waiters_bottom[ent[u]]
    BY <2>1, <2>2 DEF StaysPut, TypeOK
  <2> QED BY <2>1, <2>3 DEF Prepared, StaysPut
<1>15. OwnsOnce'
  <2> SUFFICES ASSUME NEW u \in Threads, NEW x \in Entities, x \in holds'[u]
               PROVE  /\ ~(Waits(u, x)' /\ ticket'[u] = waiters_bottom'[x])
                      /\ ~(ent'[u] = x /\ pc'[u] = "reclaim")
    BY DEF OwnsOnce
  <2>1. x # e /\ x \in holds[u]
    BY <1>4 DEF StaysPut, TypeOK, Owns
  <2>2. /\ ~(Waits(u, x) /\ ticket[u] = waiters_bottom[x])
        /\ ~(ent[u] = x /\ pc[u] = "reclaim")
    BY <2>1 DEF Ownership, OwnsOnce
  <2> QED BY <1>1, <1>3, <2>1, <2>2 DEF StaysPut
<1>16. OwnersStay(Entities \ {e}) /\ WaitersStay /\ OwnedBy(t, e)
  BY <1>3, <1>4, <1>11 DEF OwnersStay, WaitersStay, OwnedBy
<1>17. \A u \in Threads : Owns(u, e)' <=> Waits(u, e) /\ ticket[u] = next
  BY <1>9, <1>10 DEF Ownership, TicketsDistinct
<1> QED
  BY <1>6, <1>7, <1>8, <1>12, <1>13, <1>14, <1>15, <1>16, <1>17 DEF Ownership, b, next

LEMMA OwnershipPassedOn ==
  ASSUME Ownership, TypeOK, NEW t \in Threads, NEW v \in Threads \ {t},
         NEW e \in Entities, PassedOn(t, v, e)
  PROVE  /\ Ownership' /\ OwnersStay(Entities \ {e}) /\ WaitersStay
         /\ OwnedBy(t, e) /\ OwnedBy(v, e)'
<1> USE DEF PassedOn
<1>1. TicketsInWindow' /\ TicketsDistinct' /\ EveryTicketWaits'
  BY DEF Ownership, TicketsInWindow, TicketsDistinct, EveryTicketWaits, Waits, CountersStay
<1>2. \A u \in Threads : Owns(u, e) <=> u = t
  BY DEF Ownership, SoleOwner, Owns
<1>3. /\ \A u \in Threads : e \in holds'[u] <=> u = v
      /\ \A u \in Threads, x \in Entities : x # e => (x \in holds'[u] <=> x \in holds[u])
  BY <1>2 DEF TypeOK, Owns
<1>4. \A u \in Threads : Owns(u, e)' <=> u = v
  BY <1>2, <1>3 DEF Owns, Waits, CountersStay
<1>5. \A u \in Threads, x \in Entities : x # e => (Owns(u, x)' <=> Owns(u, x))
  BY <1>3 DEF Owns, Waits, CountersStay
<1>6. where[e] = "busylist"
  BY <1>2 DEF Ownership, BusyOwned
<1>7. SoleOwner' /\ BusyOwned'
  BY <1>2, <1>4, <1>5, <1>6 DEF Ownership, SoleOwner, BusyOwned
<1>8. \A u \in Threads : Prepared(u)'
  <2> SUFFICES ASSUME NEW u \in Threads, u # t PROVE Prepared(u)'
    BY DEF Prepared
  <2>1. Prepared(u) /\ holds[u] \subseteq holds'[u]
    BY DEF Ownership, TypeOK
  <2> QED BY <2>1 DEF Prepared, CountersStay
<1>9. OwnsOnce'
  <2> SUFFICES ASSUME NEW u \in Threads, NEW x \in Entities, x \in holds'[u]
               PROVE  /\ ~(Waits(u, x) /\ ticket[u] = waiters_bottom[x])
                      /\ ~(ent[u] = x /\ pc[u] = "reclaim")
    BY DEF OwnsOnce, Waits, CountersStay
  <2>1. CASE x = e
    BY <1>2, <1>3, <2>1 DEF Owns
  <2>2. CASE x # e
    BY <1>3, <2>2 DEF Ownership, OwnsOnce
  <2> QED BY <2>1, <2>2
<1>10. OwnersStay(Entities \ {e}) /\ WaitersStay /\ OwnedBy(t, e) /\ OwnedBy(v, e)'
  BY <1>2, <1>4, <1>5 DEF OwnersStay, WaitersStay, OwnedBy, Waits
<1> QED BY <1>1, <1>7, <1>8, <1>9, <1>10 DEF Ownership

LEMMA OwnershipQueued ==
  ASSUME Ownership, TypeInv, NEW t \in Threads, TakeTicket(t)
  PROVE  /\ Ownership' /\ OwnersStay(Entities)
         /\ ADD_SAFELY_INT16T(waiters_head[ent[t]]) # waiters_bottom[ent[t]]
         /\ \A u \in Threads, x \in Entities :
              /\ Waits(u, x)' <=> Waits(u, x) \/ (u = t /\ x = ent[t])
              /\ Waits(u, x) => u # t
              /\ u # t => ticket'[u] = ticket[u]
         /\ ticket'[t] = ADD_SAFELY_INT16T(waiters_head[ent[t]])
<1> DEFINE e == ent[t]
           h == waiters_head[e]
           mine == ADD_SAFELY_INT16T(h)
<1>1. /\ TypeOK /\ e \in Entities /\ pc[t] = "ticket"
      /\ UNCHANGED <<where, waiters_bottom, holds, ent>>
      /\ ticket' = [ticket EXCEPT ![t] = mine]
      /\ waiters_head' = [waiters_head EXCEPT ![e] = mine]
      /\ pc'[t] \in {"waiting", "waitwoken"}
      /\ \A u \in Threads : u # t => pc'[u] = pc[u]
  BY DEF TypeInv, TypeOK, NamesEntity, AboutEntity, TakeTicket
<1>2. /\ h \in 0..MaxTicket /\ mine \in 0..MaxTicket /\ waiters_bottom[e] \in 0..MaxTicket
      /\ waiters_head'[e] = mine
      /\ \A x \in Entities : x # e => waiters_head'[x] = waiters_head[x]
  BY <1>1, TicketType DEF TypeOK
<1>3. mine # waiters_bottom[e]
  BY <1>1, NewTicketIsNew DEF Ownership
<1>4. /\ ~InWindow(mine, waiters_bottom[e], h)
      /\ \A k \in 0..MaxTicket : InWindow(k, waiters_bottom[e], mine)
                                   <=> InWindow(k, waiters_bottom[e], h) \/ k = mine
  BY <1>2, <1>3, WindowGrows
<1> HIDE DEF h, mine
<1>5. \A u \in Threads, x \in Entities :
        /\ Waits(u, x)' <=> Waits(u, x) \/ (u = t /\ x = e)
        /\ Waits(u, x) => u # t
        /\ u # t => ticket'[u] = ticket[u]
        /\ ticket[u] \in 0..MaxTicket
  BY <1>1 DEF Waits, TypeOK
<1>6. ticket'[t] = mine
  BY <1>1 DEF TypeOK
<1>7. TicketsInWindow'
  <2> SUFFICES ASSUME NEW u \in Threads, NEW x \in Entities, Waits(u, x)'
               PROVE  \/ ticket'[u] = waiters_bottom'[x]
                      \/ InWindow(ticket'[u], waiters_bottom'[x], waiters_head'[x])
    BY DEF TicketsInWindow
  <2>1. CASE u = t
    <3>1. x = e
      BY <1>5, <2>1
    <3> QED BY <1>1, <1>2, <1>4, <1>6, <2>1, <3>1
  <2>2. CASE u # t
    <3>1. /\ ticket'[u] = ticket[u] /\ ticket[u] \in 0..MaxTicket
          /\ \/ ticket[u] = waiters_bottom[x]
             \/ InWindow(ticket[u], waiters_bottom[x], waiters_head[x])
      BY <1>5, <2>2 DEF Ownership, TicketsInWindow
    <3>2. CASE x = e
      BY <1>1, <1>2, <1>4, <3>1, <3>2 DEF h
    <3>3. CASE x # e
      BY <1>1, <1>2, <3>1, <3>3
    <3> QED BY <3>2, <3>3
  <2> QED BY <2>1, <2>2
<1>8. TicketsDistinct'
  <2>1. \A u \in Threads : Waits(u, e) => ticket[u] # mine
    BY <1>1, <1>3, <1>4 DEF Ownership, TicketsInWindow, h
  <2> QED BY <1>5, <1>6, <2>1 DEF Ownership, TicketsDistinct
<1>9. EveryTicketWaits'
  <2> SUFFICES ASSUME NEW x \in Entities, NEW k \in 0..MaxTicket,
                      InWindow(k, waiters_bottom'[x], waiters_head'[x])
               PROVE  \E u \in Threads : Waits(u, x)' /\ ticket'[u] = k
    BY DEF EveryTicketWaits
  <2>1. CASE x = e /\ k = mine
    BY <1>5, <1>6, <2>1
  <2>2. CASE ~(x = e /\ k = mine)
    <3>1. InWindow(k, waiters_bottom[x], waiters_head[x])
      BY <1>1, <1>2, <1>4, <2>2 DEF h
    <3> QED BY <1>5, <3>1 DEF Ownership, EveryTicketWaits
  <2> QED BY <2>1, <2>2
<1>10. \A u \in Threads, x \in Entities : Owns(u, x)' <=> Owns(u, x)
  <2> SUFFICES ASSUME NEW u \in Threads, NEW x \in Entities
               PROVE  Owns(u, x)' <=> Owns(u, x)
    OBVIOUS
  <2>1. ent'[u] = x /\ pc'[u] = "reclaim" <=> ent[u] = x /\ pc[u] = "reclaim"
    BY <1>1
  <2>2. Waits(u, x)' /\ ticket'[u] = waiters_bottom'[x]
          <=> Waits(u, x) /\ ticket[u] = waiters_bottom[x]
    BY <1>1, <1>3, <1>5, <1>6
  <2> QED BY <1>1, <2>1, <2>2 DEF Owns
<1>11. SoleOwner' /\ BusyOwned'
  BY <1>1, <1>10 DEF Ownership, SoleOwner, BusyOwned
<1>12. \A u \in Threads : Prepared(u)'
  <2> SUFFICES ASSUME NEW u \in Threads, u # t PROVE Prepared(u)'
    BY <1>1 DEF Prepared
  <2>1. Prepared(u) /\ pc'[u] = pc[u]
    BY <1>1 DEF Ownership
  <2>2. pc[u] = "grant" => ent[u] \in Entities
    BY DEF TypeInv, NamesEntity, AboutEntity
  <2>3. pc[u] = "grant" => waiters_bottom[ent[u]] # waiters_head'[ent[u]]
    BY <1>2, <1>3, <2>1, <2>2 DEF Prepared
  <2> QED BY <1>1, <2>1, <2>3 DEF Prepared
<1>13. OwnsOnce'
  <2> SUFFICES ASSUME NEW u \in Threads, NEW x \in Entities, x \in holds[u]
               PROVE  /\ ~(Waits(u, x)' /\ ticket'[u] = waiters_bottom'[x])
                      /\ ~(ent'[u] = x /\ pc'[u] = "reclaim")
    BY <1>1 DEF OwnsOnce
  <2>1. /\ ~(Waits(u, x) /\ ticket[u] = waiters_bottom[x])
        /\ ~(ent[u] = x /\ pc[u] = "reclaim")
    BY DEF Ownership, OwnsOnce
  <2> QED BY <1>1, <1>3, <1>5, <1>6, <2>1
<1> QED
  BY <1>3, <1>5, <1>6, <1>7, <1>8, <1>9, <1>10, <1>11, <1>12, <1>13
  DEF Ownership, OwnersStay, mine, h

LEMMA OwnershipClaimed ==
  ASSUME Ownership, TypeOK, NEW t \in Threads, NEW e \in Entities, Claimed(t, e)
  PROVE  /\ Ownership' /\ OwnersStay(Entities)
         /\ \A u \in Threads, x \in Entities :
              /\ Waits(u, x)' <=> Waits(u, x) /\ u # t
              /\ Waits(u, x) /\ u # t => ticket'[u] = ticket[u]
<1> USE DEF Claimed
<1>1. \A u \in Threads, x \in Entities :
        /\ Waits(u, x)' <=> Waits(u, x) /\ u # t
        /\ Waits(u, x) /\ u # t => ticket'[u] = ticket[u]
  BY WaitsStay DEF Waits
<1>2. waiters_head' = waiters_head /\ waiters_bottom' = waiters_bottom
  BY DEF CountersStay
<1>3. TicketsInWindow' /\ TicketsDistinct'
  BY <1>1, <1>2 DEF Ownership, TicketsInWindow, TicketsDistinct
<1>4. EveryTicketWaits'
  <2> SUFFICES ASSUME NEW x \in Entities, NEW k \in 0..MaxTicket,
                      InWindow(k, waiters_bottom[x], waiters_head[x])
               PROVE  \E u \in Threads : Waits(u, x)' /\ ticket'[u] = k
    BY <1>2 DEF EveryTicketWaits
  <2>1. PICK u \in Threads : Waits(u, x) /\ ticket[u] = k
    BY DEF Ownership, EveryTicketWaits
  <2>2. u # t
    <3>1. ASSUME u = t PROVE x = e /\ k = waiters_bottom[e]
      BY <2>1, <3>1 DEF Waits
    <3>2. ~InWindow(waiters_bottom[e], waiters_bottom[e], waiters_head[e])
      BY WindowGrows DEF TypeOK
    <3> QED BY <3>1, <3>2
  <2> QED BY <1>1, <2>1, <2>2
<1>5. \A u \in Threads : Prepared(u)'
  BY PreparedStays DEF Ownership, Prepared, TypeOK
<1>6. \A u \in Threads \ {t}, x \in Entities : Owns(u, x)' <=> Owns(u, x)
  BY OwnsStays
<1>7. \A x \in Entities : Owns(t, x)' <=> Owns(t, x)
  BY <1>1 DEF Owns, Waits, TypeOK
<1>8. SoleOwner' /\ BusyOwned'
  BY <1>6, <1>7 DEF Ownership, SoleOwner, BusyOwned
<1>9. OwnsOnce'
  <2>1. \A x \in Entities, u \in Threads \ {t} : x \in holds'[u] <=> x \in holds[u]
    BY DEF StaysPut
  <2>2. e \notin holds[t]
    BY DEF Ownership, OwnsOnce, Waits
  <2>3. \A x \in Entities : ~Waits(t, x)'
    BY DEF Waits
  <2> QED BY <1>1, <1>2, <2>1, <2>2, <2>3 DEF Ownership, OwnsOnce, StaysPut
<1> QED BY <1>1, <1>3, <1>4, <1>5, <1>6, <1>7, <1>8, <1>9 DEF Ownership, OwnersStay

LEMMA OwnershipReclaimed ==
  ASSUME Ownership, TypeOK, NEW t \in Threads, NEW e \in Entities, Reclaimed(t, e)
  PROVE  /\ Ownership' /\ OwnersStay(Entities \ {e}) /\ WaitersStay
         /\ OwnedBy(t, e) /\ Unowned(e)'
<1> USE DEF Reclaimed
<1>1. \A u \in Threads, x \in Entities :
        /\ Waits(u, x)' <=> Waits(u, x)
        /\ Waits(u, x) => ticket'[u] = ticket[u]
  BY WaitsStay DEF Waits
<1>2. TicketsInWindow' /\ TicketsDistinct' /\ EveryTicketWaits'
  BY <1>1 DEF Ownership, TicketsInWindow, TicketsDistinct, EveryTicketWaits, CountersStay
<1>3. \A u \in Threads : Prepared(u)'
  BY PreparedStays DEF Ownership, Prepared
<1>4. \A u \in Threads : Owns(u, e) <=> u = t
  BY DEF Ownership, SoleOwner, Owns
<1>5. e \notin holds[t]
  BY DEF Ownership, OwnsOnce
<1>6. \A u \in Threads : ~Owns(u, e)'
  BY <1>4, <1>5, OwnsStays DEF Owns, Waits
<1>7. \A u \in Threads, x \in Entities : x # e => (Owns(u, x)' <=> Owns(u, x))
  BY OwnsStays DEF Owns, Waits
<1>8. SoleOwner' /\ BusyOwned'
  BY <1>6, <1>7 DEF Ownership, SoleOwner, BusyOwned
<1>9. OwnsOnce'
  BY <1>1 DEF Ownership, OwnsOnce, StaysPut, CountersStay, Waits
<1>10. OwnersStay(Entities \ {e}) /\ WaitersStay /\ OwnedBy(t, e) /\ Unowned(e)'
  BY <1>1, <1>4, <1>6, <1>7 DEF OwnersStay, WaitersStay, OwnedBy, Unowned
<1> QED BY <1>2, <1>3, <1>8, <1>9, <1>10 DEF Ownership

-----------------------------------------------------------------------------
(* Every action is one of those eight                                        *)

\* get_free, first asked or asked again after a wake-up.
LEMMA StepGetFree ==
  ASSUME IInv, NEW t \in Threads, NEW key, pc[t] \in {"idle", "busywoken"},
         \/ TakeFree(t, key) \/ SleepOnBusysignal(t, key) \/ NoEntityLeft(t)
         \/ pc' = [pc EXCEPT ![t] = "exited"] /\ Leave(t)
            /\ UNCHANGED <<entityVars, holds, stage>>
  PROVE  OneOfEight(t)
<1>0. Ownership /\ TypeOK
  BY DEF IInv, TypeInv
<1>1. CASE TakeFree(t, key)
  <2>1. PICK e \in FreeFit :
          /\ where' = [where EXCEPT ![e] = "busylist"]
          /\ holds' = [holds EXCEPT ![t] = @ \cup {e}]
          /\ ent' = [ent EXCEPT ![t] = e]
          /\ pc' = [pc EXCEPT ![t] = "acquire"]
          /\ UNCHANGED <<waiters_head, waiters_bottom, ticket>>
    BY <1>1 DEF TakeFree
  <2>2. e \in Entities /\ where[e] # "busylist"
    BY DEF FreeFit, On
  <2>3. /\ CountersStay /\ pc[t] \in Plain /\ pc'[t] = "acquire" /\ ent'[t] = e
        /\ \A u \in Threads \ {t} : StaysPut(u)
    BY <1>0, <2>1 DEF CountersStay, Plain, StaysPut, TypeOK
  <2>4. Taken(t, e)
    BY <1>0, <2>1, <2>2, <2>3 DEF Taken
  <2> QED BY <2>2, <2>4 DEF OneOfEight
<1>2. CASE /\ \E next \in {"busywait", "exited"} : pc' = [pc EXCEPT ![t] = next]
           /\ UNCHANGED <<entityVars, holds>>
           /\ \A u \in Threads : u # t => ent'[u] = ent[u] /\ ticket'[u] = ticket[u]
  <2>1. CountersStay /\ BusyStays
    BY <1>2 DEF CountersStay, BusyStays, entityVars
  <2>2. /\ pc[t] \in Plain /\ pc'[t] \in Plain /\ holds'[t] = holds[t] /\ Prepared(t)'
        /\ \A u \in Threads \ {t} : StaysPut(u)
    BY <1>0, <1>2 DEF Plain, Prepared, StaysPut, TypeOK
  <2>3. Unmoved
    BY <1>0, <2>1, <2>2 DEF Unmoved
  <2> QED BY <2>3 DEF OneOfEight
<1>3. CASE /\ pc' = [pc EXCEPT ![t] = "exited"] /\ Leave(t)
           /\ UNCHANGED <<entityVars, holds, stage>>
  BY <1>0, <1>2, <1>3, TypeLeave
<1> QED BY <1>0, <1>1, <1>2, <1>3 DEF NoEntityLeft, SleepOnBusysignal

\* A caller that finds its entity busy only goes to the entity's waitlock.
LEMMA StepQueueFor ==
  ASSUME IInv, NEW t \in Threads, NEW e \in Entities, NEW name, NEW key, pc[t] = "idle",
         QueueFor(t, e, name, key)
  PROVE  OneOfEight(t)
<1>0. Ownership /\ TypeOK
  BY DEF IInv, TypeInv
<1>1. CountersStay /\ BusyStays
  BY DEF QueueFor, CountersStay, BusyStays
<1>2. /\ pc[t] \in Plain /\ pc'[t] \in Plain /\ holds'[t] = holds[t] /\ Prepared(t)'
      /\ \A u \in Threads \ {t} : StaysPut(u)
  BY <1>0 DEF QueueFor, Plain, Prepared, StaysPut, TypeOK
<1>3. Unmoved
  BY <1>0, <1>1, <1>2 DEF Unmoved
<1> QED BY <1>3 DEF OneOfEight

\* What one pass of block_until_free's loops does to lists and threads.
LEMMA BlockScanEffect ==
  ASSUME TypeOK, NEW t \in Threads, NEW lists \in [Entities -> Lists], NEW tags,
         BlockScan(t, lists, tags)
  PROVE  /\ \A x \in Entities : where'[x] = lists[x]
                               \/ (lists[x] = "loadedlist" /\ where'[x] = "freelist")
         /\ pc'[t] \in {"ticket", "exited"}
         /\ \A u \in Threads : u # t => /\ pc'[u] = pc[u] /\ ent'[u] = ent[u]
                                      /\ ticket'[u] = ticket[u]
<1> DEFINE s == SessionOf[t]
           Owned(list) == {e \in Entities : lists[e] = list /\ tags[e] \in {s} \X Seqs}
<1>1. CASE \E e \in Entities :
             /\ pc' = [pc EXCEPT ![t] = "ticket"]
             /\ ent' = [ent EXCEPT ![t] = e]
             /\ ticket' = [ticket EXCEPT ![t] = 0]
             /\ where' = lists
  <2>1. \A x \in Entities : where'[x] = lists[x]
    BY <1>1
  <2> QED BY <1>1, <2>1 DEF TypeOK
<1>2. CASE /\ where' = [e \in Entities |->
                          IF e \in Owned("loadedlist") THEN "freelist" ELSE lists[e]]
           /\ pc' = [pc EXCEPT ![t] = "exited"]
           /\ Leave(t)
  <2>1. \A x \in Entities : where'[x] = lists[x]
                         \/ (lists[x] = "loadedlist" /\ where'[x] = "freelist")
    BY <1>2
  <2> QED BY <1>2, <2>1, TypeLeave DEF TypeOK
<1> QED BY <1>1, <1>2 DEF BlockScan

LEMMA StepContinue ==
  ASSUME IInv, NEW t \in Threads, Continue(t)
  PROVE  OneOfEight(t)
<1>0. Ownership /\ TypeOK /\ TypeInv
  BY DEF IInv, TypeInv
<1>1. CASE GetFreeWoken(t)
  BY <1>1, StepGetFree DEF GetFreeWoken
<1>2. CASE Acquire(t)
  <2>1. CountersStay /\ BusyStays
    BY <1>2 DEF Acquire, CountersStay, BusyStays
  <2>2. /\ pc[t] \in Plain /\ pc'[t] \in Plain /\ holds'[t] = holds[t] /\ Prepared(t)'
        /\ \A u \in Threads \ {t} : StaysPut(u)
    BY <1>0, <1>2 DEF Acquire, Leave, Plain, Prepared, StaysPut, TypeOK
  <2>3. Unmoved
    BY <1>0, <2>1, <2>2 DEF Unmoved
  <2> QED BY <2>3 DEF OneOfEight
<1>3. CASE Grant(t)
  <2> DEFINE e == ent[t]
  <2>1. /\ pc[t] = "grant" /\ e \in Entities
        /\ e \in holds[t] /\ waiters_bottom[e] # waiters_head[e]
    BY <1>0, <1>3
    DEF Grant, Ownership, Prepared, TypeInv, NamesEntity, AboutEntity
  <2>2. /\ waiters_bottom' = [waiters_bottom EXCEPT ![e] = ADD_SAFELY_INT16T(@)]
        /\ UNCHANGED <<waiters_head, where>>
        /\ holds' = [holds EXCEPT ![t] = @ \ {e}]
    BY <1>3 DEF Grant, NextTicket
  <2>3. [pc EXCEPT ![t] = "idle"] \in [Threads -> PCs]
    BY <1>0 DEF TypeOK, PCs
  <2>4. \A u \in Threads : \/ pc'[u] = [pc EXCEPT ![t] = "idle"][u]
                           \/ pc[u] = "waiting" /\ pc'[u] = "waitwoken"
    BY <1>0, <1>3, <2>1, <2>3, NextTicketEffect DEF Grant
  <2>5. pc'[t] = "idle" /\ \A u \in Threads \ {t} : StaysPut(u)
    BY <1>0, <1>3, <2>1, <2>2, <2>4 DEF Grant, Leave, StaysPut, TypeOK
  <2> HIDE DEF e
  <2>6. HandedOver(t, e)
    BY <1>0, <2>1, <2>2, <2>5 DEF HandedOver
  <2> QED BY <2>1, <2>6 DEF OneOfEight
<1>4. CASE TakeTicket(t)
  BY <1>4 DEF OneOfEight
<1>5. CASE CheckTicket(t)
  <2> DEFINE e == ent[t]
  <2>1. /\ pc[t] = "waitwoken" /\ e \in Entities
        /\ CountersStay /\ BusyStays /\ UNCHANGED where
    BY <1>0, <1>5 DEF CheckTicket, TypeInv, NamesEntity, AboutEntity, entityVars,
                      CountersStay, BusyStays
  <2>2. CASE /\ pc' = [pc EXCEPT ![t] = "waiting"]
             /\ UNCHANGED <<holds, op, ent, want, ticket>>
    <3>1. \A u \in Threads : StaysPut(u)
      BY <1>0, <2>1, <2>2 DEF StaysPut, TypeOK
    <3>2. Unmoved
      BY <2>1, <3>1 DEF Unmoved
    <3> QED BY <3>2 DEF OneOfEight
  <2>3. CASE /\ waiters_bottom[e] = ticket[t]
             /\ \/ /\ holds' = [holds EXCEPT ![t] = @ \cup {e}]
                   /\ \/ pc' = [pc EXCEPT ![t] = "idle"] /\ Leave(t)
                      \/ /\ pc' = [pc EXCEPT ![t] = "acquire"]
                         /\ UNCHANGED <<op, ent, want, ticket>>
                \/ /\ pc' = [pc EXCEPT ![t] = "reclaim"]
                   /\ UNCHANGED <<holds, op, ent, want, ticket>>
    <3>1. \A u \in Threads \ {t} : StaysPut(u)
      BY <1>0, <2>3 DEF StaysPut, Leave, TypeOK
    <3>2. \/ /\ holds' = [holds EXCEPT ![t] = @ \cup {e}]
             /\ pc'[t] = "idle" \/ (pc'[t] = "acquire" /\ ent'[t] = e)
          \/ UNCHANGED holds /\ pc'[t] = "reclaim" /\ ent'[t] = e
      BY <1>0, <2>3 DEF TypeOK
    <3>3. ent[t] = e /\ ticket[t] = waiters_bottom[e]
      BY <2>3
    <3> HIDE DEF e
    <3>4. Claimed(t, e)
      BY <1>0, <2>1, <3>1, <3>2, <3>3 DEF Claimed
    <3> QED BY <2>1, <3>4 DEF OneOfEight
  <2> QED BY <1>5, <2>2, <2>3 DEF CheckTicket
<1>6. CASE Reclaim(t)
  <2> DEFINE e == ent[t]
             lists == [where EXCEPT ![e] = "freelist"]
  <2>1. /\ pc[t] = "reclaim" /\ e \in Entities /\ CountersStay /\ UNCHANGED holds
    BY <1>0, <1>6 DEF Reclaim, TypeInv, NamesEntity, AboutEntity, CountersStay
  <2>2. /\ \A x \in Entities : where'[x] = lists[x]
                              \/ (lists[x] = "loadedlist" /\ where'[x] = "freelist")
        /\ pc'[t] \in {"ticket", "exited"}
        /\ \A u \in Threads : u # t => /\ pc'[u] = pc[u] /\ ent'[u] = ent[u]
                                     /\ ticket'[u] = ticket[u]
    <3>1. BlockScan(t, lists, [tag EXCEPT ![e] = NoKey])
      BY <1>6 DEF Reclaim
    <3>2. lists \in [Entities -> Lists]
      BY <1>0 DEF TypeOK, Lists
    <3> HIDE DEF lists
    <3> QED BY <1>0, <3>1, <3>2, BlockScanEffect
  <2>3. /\ where'[e] # "busylist"
        /\ \A x \in Entities : x # e => (where'[x] = "busylist" <=> where[x] = "busylist")
    BY <1>0, <2>1, <2>2 DEF TypeOK
  <2>4. \A u \in Threads \ {t} : StaysPut(u)
    BY <2>1, <2>2 DEF StaysPut
  <2>5. ent[t] = e
    OBVIOUS
  <2> HIDE DEF e, lists
  <2>6. Reclaimed(t, e)
    BY <1>0, <2>1, <2>2, <2>3, <2>4, <2>5 DEF Reclaimed
  <2> QED BY <2>1, <2>6 DEF OneOfEight
<1> QED BY <1>1, <1>2, <1>3, <1>4, <1>5, <1>6 DEF Continue

LEMMA StepRelease ==
  ASSUME IInv, NEW t \in Threads, NEW e \in Entities, Release(t, e)
  PROVE  OneOfEight(t)
<1>0. Ownership /\ TypeOK
  BY DEF IInv, TypeInv
<1>1. CASE set_free(t, e) \/ DiskFull(t, e)
  <2>1. SetFree(t, e) /\ pc[t] = "idle" /\ e \in holds[t]
    BY <1>1 DEF set_free, DiskFull, Calls, SetFree
  <2>2. /\ pc' \in [Threads -> PCs]
        /\ \A u \in Threads : \/ pc'[u] = pc[u]
                              \/ pc[u] = "busywait" /\ pc'[u] = "busywoken"
                              \/ u = t /\ pc'[t] = "grant" /\ ent'[t] = e
    BY <1>0, <2>1, SetFreeEffect
  <2>3. CountersStay /\ ticket' = ticket
    BY <2>1 DEF SetFree, CountersStay
  <2>4. CASE waiters_bottom[e] # waiters_head[e]
    <3>1. /\ UNCHANGED <<where, holds>> /\ ent' = [ent EXCEPT ![t] = e]
          /\ pc' = [pc EXCEPT ![t] = "grant"]
      BY <2>1, <2>4 DEF SetFree
    <3>2. /\ pc[t] \in Plain /\ pc'[t] \in Plain /\ holds'[t] = holds[t] /\ Prepared(t)'
          /\ \A u \in Threads \ {t} : StaysPut(u)
      BY <1>0, <2>1, <2>3, <2>4, <3>1 DEF Plain, Prepared, StaysPut, TypeOK, CountersStay
    <3>3. Unmoved
      BY <1>0, <2>3, <3>1, <3>2 DEF Unmoved, BusyStays
    <3> QED BY <3>3 DEF OneOfEight
  <2>5. CASE waiters_bottom[e] = waiters_head[e]
    <3>1. /\ where' = [where EXCEPT ![e] = "freelist"]
          /\ holds' = [holds EXCEPT ![t] = @ \ {e}]
          /\ pc' \in Signal(pc, BusySleepers, "busywoken")
          /\ ent' = ent
      BY <2>1, <2>5 DEF SetFree
    <3>2. \A u \in Threads : \/ pc'[u] = pc[u]
                             \/ pc[u] = "busywait" /\ pc'[u] = "busywoken"
      BY <1>0, <3>1, SignalEffect DEF TypeOK, BusySleepers, PCs
    <3>3. pc'[t] = "idle" /\ \A u \in Threads \ {t} : StaysPut(u)
      BY <1>0, <2>1, <2>3, <3>1, <3>2 DEF StaysPut, TypeOK
    <3>4. GivenUp(t, e)
      BY <1>0, <2>1, <2>3, <3>1, <3>3 DEF GivenUp, Lists
    <3> QED BY <3>4 DEF OneOfEight
  <2> QED BY <2>4, <2>5
<1>2. CASE set_loaded(t, e)
  <2>1. /\ pc[t] = "idle" /\ e \in holds[t]
        /\ holds' = [holds EXCEPT ![t] = @ \ {e}]
        /\ UNCHANGED <<waiters_head, ent, ticket>>
    BY <1>2 DEF set_loaded, Calls
  <2>2. CASE waiters_head[e] # waiters_bottom[e]
    <3>1. NextTicket(e, pc) /\ UNCHANGED where
      BY <1>2, <2>2 DEF set_loaded
    <3>2. \A u \in Threads : \/ pc'[u] = pc[u]
                             \/ pc[u] = "waiting" /\ pc'[u] = "waitwoken"
      BY <1>0, <3>1, NextTicketEffect DEF TypeOK
    <3>3. pc'[t] = "idle" /\ \A u \in Threads \ {t} : StaysPut(u)
      BY <1>0, <2>1, <3>2 DEF StaysPut, TypeOK
    <3>4. waiters_bottom' = [waiters_bottom EXCEPT ![e] = ADD_SAFELY_INT16T(@)]
      BY <3>1 DEF NextTicket
    <3>5. HandedOver(t, e)
      BY <1>0, <2>1, <2>2, <3>1, <3>3, <3>4 DEF HandedOver
    <3> QED BY <3>5 DEF OneOfEight
  <2>3. CASE waiters_head[e] = waiters_bottom[e]
    <3>1. /\ where' = [where EXCEPT ![e] = "loadedlist"]
          /\ CountersStay /\ UNCHANGED pc
      BY <1>2, <2>3 DEF set_loaded, CountersStay
    <3>2. pc'[t] = "idle" /\ \A u \in Threads \ {t} : StaysPut(u)
      BY <1>0, <2>1, <3>1 DEF StaysPut, TypeOK
    <3>3. GivenUp(t, e)
      BY <1>0, <2>1, <3>1, <3>2 DEF GivenUp, Lists
    <3> QED BY <3>3 DEF OneOfEight
  <2> QED BY <2>2, <2>3
<1>3. CASE set_ready(t, e)
  <2>1. PICK v \in Threads \ {t} :
          holds' = [holds EXCEPT ![t] = @ \ {e}, ![v] = @ \cup {e}]
    BY <1>3 DEF set_ready
  <2>2. /\ pc[t] = "idle" /\ e \in holds[t] /\ CountersStay
        /\ UNCHANGED <<where, pc, ent, ticket>>
    BY <1>3 DEF set_ready, Calls, CountersStay, entityVars
  <2>3. PassedOn(t, v, e)
    BY <1>0, <2>1, <2>2 DEF PassedOn
  <2> QED BY <2>3 DEF OneOfEight
<1>4. CASE remove_from_branch(t, e)
  <2>1. /\ pc[t] = "idle" /\ e \in holds[t] /\ CountersStay
        /\ where' = [where EXCEPT ![e] = "removed"]
        /\ holds' = [holds EXCEPT ![t] = @ \ {e}]
    BY <1>4 DEF remove_from_branch, Calls, CountersStay
  <2>2. pc'[t] = "idle" /\ \A u \in Threads \ {t} : StaysPut(u)
    BY <1>0, <1>4, <2>1 DEF remove_from_branch, BroadcastBusy, StaysPut, TypeOK
  <2>3. GivenUp(t, e)
    BY <1>0, <2>1, <2>2 DEF GivenUp, Lists
  <2> QED BY <2>3 DEF OneOfEight
<1> QED BY <1>1, <1>2, <1>3, <1>4 DEF Release

LEMMA StepObtain ==
  ASSUME IInv, NEW t \in Threads, Obtain(t)
  PROVE  OneOfEight(t)
<1>0. Ownership /\ TypeOK
  BY DEF IInv, TypeInv
<1>1. CASE get_free(t)
  <2>1. pc[t] = "idle"
    BY <1>1 DEF get_free, Calls
  <2>2. CASE NoEntityLeft(t)
    BY <2>1, <2>2, StepGetFree
  <2>3. CASE \E key : TakeFree(t, key) \/ SleepOnBusysignal(t, key)
    BY <2>1, <2>3, StepGetFree
  <2>4. CASE \E q \in Seqs : \/ TakeFree(t, <<SessionOf[t], q>>)
                             \/ SleepOnBusysignal(t, <<SessionOf[t], q>>)
    BY <2>3, <2>4
  <2> QED BY <1>1, <2>2, <2>4 DEF get_free
<1>2. CASE get_loaded(t)
  <2>1. pc[t] = "idle"
    BY <1>2 DEF get_loaded, Calls
  <2>2. PICK q \in Seqs :
          \/ \E e \in Found("busylist", <<SessionOf[t], q>>) :
                QueueFor(t, e, "get_loaded", <<SessionOf[t], q>>)
          \/ \E e \in Found("loadedlist", <<SessionOf[t], q>>) :
                /\ where' = [where EXCEPT ![e] = "busylist"]
                /\ holds' = [holds EXCEPT ![t] = @ \cup {e}]
                /\ UNCHANGED <<tag, full, waiters_head, waiters_bottom, waitlock,
                               pc, op, ent, want, ticket, stage>>
    BY <1>2 DEF get_loaded
  <2>3. CASE \E e \in Found("loadedlist", <<SessionOf[t], q>>) :
                /\ where' = [where EXCEPT ![e] = "busylist"]
                /\ holds' = [holds EXCEPT ![t] = @ \cup {e}]
                /\ UNCHANGED <<tag, full, waiters_head, waiters_bottom, waitlock,
                               pc, op, ent, want, ticket, stage>>
    <3>1. PICK e \in Entities :
                /\ where[e] = "loadedlist"
                /\ where' = [where EXCEPT ![e] = "busylist"]
                /\ holds' = [holds EXCEPT ![t] = @ \cup {e}]
                /\ UNCHANGED <<waiters_head, waiters_bottom, pc, ent, ticket>>
      BY <2>3 DEF Found, On
    <3>2. /\ CountersStay /\ pc[t] \in Plain /\ pc'[t] = "idle"
          /\ \A u \in Threads \ {t} : StaysPut(u)
      BY <1>0, <2>1, <3>1 DEF CountersStay, Plain, StaysPut, TypeOK
    <3>3. Taken(t, e)
      BY <1>0, <3>1, <3>2 DEF Taken
    <3> QED BY <3>3 DEF OneOfEight
  <2> QED BY <2>1, <2>2, <2>3, StepQueueFor DEF Found, On
<1>3. CASE \E e \in Entities : get_specific(t, e)
  <2>1. PICK e \in Entities, q \in Seqs :
          /\ pc[t] = "idle"
          /\ \/ /\ where[e] = "freelist"
                /\ where' = [where EXCEPT ![e] = "busylist"]
                /\ holds' = [holds EXCEPT ![t] = @ \cup {e}]
                /\ pc' = [pc EXCEPT ![t] = "acquire"]
                /\ ent' = [ent EXCEPT ![t] = e]
                /\ UNCHANGED <<waiters_head, waiters_bottom, ticket>>
             \/ QueueFor(t, e, "get_specific", <<SessionOf[t], q>>)
    BY <1>3 DEF get_specific, Calls
  <2>2. CASE QueueFor(t, e, "get_specific", <<SessionOf[t], q>>)
    BY <2>1, <2>2, StepQueueFor
  <2>3. CASE /\ where[e] = "freelist"
             /\ where' = [where EXCEPT ![e] = "busylist"]
             /\ holds' = [holds EXCEPT ![t] = @ \cup {e}]
             /\ pc' = [pc EXCEPT ![t] = "acquire"]
             /\ ent' = [ent EXCEPT ![t] = e]
             /\ UNCHANGED <<waiters_head, waiters_bottom, ticket>>
    <3>1. /\ CountersStay /\ pc[t] \in Plain /\ pc'[t] = "acquire" /\ ent'[t] = e
          /\ \A u \in Threads \ {t} : StaysPut(u)
      BY <1>0, <2>1, <2>3 DEF CountersStay, Plain, StaysPut, TypeOK
    <3>2. Taken(t, e)
      BY <1>0, <2>3, <3>1 DEF Taken
    <3> QED BY <3>2 DEF OneOfEight
  <2> QED BY <2>1, <2>2, <2>3
<1> QED BY <1>1, <1>2, <1>3 DEF Obtain

LEMMA StepEndSession ==
  ASSUME IInv, NEW t \in Threads, EndSession(t) \/ SpuriousWakeup(t)
  PROVE  OneOfEight(t)
<1>0. Ownership /\ TypeOK
  BY DEF IInv, TypeInv
<1>1. CASE Shutdown(t) \/ Join(t) \/ WakeSleepers(t) \/ SpuriousWakeup(t)
  <2>1. CountersStay /\ BusyStays
    BY <1>1
    DEF Shutdown, Join, WakeSleepers, SpuriousWakeup, entityVars, CountersStay, BusyStays
  <2>2. \A u \in Threads : StaysPut(u)
    BY <1>0, <1>1
    DEF Shutdown, Join, WakeSleepers, SpuriousWakeup, BroadcastBusy, threadVars,
        StaysPut, TypeOK
  <2>3. Unmoved
    BY <1>0, <2>1, <2>2 DEF Unmoved
  <2> QED BY <2>3 DEF OneOfEight
<1>2. CASE block_until_free(t)
  <2>1. /\ pc[t] = "idle" /\ CountersStay /\ holds' = holds
    BY <1>2 DEF block_until_free, Calls, CountersStay
  <2>2. /\ \A x \in Entities : where'[x] = where[x]
                              \/ (where[x] = "loadedlist" /\ where'[x] = "freelist")
        /\ pc'[t] \in {"ticket", "exited"}
        /\ \A u \in Threads : u # t => /\ pc'[u] = pc[u] /\ ent'[u] = ent[u]
                                     /\ ticket'[u] = ticket[u]
    BY <1>0, <1>2, BlockScanEffect DEF block_until_free, TypeOK
  <2>3. BusyStays
    BY <2>2 DEF BusyStays
  <2>4. /\ pc[t] \in Plain /\ pc'[t] \in Plain /\ holds'[t] = holds[t] /\ Prepared(t)'
        /\ \A u \in Threads \ {t} : StaysPut(u)
    BY <2>1, <2>2 DEF Plain, Prepared, StaysPut
  <2>5. Unmoved
    BY <1>0, <2>1, <2>3, <2>4 DEF Unmoved
  <2> QED BY <2>5 DEF OneOfEight
<1> QED BY <1>1, <1>2 DEF EndSession

\* Whatever a thread does, it does one of the eight.
LEMMA EveryStep ==
  ASSUME IInv, NEW t \in Threads,
         \/ Continue(t) \/ Obtain(t) \/ EndSession(t) \/ SpuriousWakeup(t)
         \/ \E e \in Entities : Release(t, e)
  PROVE  OneOfEight(t)
BY StepContinue, StepObtain, StepEndSession, StepRelease

LEMMA OwnershipStep ==
  ASSUME IInv, NEW t \in Threads, OneOfEight(t)
  PROVE  Ownership'
BY OwnershipStays, OwnershipTaken, OwnershipGivenUp, OwnershipHandedOver, OwnershipPassedOn,
   OwnershipQueued, OwnershipClaimed, OwnershipReclaimed
DEF OneOfEight, IInv, TypeInv

LEMMA OwnershipInit == Init => Ownership
BY TicketAssumption
DEF Init, Ownership, TicketsInWindow, TicketsDistinct, EveryTicketWaits, Prepared,
    SoleOwner, OwnsOnce, BusyOwned, Owns, Waits, InWindow

-----------------------------------------------------------------------------
(* The theorems                                                              *)

THEOREM Invariance == Spec => []IInv
<1>1. Init => IInv
  BY TypeInit, OwnershipInit DEF IInv
<1>2. IInv /\ [Next]_vars => IInv'
  <2> SUFFICES ASSUME IInv, [Next]_vars PROVE IInv'
    OBVIOUS
  <2>1. CASE Next
    <3>1. TypeInv'
      BY <2>1, TypeContinue, TypeObtain, TypeEndSession, TypeRelease DEF Next, IInv
    <3>2. Ownership'
      BY <2>1, EveryStep, OwnershipStep DEF Next
    <3> QED BY <3>1, <3>2 DEF IInv
  <2>2. CASE UNCHANGED vars
    BY <2>2
    DEF vars, entityVars, threadVars, IInv, TypeInv, TypeOK, NamesEntity, Ownership,
        TicketsInWindow, TicketsDistinct, EveryTicketWaits, Prepared, SoleOwner,
        OwnsOnce, BusyOwned, Owns, Waits
  <2> QED BY <2>1, <2>2
<1> QED BY <1>1, <1>2, PTL DEF Spec

LEMMA OwnersAreOwns == \A e \in Entities : Owners(e) = {t \in Threads : Owns(t, e)}
BY DEF Owners, Owns

\* Two threads never use one buffer or recording point at the same time,
\* whatever hand-overs, wake-ups and list moves of resourcetree.c interleave.
THEOREM OwnersExclusive == Spec => []OneOwner
<1>1. IInv => OneOwner
  BY OwnersAreOwns DEF IInv, Ownership, SoleOwner, OneOwner
<1> QED BY <1>1, Invariance, PTL

\* An entity is on the busy list exactly while somebody owns it: get_free never
\* hands out what is in use, and nothing in use is lost from the branch.
THEOREM BusyMeansOwned == Spec => []BusyIffOwned
<1>1. IInv => BusyIffOwned
  BY OwnersAreOwns DEF IInv, Ownership, BusyOwned, BusyIffOwned
<1> QED BY <1>1, Invariance, PTL

-----------------------------------------------------------------------------
(* What the branch promises its callers                                      *)

\* get_free, and get_specific on a free entity, up to its acquire function.
Asking == {"busywait", "busywoken", "acquire"}

\* In get_loaded, get_specific or block_until_free, with a particular entity.
Queueing == {"ticket", "waiting", "waitwoken", "reclaim"}

\* A thread acquires for its own session.
WantsOwn ==
  \A t \in Threads :
    pc[t] \in Asking \/ op[t] = "get_specific" => want[t] \in {SessionOf[t]} \X Seqs

NoCallIsNamed == \A t \in Threads : pc[t] \in {"idle", "exited"} => op[t] = "none"

\* Once pthread_join returned, nothing will be acquired for the session any more.
JoinedIsQuiet ==
  \A t \in Threads :
    stage[SessionOf[t]] \in {"joined", "finished"} =>
      pc[t] \notin Asking /\ op[t] # "get_specific"

\* Only a session that was joined is taken down.
BlocksJoined ==
  \A t \in Threads :
    /\ pc[t] = "reclaim" => op[t] = "block_until_free"
    /\ op[t] = "block_until_free" => stage[SessionOf[t]] \in {"joined", "finished"}

\* Who waits for an entity has none.
QueuersHoldNothing ==
  \A t \in Threads : pc[t] \in Queueing => op[t] \in Does[t] \cap WaitNames /\ holds[t] = {}

CallsInv ==
  WantsOwn /\ NoCallIsNamed /\ JoinedIsQuiet /\ BlocksJoined /\ QueuersHoldNothing

TagsInv == NeverLoadedFromFree /\ NothingOwnedAfterBlock

SInv == CallsInv /\ TagsInv

\* What CallsInv says of one thread.
CallOK(t) ==
  /\ pc[t] \in Asking \/ op[t] = "get_specific" => want[t] \in {SessionOf[t]} \X Seqs
  /\ pc[t] \in {"idle", "exited"} => op[t] = "none"
  /\ stage[SessionOf[t]] \in {"joined", "finished"} =>
       pc[t] \notin Asking /\ op[t] # "get_specific"
  /\ pc[t] = "reclaim" => op[t] = "block_until_free"
  /\ op[t] = "block_until_free" => stage[SessionOf[t]] \in {"joined", "finished"}
  /\ pc[t] \in Queueing => op[t] \in Does[t] \cap WaitNames /\ holds[t] = {}

\* CallsInv, thread by thread.
LEMMA CallsInvIsCallOK == CallsInv <=> \A t \in Threads : CallOK(t)
BY
DEF CallsInv, WantsOwn, NoCallIsNamed, JoinedIsQuiet, BlocksJoined, QueuersHoldNothing,
    CallOK

\* A thread's call that another one's step leaves alone, or wakes up.
CallStays(u) ==
  /\ op'[u] = op[u] /\ want'[u] = want[u]
  /\ pc[u] \in Queueing => holds'[u] = holds[u]
  /\ \/ pc'[u] = pc[u]
     \/ pc[u] = "busywait" /\ pc'[u] = "busywoken"
     \/ pc[u] = "waiting" /\ pc'[u] = "waitwoken"

\* A step that finishes no join and leaves a thread alone.
LEMMA CallOKStays ==
  ASSUME NEW u \in Threads, CallOK(u), CallStays(u),
         stage'[SessionOf[u]] \in {"joined", "finished"}
           <=> stage[SessionOf[u]] \in {"joined", "finished"}
  PROVE  CallOK(u)'
BY DEF CallOK, CallStays, Asking, Queueing

-----------------------------------------------------------------------------
(* The calls                                                                 *)

\* Leaving a call ends its locals and touches nobody else's.
LEMMA CallsLeave ==
  ASSUME TypeOK, NEW t \in Threads, Leave(t)
  PROVE  /\ op'[t] = "none"
         /\ \A u \in Threads : u # t => op'[u] = op[u] /\ want'[u] = want[u]
BY DEF TypeOK, Leave

\* A step of one thread, which keeps the session's stage.
LEMMA CallsOneThread ==
  ASSUME CallsInv, NEW t \in Threads, CallOK(t)', UNCHANGED stage,
         \A u \in Threads : u # t => CallStays(u)
  PROVE  CallsInv'
<1>1. \A u \in Threads : CallOK(u)'
  BY CallsInvIsCallOK, CallOKStays
<1> QED BY <1>1
  DEF CallsInv, WantsOwn, NoCallIsNamed, JoinedIsQuiet, BlocksJoined, QueuersHoldNothing,
      CallOK

\* get_free acquires for the session of its caller.
LEMMA CallsGetFree ==
  ASSUME TypeOK, CallsInv, NEW t \in Threads,
         NEW key \in {SessionOf[t]} \X Seqs,
         stage[SessionOf[t]] \notin {"joined", "finished"},
         TakeFree(t, key) \/ SleepOnBusysignal(t, key)
  PROVE  CallsInv'
<1>1. CallOK(t)'
  BY DEF TakeFree, SleepOnBusysignal, CallOK, TypeOK, Asking, Queueing
<1>2. \A u \in Threads : u # t => CallStays(u)
  BY DEF TakeFree, SleepOnBusysignal, CallStays, TypeOK
<1>3. UNCHANGED stage
  BY DEF TakeFree, SleepOnBusysignal
<1> QED BY <1>1, <1>2, <1>3, CallsOneThread

\* A call that ends, or a thread that does.
LEMMA CallsExit ==
  ASSUME TypeOK, CallsInv, NEW t \in Threads, NEW next \in {"idle", "exited"},
         pc' = [pc EXCEPT ![t] = next], Leave(t), UNCHANGED stage,
         \A u \in Threads : u # t => holds'[u] = holds[u]
  PROVE  CallsInv'
<1>1. CallOK(t)'
  BY CallsLeave DEF CallOK, TypeOK, Asking, Queueing
<1>2. \A u \in Threads : u # t => CallStays(u)
  BY CallsLeave DEF CallStays, TypeOK
<1> QED BY <1>1, <1>2, CallsOneThread

\* A thread that is going to wait has no entity.
LEMMA CallsQueueFor ==
  ASSUME TypeOK, CallsInv, NEW t \in Threads, NEW e \in Entities, NEW name \in {"get_loaded", "get_specific"},
         NEW key \in {SessionOf[t]} \X Seqs,
         stage[SessionOf[t]] \notin {"joined", "finished"},
         holds[t] = {}, name \in Does[t], QueueFor(t, e, name, key)
  PROVE  CallsInv'
<1>1. CallOK(t)'
  BY DEF QueueFor, CallOK, TypeOK, Asking, Queueing, WaitNames
<1>2. \A u \in Threads : u # t => CallStays(u)
  BY DEF QueueFor, CallStays, TypeOK
<1>3. UNCHANGED stage
  BY DEF QueueFor
<1> QED BY <1>1, <1>2, <1>3, CallsOneThread

\* block_until_free waits, or finishes the session.
LEMMA CallsBlockScan ==
  ASSUME TypeOK, CallsInv, NEW t \in Threads, NEW lists, NEW tags,
         stage[SessionOf[t]] \in {"joined", "finished"},
         holds[t] = {}, "block_until_free" \in Does[t], UNCHANGED holds, BlockScan(t, lists, tags)
  PROVE  CallsInv'
<1>1. CallOK(t)' /\ \A u \in Threads : u # t => CallStays(u)
  <2>1. CASE /\ pc' = [pc EXCEPT ![t] = "ticket"] /\ op' = [op EXCEPT ![t] = "block_until_free"]
             /\ UNCHANGED <<want, stage>>
    BY <2>1 DEF CallOK, CallStays, TypeOK, Asking, WaitNames
  <2>2. CASE pc' = [pc EXCEPT ![t] = "exited"] /\ Leave(t)
    BY <2>2, CallsLeave DEF CallOK, CallStays, TypeOK, Asking, Queueing
  <2> QED BY <2>1, <2>2 DEF BlockScan
<1>2. \A u \in Threads : stage'[SessionOf[u]] \in {"joined", "finished"}
                           <=> stage[SessionOf[u]] \in {"joined", "finished"}
  BY ConstantsAssumption DEF BlockScan, TypeOK
<1>3. \A u \in Threads : CallOK(u)'
  BY <1>1, <1>2, CallsInvIsCallOK, CallOKStays
<1> QED BY <1>3
  DEF CallsInv, WantsOwn, NoCallIsNamed, JoinedIsQuiet, BlocksJoined, QueuersHoldNothing,
      CallOK

\* One step per action: who is in which call stays in order.
LEMMA CallsStep ==
  ASSUME IInv, CallsInv, NEW t \in Threads,
         \/ Continue(t) \/ Obtain(t) \/ EndSession(t) \/ SpuriousWakeup(t)
         \/ \E e \in Entities : Release(t, e)
  PROVE  CallsInv'
<1>0. TypeOK /\ NamesEntity /\ CallOK(t)
  BY CallsInvIsCallOK DEF IInv, TypeInv
<1>1. CASE GetFreeWoken(t)
  <2>1. /\ want[t] \in {SessionOf[t]} \X Seqs
        /\ stage[SessionOf[t]] \notin {"joined", "finished"}
    BY <1>0, <1>1 DEF GetFreeWoken, CallOK, Asking
  <2>2. CASE TakeFree(t, want[t]) \/ SleepOnBusysignal(t, want[t])
    BY <1>0, <2>1, <2>2, CallsGetFree
  <2>3. CASE pc' = [pc EXCEPT ![t] = "exited"] /\ Leave(t) /\ UNCHANGED <<holds, stage>>
    BY <1>0, <2>3, CallsExit
  <2> QED BY <1>1, <2>2, <2>3 DEF GetFreeWoken, NoEntityLeft
<1>2. CASE Acquire(t)
  BY <1>0, <1>2, CallsExit DEF Acquire
<1>3. CASE Grant(t)
  <2>1. [pc EXCEPT ![t] = "idle"] \in [Threads -> PCs] /\ ent[t] \in Entities
    BY <1>0, <1>3 DEF TypeOK, PCs, NamesEntity, AboutEntity, Grant
  <2>2. \A u \in Threads : \/ pc'[u] = [pc EXCEPT ![t] = "idle"][u]
                           \/ pc[u] = "waiting" /\ pc'[u] = "waitwoken"
    BY <1>0, <1>3, <2>1, NextTicketEffect DEF Grant
  <2>3. /\ Leave(t) /\ UNCHANGED stage /\ pc'[t] = "idle"
        /\ \A u \in Threads : u # t => holds'[u] = holds[u]
    BY <1>0, <1>3, <2>2 DEF Grant, TypeOK
  <2>4. CallOK(t)' /\ \A u \in Threads : u # t => CallStays(u)
    BY <1>0, <2>2, <2>3, CallsLeave DEF CallOK, CallStays, Asking, Queueing, TypeOK
  <2> QED BY <2>3, <2>4, CallsOneThread
<1>4. CASE TakeTicket(t)
  <2>1. CallOK(t)' /\ UNCHANGED stage /\ \A u \in Threads : u # t => CallStays(u)
    BY <1>0, <1>4 DEF TakeTicket, CallOK, CallStays, Asking, Queueing, TypeOK
  <2> QED BY <2>1, CallsOneThread
<1>5. CASE CheckTicket(t)
  <2>1. CASE pc' = [pc EXCEPT ![t] = "idle"] /\ Leave(t)
    <3>1. UNCHANGED stage /\ \A u \in Threads : u # t => holds'[u] = holds[u]
      BY <1>0, <1>5 DEF CheckTicket, TypeOK
    <3> QED BY <1>0, <2>1, <3>1, CallsExit
  <2>2. CASE UNCHANGED <<op, want>>
    <3>1. /\ UNCHANGED stage /\ pc[t] = "waitwoken"
          /\ \A u \in Threads : u # t => holds'[u] = holds[u]
          /\ \/ pc' = [pc EXCEPT ![t] = "idle"] /\ Leave(t)
             \/ pc' = [pc EXCEPT ![t] = "waiting"] /\ UNCHANGED holds
             \/ pc' = [pc EXCEPT ![t] = "acquire"] /\ op[t] = "get_specific"
             \/ /\ pc' = [pc EXCEPT ![t] = "reclaim"] /\ op[t] = "block_until_free"
                /\ UNCHANGED holds
      BY <1>0, <1>5 DEF CheckTicket, TypeOK
    <3>2. CASE pc' = [pc EXCEPT ![t] = "idle"] /\ Leave(t)
      BY <2>1, <3>2
    <3>3. CASE \/ pc' = [pc EXCEPT ![t] = "waiting"] /\ UNCHANGED holds
               \/ pc' = [pc EXCEPT ![t] = "acquire"] /\ op[t] = "get_specific"
               \/ /\ pc' = [pc EXCEPT ![t] = "reclaim"] /\ op[t] = "block_until_free"
                  /\ UNCHANGED holds
      <4>1. CallOK(t)' /\ \A u \in Threads : u # t => CallStays(u)
        BY <1>0, <2>2, <3>1, <3>3 DEF CallOK, CallStays, Asking, Queueing, TypeOK
      <4> QED BY <3>1, <4>1, CallsOneThread
    <3> QED BY <3>1, <3>2, <3>3
  <2> QED BY <1>5, <2>1, <2>2 DEF CheckTicket
<1>6. CASE Reclaim(t) \/ block_until_free(t)
  <2>1. /\ stage[SessionOf[t]] \in {"joined", "finished"}
        /\ holds[t] = {} /\ "block_until_free" \in Does[t] /\ UNCHANGED holds
    BY <1>0, <1>6 DEF Reclaim, block_until_free, Calls, CallOK, Queueing
  <2>2. CASE \E lists, tags : BlockScan(t, lists, tags)
    BY <1>0, <2>1, <2>2, CallsBlockScan
  <2> QED BY <1>6, <2>2 DEF Reclaim, block_until_free
<1>7. CASE get_free(t)
  <2>1. stage[SessionOf[t]] \notin {"joined", "finished"}
    BY <1>7 DEF get_free, StillStarts
  <2>2. CASE NoEntityLeft(t)
    BY <1>0, <2>2, CallsExit DEF NoEntityLeft
  <2>3. ASSUME NEW q \in Seqs, \/ TakeFree(t, <<SessionOf[t], q>>)
                               \/ SleepOnBusysignal(t, <<SessionOf[t], q>>)
        PROVE  CallsInv'
    BY <1>0, <2>1, <2>3, CallsGetFree
  <2> QED BY <1>7, <2>2, <2>3 DEF get_free
<1>8. CASE get_loaded(t) \/ \E e \in Entities : get_specific(t, e)
  <2>1. stage[SessionOf[t]] \notin {"joined", "finished"} /\ pc[t] = "idle"
    BY <1>8 DEF get_loaded, get_specific, StillStarts, Calls
  <2>2. ASSUME NEW e \in Entities, NEW q \in Seqs, NEW name \in {"get_loaded", "get_specific"},
               holds[t] = {}, name \in Does[t], QueueFor(t, e, name, <<SessionOf[t], q>>)
        PROVE  CallsInv'
    BY <1>0, <2>1, <2>2, CallsQueueFor
  <2>3. CASE /\ UNCHANGED <<pc, op, want, stage>>
             /\ \A u \in Threads : u # t => holds'[u] = holds[u]
    <3>1. CallOK(t)' /\ \A u \in Threads : u # t => CallStays(u)
      BY <1>0, <2>1, <2>3 DEF CallOK, CallStays, Queueing
    <3> QED BY <2>3, <3>1, CallsOneThread
  <2>4. ASSUME NEW e \in Entities, NEW q \in Seqs,
               /\ pc' = [pc EXCEPT ![t] = "acquire"]
               /\ op' = [op EXCEPT ![t] = "get_specific"]
               /\ want' = [want EXCEPT ![t] = <<SessionOf[t], q>>]
               /\ UNCHANGED stage
               /\ holds' = [holds EXCEPT ![t] = @ \cup {e}]
        PROVE  CallsInv'
    <3>1. CallOK(t)' /\ \A u \in Threads : u # t => CallStays(u)
      BY <1>0, <2>1, <2>4 DEF CallOK, CallStays, Queueing, TypeOK
    <3> QED BY <2>4, <3>1, CallsOneThread
  <2>5. CASE get_loaded(t)
    <3>1. "get_loaded" \in Does[t] /\ holds[t] = {}
      BY <2>5 DEF get_loaded, Calls
    <3>2. CASE \E e \in Entities : /\ holds' = [holds EXCEPT ![t] = @ \cup {e}]
                                   /\ UNCHANGED <<pc, op, want, stage>>
      BY <1>0, <2>3, <3>2 DEF TypeOK
    <3> QED BY <2>2, <2>5, <3>1, <3>2 DEF get_loaded, Found, On
  <2>6. CASE \E e \in Entities : get_specific(t, e)
    BY <2>2, <2>4, <2>6 DEF get_specific, Calls
  <2> QED BY <1>8, <2>5, <2>6
<1>9. CASE Shutdown(t) \/ WakeSleepers(t)
  <2>1. \A u \in Threads : /\ CallStays(u)
                           /\ stage'[SessionOf[u]] \in {"joined", "finished"}
                                <=> stage[SessionOf[u]] \in {"joined", "finished"}
    BY <1>0, <1>9, ConstantsAssumption
    DEF Shutdown, WakeSleepers, MovesTo, BroadcastBusy, CallStays, threadVars, TypeOK
  <2>2. \A u \in Threads : CallOK(u)'
    BY <2>1, CallsInvIsCallOK, CallOKStays
  <2> QED BY <2>2
    DEF CallsInv, WantsOwn, NoCallIsNamed, JoinedIsQuiet, BlocksJoined, QueuersHoldNothing,
        CallOK
<1>10. CASE Join(t)
  <2>1. /\ UNCHANGED <<pc, op, want, holds>>
        /\ \A u \in Threads : SessionOf[u] = SessionOf[t] => pc[u] \in {"idle", "exited"}
        /\ \A u \in Threads : SessionOf[u] # SessionOf[t]
                                => stage'[SessionOf[u]] = stage[SessionOf[u]]
    BY <1>0, <1>10, ConstantsAssumption DEF Join, MovesTo, Calls, threadVars, TypeOK
  <2>2. \A u \in Threads : CallOK(u)'
    BY <2>1, CallsInvIsCallOK DEF CallOK, Asking, Queueing
  <2> QED BY <2>2
    DEF CallsInv, WantsOwn, NoCallIsNamed, JoinedIsQuiet, BlocksJoined, QueuersHoldNothing,
        CallOK
<1>11. CASE SpuriousWakeup(t)
  <2>1. CallOK(t)' /\ UNCHANGED stage /\ \A u \in Threads : u # t => CallStays(u)
    BY <1>0, <1>11 DEF SpuriousWakeup, CallOK, CallStays, Asking, Queueing, TypeOK
  <2> QED BY <2>1, CallsOneThread
<1>12. ASSUME NEW e \in Entities, Release(t, e)
       PROVE  CallsInv'
  <2>1. CASE set_free(t, e) \/ DiskFull(t, e)
    <3>1. SetFree(t, e) /\ pc[t] = "idle"
      BY <2>1 DEF set_free, DiskFull, Calls
    <3>2. UNCHANGED <<want, stage>> /\ \A u \in Threads : u # t => CallStays(u)
      BY <1>0, <3>1, SetFreeEffect DEF SetFree, CallStays, TypeOK
    <3>3. CallOK(t)'
      <4>1. CASE waiters_bottom[e] # waiters_head[e]
        BY <1>0, <3>1, <4>1 DEF SetFree, CallOK, Asking, Queueing, TypeOK
      <4>2. CASE waiters_bottom[e] = waiters_head[e]
        <5>1. op' = op /\ pc' \in Signal(pc, BusySleepers, "busywoken")
          BY <3>1, <4>2 DEF SetFree
        <5>2. pc'[t] = "idle"
          BY <1>0, <3>1, <5>1, SignalEffect DEF TypeOK, BusySleepers, PCs
        <5> QED BY <1>0, <3>1, <3>2, <5>1, <5>2 DEF CallOK, Queueing
      <4> QED BY <4>1, <4>2
    <3> QED BY <3>2, <3>3, CallsOneThread
  <2>2. CASE set_loaded(t, e)
    <3>1. /\ pc[t] = "idle" /\ UNCHANGED <<op, want, stage>>
          /\ \A u \in Threads : u # t => holds'[u] = holds[u]
      BY <1>0, <2>2 DEF set_loaded, Calls, TypeOK
    <3>2. \A u \in Threads : \/ pc'[u] = pc[u]
                             \/ pc[u] = "waiting" /\ pc'[u] = "waitwoken"
      BY <1>0, <2>2, NextTicketEffect DEF set_loaded, TypeOK
    <3>3. CallOK(t)' /\ \A u \in Threads : u # t => CallStays(u)
      BY <1>0, <3>1, <3>2 DEF CallOK, CallStays, Queueing
    <3> QED BY <3>1, <3>3, CallsOneThread
  <2>3. CASE set_ready(t, e) \/ remove_from_branch(t, e)
    <3>1. UNCHANGED <<op, want, stage>> /\ pc[t] = "idle"
      BY <2>3 DEF set_ready, remove_from_branch, Calls
    <3>2. \A u \in Threads : u # t /\ pc[u] \in Queueing => holds'[u] = holds[u]
      <4>1. \A u \in Threads : pc[u] \in Queueing => "work" \notin Does[u]
        BY WorkersAssumption, CallsInvIsCallOK DEF CallOK
      <4> QED BY <1>0, <2>3, <4>1 DEF set_ready, remove_from_branch, TypeOK
    <3>3. \A u \in Threads : \/ pc'[u] = pc[u]
                             \/ pc[u] = "busywait" /\ pc'[u] = "busywoken"
      <4>1. CASE set_ready(t, e)
        BY <4>1 DEF set_ready
      <4>2. CASE remove_from_branch(t, e)
        BY <1>0, <4>2 DEF remove_from_branch, BroadcastBusy, TypeOK
      <4> QED BY <2>3, <4>1, <4>2
    <3>4. CallOK(t)' /\ \A u \in Threads : u # t => CallStays(u)
      BY <1>0, <3>1, <3>2, <3>3 DEF CallOK, CallStays, Queueing
    <3> QED BY <3>1, <3>4, CallsOneThread
  <2> QED BY <1>12, <2>1, <2>2, <2>3 DEF Release
<1> QED BY <1>1, <1>2, <1>3, <1>4, <1>5, <1>6, <1>7, <1>8, <1>9, <1>10, <1>11, <1>12
        DEF Continue, Obtain, EndSession

-----------------------------------------------------------------------------
(* The tags                                                                  *)

\* Tags are only cleared, nothing tagged goes to the free list, nothing that was
\* removed comes back, and a session ends with nothing of its own in the branch.
LEMMA TagsStay ==
  ASSUME TagsInv,
         \A e \in Entities : /\ tag'[e] \in {tag[e], NoKey}
                             /\ where'[e] = "freelist" => where[e] = "freelist" \/ tag'[e] = NoKey
                             /\ where[e] = "removed" => where'[e] = "removed",
         \A s \in Sessions : stage'[s] = "finished" =>
           \/ stage[s] = "finished"
           \/ \A e \in Entities : where'[e] # "removed" => tag'[e] \notin {s} \X Seqs
  PROVE  TagsInv'
<1>1. NeverLoadedFromFree'
  BY DEF TagsInv, NeverLoadedFromFree
<1>2. \A s \in Sessions : NoKey \notin {s} \X Seqs
  BY ConstantsAssumption DEF Keys
<1>3. NothingOwnedAfterBlock'
  BY <1>2 DEF TagsInv, NothingOwnedAfterBlock
<1> QED BY <1>1, <1>3 DEF TagsInv

\* One pass of block_until_free: it finishes only with nothing of its own left.
LEMMA TagsBlockScan ==
  ASSUME TypeOK, TagsInv, NEW t \in Threads,
         NEW lists \in [Entities -> Lists], NEW tags \in [Entities -> Keys \cup {NoKey}],
         \A e \in Entities : /\ tags[e] \in {tag[e], NoKey}
                             /\ lists[e] = "freelist" => tags[e] = NoKey
                             /\ where[e] = "removed" => lists[e] = "removed",
         BlockScan(t, lists, tags)
  PROVE  TagsInv'
<1> DEFINE s == SessionOf[t]
           Owned(list) == {e \in Entities : lists[e] = list /\ tags[e] \in {s} \X Seqs}
<1>0. s \in Sessions /\ \A r \in Sessions : NoKey \notin {r} \X Seqs
  BY ConstantsAssumption DEF Keys
<1>1. CASE where' = lists /\ tag' = tags /\ UNCHANGED stage
  <2>1. \A e \in Entities : /\ tag'[e] \in {tag[e], NoKey}
                            /\ where'[e] = "freelist" => tag'[e] = NoKey
                            /\ where[e] = "removed" => where'[e] = "removed"
    BY <1>1
  <2> QED BY <1>1, <2>1, TagsStay
<1>2. CASE /\ Owned("busylist") = {}
           /\ where' = [e \in Entities |->
                          IF e \in Owned("loadedlist") THEN "freelist" ELSE lists[e]]
           /\ tag' = [e \in Entities |-> IF e \in Owned("loadedlist") THEN NoKey ELSE tags[e]]
           /\ stage' = [stage EXCEPT ![s] = "finished"]
  <2>1. \A e \in Entities : /\ tag'[e] \in {tag[e], NoKey}
                            /\ where'[e] = "freelist" => tag'[e] = NoKey
                            /\ where[e] = "removed" => where'[e] = "removed"
    BY <1>2
  <2>2. \A e \in Entities : where'[e] # "removed" => tag'[e] \notin {s} \X Seqs
    <3> SUFFICES ASSUME NEW e \in Entities, where'[e] # "removed", e \notin Owned("loadedlist")
                 PROVE  tag'[e] \notin {s} \X Seqs
      BY <1>0, <1>2
    <3>1. where'[e] = lists[e] /\ tag'[e] = tags[e]
      BY <1>2
    <3>2. lists[e] \in {"freelist", "busylist", "loadedlist"}
      BY <3>1 DEF Lists
    <3> QED BY <1>0, <1>2, <3>1, <3>2
  <2>3. \A r \in Sessions : stage'[r] = "finished" => r = s \/ stage[r] = "finished"
    BY <1>2 DEF TypeOK
  <2> HIDE DEF s
  <2> QED BY <2>1, <2>2, <2>3, TagsStay
<1> QED BY <1>1, <1>2 DEF BlockScan

\* What is held is on the busy list, so on no other.
LEMMA HeldIsBusy ==
  ASSUME Ownership, NEW t \in Threads, NEW e \in Entities, e \in holds[t]
  PROVE  where[e] = "busylist"
BY DEF Ownership, BusyOwned, Owns

\* One step per action: tags stay where their sessions may find them.
LEMMA TagsStep ==
  ASSUME IInv, CallsInv, TagsInv, NEW t \in Threads,
         \/ Continue(t) \/ Obtain(t) \/ EndSession(t) \/ SpuriousWakeup(t)
         \/ \E e \in Entities : Release(t, e)
  PROVE  TagsInv'
<1>0. TypeOK /\ NamesEntity /\ Ownership /\ CallOK(t)
  BY CallsInvIsCallOK DEF IInv, TypeInv
<1>1. CASE UNCHANGED <<where, tag, stage>>
  BY <1>1 DEF TagsInv, NeverLoadedFromFree, NothingOwnedAfterBlock
<1>2. CASE UNCHANGED <<where, tag>> /\ \A s \in Sessions : stage'[s] = "finished" => stage[s] = "finished"
  BY <1>2 DEF TagsInv, NeverLoadedFromFree, NothingOwnedAfterBlock
<1>3. ASSUME NEW e \in Entities, where[e] # "removed",
             where' = [where EXCEPT ![e] = "busylist"], UNCHANGED <<tag, stage>>
      PROVE  TagsInv'
  <2>1. \A x \in Entities : /\ where'[x] = "freelist" => where[x] = "freelist"
                            /\ where[x] = "removed" => where'[x] = "removed"
    BY <1>0, <1>3 DEF TypeOK
  <2> QED BY <1>3, <2>1, TagsStay
<1>4. ASSUME NEW e \in Entities, e \in holds[t], NEW list \in Lists \ {"freelist"},
             where' = [where EXCEPT ![e] = list], UNCHANGED <<tag, stage>>
      PROVE  TagsInv'
  <2>1. \A x \in Entities : /\ where'[x] = "freelist" => where[x] = "freelist"
                            /\ where[x] = "removed" => where'[x] = "removed"
    BY <1>0, <1>4, HeldIsBusy DEF TypeOK
  <2> QED BY <1>4, <2>1, TagsStay
<1>5. CASE GetFreeWoken(t) \/ get_free(t)
  <2>1. CASE \E key : TakeFree(t, key)
    <3>1. PICK e \in FreeFit : where' = [where EXCEPT ![e] = "busylist"] /\ UNCHANGED <<tag, stage>>
      BY <2>1 DEF TakeFree
    <3>2. e \in Entities /\ where[e] # "removed"
      BY DEF FreeFit, On
    <3> QED BY <1>3, <3>1, <3>2
  <2> QED BY <1>1, <1>5, <2>1
          DEF GetFreeWoken, get_free, SleepOnBusysignal, NoEntityLeft, entityVars
<1>6. CASE Acquire(t)
  <2>1. /\ ent[t] \in Entities /\ where[ent[t]] = "busylist"
        /\ want[t] \in {SessionOf[t]} \X Seqs /\ stage[SessionOf[t]] # "finished"
    BY <1>0, <1>6, HeldIsBusy
    DEF Acquire, NamesEntity, AboutEntity, Ownership, Prepared, CallOK, Asking
  <2>2. /\ UNCHANGED <<where, stage>>
        /\ \A e \in Entities : tag'[e] = IF e = ent[t] THEN want[t] ELSE tag[e]
    BY <1>0, <1>6 DEF Acquire, TypeOK
  <2>3. NeverLoadedFromFree'
    BY <2>1, <2>2 DEF TagsInv, NeverLoadedFromFree
  <2>4. \A s \in Sessions : stage[s] = "finished" => want[t] \notin {s} \X Seqs
    BY <2>1
  <2>5. NothingOwnedAfterBlock'
    BY <2>2, <2>4 DEF TagsInv, NothingOwnedAfterBlock
  <2> QED BY <2>3, <2>5 DEF TagsInv
<1>7. CASE Grant(t) \/ TakeTicket(t) \/ CheckTicket(t)
  BY <1>1, <1>7 DEF Grant, TakeTicket, CheckTicket, entityVars
<1>8. CASE Reclaim(t)
  <2> DEFINE lists == [where EXCEPT ![ent[t]] = "freelist"]
             tags == [tag EXCEPT ![ent[t]] = NoKey]
  <2>1. ent[t] \in Entities /\ where[ent[t]] = "busylist"
    BY <1>0, <1>8 DEF Reclaim, NamesEntity, AboutEntity, Ownership, BusyOwned, Owns
  <2>2. /\ lists \in [Entities -> Lists] /\ tags \in [Entities -> Keys \cup {NoKey}]
        /\ \A e \in Entities : /\ tags[e] \in {tag[e], NoKey}
                               /\ lists[e] = "freelist" => tags[e] = NoKey
                               /\ where[e] = "removed" => lists[e] = "removed"
    BY <1>0, <2>1 DEF TypeOK, Lists, TagsInv, NeverLoadedFromFree
  <2>3. BlockScan(t, lists, tags)
    BY <1>8 DEF Reclaim
  <2> HIDE DEF lists, tags
  <2> QED BY <1>0, <2>2, <2>3, TagsBlockScan
<1>9. CASE block_until_free(t)
  BY <1>0, <1>9, TagsBlockScan DEF block_until_free, TypeOK, TagsInv, NeverLoadedFromFree
<1>10. CASE get_loaded(t)
  <2>1. CASE \E e \in Entities, q \in Seqs : QueueFor(t, e, "get_loaded", <<SessionOf[t], q>>)
    BY <1>1, <2>1 DEF QueueFor
  <2>2. CASE \E e \in Entities : /\ where[e] = "loadedlist"
                                 /\ where' = [where EXCEPT ![e] = "busylist"]
                                 /\ UNCHANGED <<tag, stage>>
    BY <1>3, <2>2
  <2> QED BY <1>10, <2>1, <2>2 DEF get_loaded, Found, On
<1>11. CASE \E e \in Entities : get_specific(t, e)
  <2>1. CASE \E e \in Entities, q \in Seqs : QueueFor(t, e, "get_specific", <<SessionOf[t], q>>)
    BY <1>1, <2>1 DEF QueueFor
  <2>2. CASE \E e \in Entities : /\ where[e] = "freelist"
                                 /\ where' = [where EXCEPT ![e] = "busylist"]
                                 /\ UNCHANGED <<tag, stage>>
    BY <1>3, <2>2
  <2> QED BY <1>11, <2>1, <2>2 DEF get_specific
<1>12. CASE Shutdown(t) \/ WakeSleepers(t) \/ Join(t)
  BY <1>0, <1>2, <1>12, ConstantsAssumption
  DEF Shutdown, WakeSleepers, Join, MovesTo, entityVars, TypeOK
<1>13. CASE SpuriousWakeup(t)
  BY <1>1, <1>13 DEF SpuriousWakeup, entityVars
<1>14. ASSUME NEW e \in Entities, Release(t, e)
       PROVE  TagsInv'
  <2>1. CASE set_free(t, e) \/ DiskFull(t, e)
    <3>1. SetFree(t, e) /\ e \in holds[t] /\ UNCHANGED stage
      BY <2>1 DEF set_free, DiskFull, SetFree
    <3>2. /\ tag' = [tag EXCEPT ![e] = NoKey]
          /\ where' = where \/ where' = [where EXCEPT ![e] = "freelist"]
      BY <3>1 DEF SetFree, ReleaseEntity
    <3>3. \A x \in Entities : /\ tag'[x] \in {tag[x], NoKey}
                              /\ where'[x] = "freelist" => where[x] = "freelist" \/ tag'[x] = NoKey
                              /\ where[x] = "removed" => where'[x] = "removed"
      BY <1>0, <3>1, <3>2, HeldIsBusy DEF TypeOK
    <3> QED BY <3>1, <3>3, TagsStay
  <2>2. CASE set_loaded(t, e)
    BY <1>1, <1>4, <2>2 DEF set_loaded, Lists
  <2>3. CASE set_ready(t, e)
    BY <1>1, <2>3 DEF set_ready, entityVars
  <2>4. CASE remove_from_branch(t, e)
    BY <1>4, <2>4 DEF remove_from_branch, Lists
  <2> QED BY <1>14, <2>1, <2>2, <2>3, <2>4 DEF Release
<1> QED BY <1>5, <1>6, <1>7, <1>8, <1>9, <1>10, <1>11, <1>12, <1>13, <1>14
        DEF Continue, Obtain, EndSession

\* The inductive invariant: ownership, the calls under way, and the tags of sessions.
THEOREM SessionInvariance == Spec => [](IInv /\ SInv)
<1>1. Init => SInv
  BY DEF Init, SInv, CallsInv, TagsInv, WantsOwn, NoCallIsNamed, JoinedIsQuiet, BlocksJoined, QueuersHoldNothing,
         NeverLoadedFromFree, NothingOwnedAfterBlock, Asking, Queueing
<1>2. IInv /\ SInv /\ [Next]_vars => SInv'
  <2> SUFFICES ASSUME IInv, SInv, [Next]_vars PROVE SInv'
    OBVIOUS
  <2>1. CASE Next
    BY <2>1, CallsStep, TagsStep DEF Next, SInv
  <2>2. CASE UNCHANGED vars
    BY <2>2
    DEF vars, entityVars, threadVars, SInv, CallsInv, TagsInv, WantsOwn, NoCallIsNamed,
        JoinedIsQuiet, BlocksJoined, QueuersHoldNothing, NeverLoadedFromFree, NothingOwnedAfterBlock
  <2> QED BY <2>1, <2>2
<1> QED BY <1>1, <1>2, Invariance, PTL DEF Spec

\* get_loaded's assertion holds: no file is found in an entity that set_free, or the
\* end of its session, put back.
THEOREM FreeIsUntagged == Spec => []NeverLoadedFromFree
BY SessionInvariance, PTL DEF SInv, TagsInv

\* Once block_until_free returned, nothing in the branch belongs to its session.
THEOREM SessionLeavesNothing == Spec => []NothingOwnedAfterBlock
BY SessionInvariance, PTL DEF SInv, TagsInv

-----------------------------------------------------------------------------
(* The pool: its lessees are the owners, and its queues the tickets          *)

LesseeOwns ==
  \A e \in Entities : /\ lease[e] \in Threads \cup {Nobody}
                      /\ \A t \in Threads : Owns(t, e) <=> lease[e] = t

\* The lessee of the mapping is the one owner.
LEMMA LesseeIsOwner == SoleOwner => LesseeOwns
<1> SUFFICES ASSUME SoleOwner, NEW e \in Entities
             PROVE  /\ lease[e] \in Threads \cup {Nobody}
                    /\ \A t \in Threads : Owns(t, e) <=> lease[e] = t
  BY DEF LesseeOwns
<1>1. lease[e] = IF Owners(e) = {} THEN Nobody ELSE CHOOSE t \in Owners(e) : TRUE
  BY DEF lease
<1>2. CASE Owners(e) = {}
  BY <1>1, <1>2, OwnersAreOwns, ConstantsAssumption
<1>3. CASE Owners(e) # {}
  <2>1. lease[e] \in Owners(e)
    BY <1>1, <1>3
  <2> QED BY <2>1, OwnersAreOwns DEF SoleOwner
<1> QED BY <1>2, <1>3

\* The ticket that is k after the one that is up.
Ticket(e, k) == (waiters_bottom[e] + k) % (MaxTicket + 1)

\* The counters' cycle, on its two sides of the wrap.
LEMMA Cycle ==
  ASSUME NEW n \in Nat \ {0}
  PROVE  /\ \A x \in 0..(n - 1) : x % n = x
         /\ \A x \in 0..(n - 1) : (x + n) % n = x
         /\ \A x \in (-n)..(-1) : x % n = x + n
<1>1. \A x \in 0..(n - 1) : x % n = x
  OBVIOUS
<1>2. \A x \in (-n)..(-1) : x % n = x + n
  OBVIOUS
<1>3. \A x \in 0..(n - 1) : (x + n) % n = x
  OBVIOUS
<1> QED BY <1>1, <1>2, <1>3

\* How many tickets the window holds, and which is the k-th of them.
PendingOf(b, h) == IF b <= h THEN h - b ELSE h - b + MaxTicket + 1

TicketOf(b, k) == IF b + k <= MaxTicket THEN b + k ELSE b + k - (MaxTicket + 1)

\* They are the mapping's remainders.
LEMMA CycleUnrolled ==
  ASSUME NEW b \in 0..MaxTicket, NEW h \in 0..MaxTicket
  PROVE  /\ (h - b) % (MaxTicket + 1) = PendingOf(b, h)
         /\ \A k \in 0..MaxTicket : (b + k) % (MaxTicket + 1) = TicketOf(b, k)
<1> DEFINE n == MaxTicket + 1
<1>1. MaxTicket \in Nat \ {0} /\ n \in Nat \ {0}
  BY TicketAssumption
<1>2. (h - b) % n = PendingOf(b, h)
  <2>1. CASE b <= h
    <3>1. h - b \in 0..(n - 1)
      BY <1>1, <2>1
    <3> QED BY <1>1, <2>1, <3>1, Cycle DEF PendingOf
  <2>2. CASE ~(b <= h)
    <3>1. h - b \in (-n)..(-1)
      BY <1>1, <2>2
    <3> QED BY <1>1, <2>2, <3>1, Cycle DEF PendingOf
  <2> QED BY <2>1, <2>2
<1>3. ASSUME NEW k \in 0..MaxTicket PROVE (b + k) % n = TicketOf(b, k)
  <2>1. CASE b + k <= MaxTicket
    BY <1>1, <2>1, Cycle DEF TicketOf
  <2>2. CASE ~(b + k <= MaxTicket)
    <3>1. b + k - n \in 0..(n - 1) /\ b + k = (b + k - n) + n
      BY <1>1, <2>2
    <3>2. ((b + k - n) + n) % n = b + k - n
      BY <1>1, <3>1, Cycle
    <3> QED BY <1>1, <2>2, <3>1, <3>2 DEF TicketOf
  <2> QED BY <2>1, <2>2
<1> QED BY <1>2, <1>3

\* The window holds as many tickets as are pending, each of them once.
LEMMA WindowIsPending ==
  ASSUME TypeOK, NEW e \in Entities
  PROVE  /\ Pending(e) \in 0..MaxTicket
         /\ Pending(e) = 0 <=> waiters_bottom[e] = waiters_head[e]
         /\ Pending(e) # 0 => Ticket(e, 1) = ADD_SAFELY_INT16T(waiters_bottom[e])
         /\ \A k \in 1..Pending(e) :
              /\ Ticket(e, k) \in 0..MaxTicket
              /\ InWindow(Ticket(e, k), waiters_bottom[e], waiters_head[e])
<1> DEFINE b == waiters_bottom[e]
           h == waiters_head[e]
<1>1. MaxTicket \in Nat \ {0} /\ b \in 0..MaxTicket /\ h \in 0..MaxTicket
  BY TicketAssumption DEF TypeOK
<1>2. /\ Pending(e) = PendingOf(b, h)
      /\ \A k \in 0..MaxTicket : Ticket(e, k) = TicketOf(b, k)
  BY <1>1, CycleUnrolled DEF Pending, Ticket
<1> HIDE DEF b, h
<1>3. PendingOf(b, h) \in 0..MaxTicket /\ (PendingOf(b, h) = 0 <=> b = h)
  BY <1>1 DEF PendingOf
<1>4. TicketOf(b, 1) = ADD_SAFELY_INT16T(b)
  BY <1>1 DEF TicketOf, ADD_SAFELY_INT16T
<1>5. \A k \in 1..PendingOf(b, h) : TicketOf(b, k) \in 0..MaxTicket /\ InWindow(TicketOf(b, k), b, h)
  BY <1>1 DEF PendingOf, TicketOf, InWindow
<1> QED BY <1>1, <1>2, <1>3, <1>4, <1>5 DEF b, h

\* The counters of an entity and its queue belong together.
QueueIsWaiters ==
  \A e \in Entities :
    /\ queue[e] \in Seq(Threads) /\ Len(queue[e]) = Pending(e)
    /\ \A k \in 1..Pending(e), t \in Threads :
         queue[e][k] = t <=> Waits(t, e) /\ ticket[t] = Ticket(e, k)

\* The invariant on tickets makes the queue a sequence of threads.
LEMMA QueueOfWaiters ==
  TypeOK /\ TicketsDistinct /\ EveryTicketWaits => QueueIsWaiters
<1> SUFFICES ASSUME TypeOK, TicketsDistinct, EveryTicketWaits, NEW e \in Entities
             PROVE  /\ queue[e] \in Seq(Threads) /\ Len(queue[e]) = Pending(e)
                    /\ \A k \in 1..Pending(e), t \in Threads :
                         queue[e][k] = t <=> Waits(t, e) /\ ticket[t] = Ticket(e, k)
  BY DEF QueueIsWaiters
<1>1. queue[e] = [k \in 1..Pending(e) |-> InLine(e, k)]
  BY DEF queue
<1>2. \A k \in 1..Pending(e) :
        /\ InLine(e, k) \in Threads
        /\ \A t \in Threads : InLine(e, k) = t <=> Waits(t, e) /\ ticket[t] = Ticket(e, k)
  <2> SUFFICES ASSUME NEW k \in 1..Pending(e)
               PROVE  /\ InLine(e, k) \in Threads
                      /\ \A t \in Threads : InLine(e, k) = t
                                              <=> Waits(t, e) /\ ticket[t] = Ticket(e, k)
    OBVIOUS
  <2> DEFINE due == {t \in Threads : Waits(t, e) /\ ticket[t] = Ticket(e, k)}
  <2>1. InLine(e, k) = IF due = {} THEN Nobody ELSE CHOOSE t \in due : TRUE
    BY DEF InLine, Ticket
  <2>2. \E t \in Threads : Waits(t, e) /\ ticket[t] = Ticket(e, k)
    BY WindowIsPending DEF EveryTicketWaits
  <2>3. InLine(e, k) \in due
    BY <2>1, <2>2
  <2> QED BY <2>3 DEF TicketsDistinct
<1>3. Pending(e) \in Nat
  BY WindowIsPending, TicketAssumption
<1> QED BY <1>1, <1>2, <1>3

\* A queue that nobody enters and nobody leaves.
LEMMA QueueStays ==
  ASSUME QueueIsWaiters, QueueIsWaiters', TypeOK, NEW e \in Entities,
         waiters_head'[e] = waiters_head[e], waiters_bottom'[e] = waiters_bottom[e],
         \A t \in Threads, k \in 1..Pending(e) :
           (Waits(t, e) /\ ticket[t] = Ticket(e, k))'
             <=> Waits(t, e) /\ ticket[t] = Ticket(e, k)
  PROVE  queue'[e] = queue[e]
<1>1. Pending(e)' = Pending(e) /\ \A k \in 1..Pending(e) : Ticket(e, k)' = Ticket(e, k)
  BY DEF Pending, Ticket
<1>2. /\ queue[e] \in Seq(Threads) /\ queue'[e] \in Seq(Threads)
      /\ Len(queue[e]) = Pending(e) /\ Len(queue'[e]) = Pending(e)
  BY <1>1 DEF QueueIsWaiters
<1>3. ASSUME NEW k \in 1..Pending(e) PROVE queue'[e][k] = queue[e][k]
  <2>1. queue[e][k] \in Threads
    BY <1>2
  <2> QED BY <1>1, <2>1 DEF QueueIsWaiters
<1> QED BY <1>2, <1>3, SeqEqual

-----------------------------------------------------------------------------
(* Every step is one of the pool's                                           *)

PoolInv == LesseeOwns /\ QueueIsWaiters

LEMMA PoolInvariant == IInv => PoolInv
BY LesseeIsOwner, QueueOfWaiters DEF IInv, TypeInv, Ownership, PoolInv

\* A step that leaves the counters alone and in which nobody begins to wait
\* leaves the queues as they are.
LEMMA QueuesStay ==
  ASSUME QueueIsWaiters, QueueIsWaiters', TypeOK, CountersStay,
         \A t \in Threads, e \in Entities :
           \/ /\ Waits(t, e)' <=> Waits(t, e)
              /\ Waits(t, e) => ticket'[t] = ticket[t]
           \/ /\ ~Waits(t, e)'
              /\ Waits(t, e) => ticket[t] = waiters_bottom[e]
  PROVE  UNCHANGED queue
<1> SUFFICES ASSUME NEW e \in Entities PROVE queue'[e] = queue[e]
  BY DEF queue
<1>1. \A k \in 1..Pending(e) : Ticket(e, k) # waiters_bottom[e]
  BY WindowIsPending, WindowGrows DEF TypeOK
<1>2. \A k \in 1..Pending(e) : Ticket(e, k)' = Ticket(e, k)
  BY DEF Ticket, CountersStay
<1>3. \A t \in Threads, k \in 1..Pending(e) :
        (Waits(t, e) /\ ticket[t] = Ticket(e, k))' <=> Waits(t, e) /\ ticket[t] = Ticket(e, k)
  BY <1>1, <1>2
<1> QED BY <1>3, QueueStays DEF CountersStay

\* The owners of all entities but one are the same.
LEMMA LeasesStay ==
  ASSUME LesseeOwns, LesseeOwns', NEW kept \in SUBSET Entities, OwnersStay(kept)
  PROVE  \A e \in kept : lease'[e] = lease[e]
BY ConstantsAssumption DEF LesseeOwns, OwnersStay

\* The lease of one entity moves.
LEMMA LeaseMoves ==
  ASSUME LesseeOwns, LesseeOwns', NEW e \in Entities, OwnersStay(Entities \ {e}),
         NEW lessee, lease'[e] = lessee
  PROVE  lease' = [lease EXCEPT ![e] = lessee]
<1>1. \A d \in Entities \ {e} : lease'[d] = lease[d]
  BY LeasesStay
<1>2. lease = [d \in Entities |-> lease[d]] /\ lease' = [d \in Entities |-> lease'[d]]
  BY DEF lease
<1> QED BY <1>1, <1>2

\* The waiter whose ticket comes up is the first in the queue.
LEMMA PoolHandedOver ==
  ASSUME IInv, PoolInv, PoolInv', NEW t \in Threads, NEW e \in Entities, HandedOver(t, e)
  PROVE  Pool!HandOver(e)
<1> DEFINE b == waiters_bottom[e]
           h == waiters_head[e]
           next == ADD_SAFELY_INT16T(b)
           q == queue[e]
<1>0. /\ Ownership /\ TypeOK /\ LesseeOwns /\ LesseeOwns' /\ QueueIsWaiters /\ QueueIsWaiters'
  BY DEF IInv, TypeInv, PoolInv
<1>1. /\ OwnersStay(Entities \ {e}) /\ WaitersStay /\ OwnedBy(t, e)
      /\ \A u \in Threads : Owns(u, e)' <=> Waits(u, e) /\ ticket[u] = next
  BY <1>0, OwnershipHandedOver
<1>2. /\ b # h /\ waiters_head' = waiters_head /\ waiters_bottom'[e] = next
      /\ \A x \in Entities : x # e => waiters_bottom'[x] = waiters_bottom[x]
  BY <1>0 DEF HandedOver, TypeOK
<1>3. Pending(e) \in 1..MaxTicket /\ Ticket(e, 1) = next
  BY <1>0, <1>2, WindowIsPending, TicketAssumption
<1>4. q \in Seq(Threads) /\ Len(q) = Pending(e) /\ q # <<>> /\ Head(q) = q[1] /\ Head(q) \in Threads
  BY <1>0, <1>3 DEF QueueIsWaiters
<1>5. lease[e] = t /\ lease[e] # Nobody
  BY <1>0, <1>1, ConstantsAssumption DEF LesseeOwns, OwnedBy
<1>6. lease'[e] = Head(q)
  <2>1. Waits(Head(q), e) /\ ticket[Head(q)] = next
    BY <1>0, <1>3, <1>4 DEF QueueIsWaiters
  <2> QED BY <1>0, <1>1, <1>4, <2>1 DEF LesseeOwns
<1>7. lease' = [lease EXCEPT ![e] = Head(q)]
  BY <1>0, <1>1, <1>6, LeaseMoves
<1>8. queue'[e] = Tail(q)
  <2>1. /\ Pending(e)' = Pending(e) - 1
        /\ \A k \in 1..(Pending(e) - 1) : Ticket(e, k)' = Ticket(e, k + 1)
    <3>1. /\ MaxTicket \in Nat \ {0} /\ b \in 0..MaxTicket /\ h \in 0..MaxTicket
          /\ next \in 0..MaxTicket
      BY <1>0, TicketAssumption, TicketType DEF TypeOK
    <3>2. /\ Pending(e) = PendingOf(b, h) /\ Pending(e)' = PendingOf(next, h)
          /\ \A k \in 0..MaxTicket : /\ Ticket(e, k) = TicketOf(b, k)
                                     /\ Ticket(e, k)' = TicketOf(next, k)
      BY <1>2, <3>1, CycleUnrolled DEF Pending, Ticket
    <3> HIDE DEF b, h
    <3>3. /\ PendingOf(b, h) \in 1..MaxTicket /\ PendingOf(next, h) = PendingOf(b, h) - 1
          /\ \A k \in 1..(PendingOf(b, h) - 1) : TicketOf(next, k) = TicketOf(b, k + 1)
      BY <1>2, <3>1 DEF PendingOf, TicketOf, ADD_SAFELY_INT16T
    <3> QED BY <3>1, <3>2, <3>3
  <2>2. /\ queue'[e] \in Seq(Threads) /\ Len(queue'[e]) = Pending(e) - 1
        /\ Tail(q) \in Seq(Threads) /\ Len(Tail(q)) = Pending(e) - 1
    BY <1>0, <1>3, <1>4, <2>1 DEF QueueIsWaiters
  <2>3. ASSUME NEW k \in 1..(Pending(e) - 1) PROVE queue'[e][k] = Tail(q)[k]
    <3>1. Tail(q)[k] = q[k + 1] /\ k + 1 \in 1..Pending(e) /\ q[k + 1] \in Threads
      BY <1>3, <1>4
    <3>2. PICK u \in Threads : u = q[k + 1]
      BY <3>1
    <3>3. Waits(u, e) /\ ticket[u] = Ticket(e, k + 1)
      BY <1>0, <3>1, <3>2 DEF QueueIsWaiters
    <3>4. Waits(u, e)' /\ ticket'[u] = Ticket(e, k)'
      BY <1>1, <2>1, <3>3 DEF WaitersStay
    <3>5. k \in 1..Pending(e)'
      BY <2>1
    <3> QED BY <1>0, <3>1, <3>2, <3>4, <3>5 DEF QueueIsWaiters
  <2> QED BY <2>2, <2>3, SeqEqual
<1>9. \A d \in Entities \ {e} : queue'[d] = queue[d]
  <2> SUFFICES ASSUME NEW d \in Entities \ {e} PROVE queue'[d] = queue[d]
    OBVIOUS
  <2>1. \A k \in 1..Pending(d) : Ticket(d, k)' = Ticket(d, k)
    BY <1>2 DEF Ticket
  <2>2. \A u \in Threads, k \in 1..Pending(d) :
          (Waits(u, d) /\ ticket[u] = Ticket(d, k))' <=> Waits(u, d) /\ ticket[u] = Ticket(d, k)
    BY <1>1, <2>1 DEF WaitersStay
  <2> QED BY <1>0, <1>2, <2>2, QueueStays
<1>10. queue' = [queue EXCEPT ![e] = Tail(q)]
  BY <1>8, <1>9 DEF queue
<1> QED BY <1>4, <1>5, <1>7, <1>10 DEF Pool!HandOver

\* A new ticket goes to the end of the queue.
LEMMA PoolQueued ==
  ASSUME IInv, SInv, PoolInv, PoolInv', NEW t \in Threads, TakeTicket(t),
         NEW e \in Entities, ent[t] = e
  PROVE  Pool!Queue(t, e)
<1> DEFINE mine == ADD_SAFELY_INT16T(waiters_head[e])
<1>0. /\ Ownership /\ TypeInv /\ TypeOK /\ CallsInv
      /\ LesseeOwns /\ LesseeOwns' /\ QueueIsWaiters /\ QueueIsWaiters'
  BY DEF IInv, TypeInv, PoolInv, SInv
<1>1. /\ pc[t] = "ticket" /\ UNCHANGED waiters_bottom
      /\ waiters_head' = [waiters_head EXCEPT ![e] = mine]
  BY <1>0 DEF TakeTicket
<1>2. /\ OwnersStay(Entities) /\ mine # waiters_bottom[e]
      /\ \A u \in Threads, x \in Entities :
           /\ Waits(u, x)' <=> Waits(u, x) \/ (u = t /\ x = e)
           /\ Waits(u, x) => u # t
           /\ u # t => ticket'[u] = ticket[u]
      /\ ticket'[t] = mine
  BY <1>0, OwnershipQueued
<1>3. ~Owns(t, e)
  BY <1>0, <1>1 DEF CallsInv, QueuersHoldNothing, Queueing, Owns, Waits
<1>4. lease[e] # t
  BY <1>0, <1>1, <1>3 DEF LesseeOwns
<1>5. UNCHANGED lease
  BY <1>0, <1>2, LeasesStay DEF lease
<1>6. \A d \in Entities : ~Pool!Contains(queue[d], t)
  BY <1>0, <1>2 DEF QueueIsWaiters, Pool!Contains
<1>7. PICK n \in Nat : Pending(e) = n
  BY <1>0, <1>1, WindowIsPending, TicketAssumption
<1>8. /\ Pending(e)' = n + 1
      /\ \A k \in 1..n : Ticket(e, k)' = Ticket(e, k)
      /\ Ticket(e, n + 1)' = mine
  <2> DEFINE b == waiters_bottom[e]
             h == waiters_head[e]
  <2>1. /\ MaxTicket \in Nat \ {0} /\ b \in 0..MaxTicket /\ h \in 0..MaxTicket
        /\ mine \in 0..MaxTicket /\ waiters_head'[e] = mine /\ waiters_bottom'[e] = b
    BY <1>0, <1>1, TicketAssumption, TicketType DEF TypeOK
  <2>2. /\ n = PendingOf(b, h) /\ Pending(e)' = PendingOf(b, mine)
        /\ \A k \in 0..MaxTicket : /\ Ticket(e, k) = TicketOf(b, k)
                                   /\ Ticket(e, k)' = TicketOf(b, k)
    BY <1>7, <2>1, CycleUnrolled DEF Pending, Ticket
  <2> HIDE DEF b, h
  <2>3. /\ PendingOf(b, mine) = PendingOf(b, h) + 1 /\ PendingOf(b, h) + 1 \in 1..MaxTicket
        /\ TicketOf(b, PendingOf(b, h) + 1) = mine
    BY <1>2, <2>1 DEF PendingOf, TicketOf, ADD_SAFELY_INT16T, b, h
  <2> QED BY <2>1, <2>2, <2>3
<1>9. queue'[e] = Append(queue[e], t)
  <2>1. /\ queue[e] \in Seq(Threads) /\ Len(queue[e]) = n
        /\ queue'[e] \in Seq(Threads) /\ Len(queue'[e]) = n + 1
    BY <1>0, <1>1, <1>7, <1>8 DEF QueueIsWaiters
  <2>2. /\ Append(queue[e], t) \in Seq(Threads) /\ Len(Append(queue[e], t)) = n + 1
        /\ Append(queue[e], t)[n + 1] = t
        /\ \A k \in 1..n : Append(queue[e], t)[k] = queue[e][k]
    BY <2>1
  <2>3. ASSUME NEW k \in 1..n PROVE queue'[e][k] = queue[e][k]
    <3>1. PICK u \in Threads : u = queue[e][k]
      BY <2>1
    <3>2. Waits(u, e) /\ ticket[u] = Ticket(e, k)
      BY <1>0, <1>1, <1>7, <3>1 DEF QueueIsWaiters
    <3>3. Waits(u, e)' /\ ticket'[u] = Ticket(e, k)'
      BY <1>1, <1>2, <1>8, <3>2
    <3>4. k \in 1..Pending(e)'
      BY <1>8
    <3> QED BY <1>0, <1>1, <3>1, <3>3, <3>4 DEF QueueIsWaiters
  <2>4. queue'[e][n + 1] = t
    <3>1. Waits(t, e)' /\ ticket'[t] = Ticket(e, n + 1)'
      BY <1>1, <1>2, <1>8
    <3>2. n + 1 \in 1..Pending(e)'
      BY <1>8
    <3> QED BY <1>0, <1>1, <3>1, <3>2 DEF QueueIsWaiters
  <2> QED BY <2>1, <2>2, <2>3, <2>4, SeqEqual
<1>10. \A d \in Entities \ {e} : queue'[d] = queue[d]
  <2> SUFFICES ASSUME NEW d \in Entities \ {e} PROVE queue'[d] = queue[d]
    OBVIOUS
  <2>1. waiters_head'[d] = waiters_head[d] /\ waiters_bottom'[d] = waiters_bottom[d]
    BY <1>0, <1>1 DEF TypeOK
  <2>2. \A u \in Threads, k \in 1..Pending(d) :
          (Waits(u, d) /\ ticket[u] = Ticket(d, k))' <=> Waits(u, d) /\ ticket[u] = Ticket(d, k)
    BY <1>2, <2>1 DEF Ticket
  <2> QED BY <1>0, <2>1, <2>2, QueueStays
<1>11. queue' = [queue EXCEPT ![e] = Append(queue[e], t)]
  BY <1>9, <1>10 DEF queue
<1> QED BY <1>4, <1>5, <1>6, <1>11 DEF Pool!Queue

\* The eight things a step can do are the pool's five, or a stutter.
LEMMA PoolStep ==
  ASSUME IInv, SInv, PoolInv, PoolInv', NEW t \in Threads, OneOfEight(t)
  PROVE  [Pool!Next]_<<lease, queue>>
<1>0. /\ Ownership /\ TypeInv /\ TypeOK /\ LesseeOwns /\ LesseeOwns'
      /\ QueueIsWaiters /\ QueueIsWaiters'
  BY DEF IInv, TypeInv, PoolInv
<1>1. CASE Unmoved
  <2>1. OwnersStay(Entities) /\ WaitersStay /\ CountersStay
    BY <1>0, <1>1, OwnershipStays DEF Unmoved
  <2>2. UNCHANGED queue
    BY <1>0, <2>1, QueuesStay DEF WaitersStay
  <2>3. UNCHANGED lease
    BY <1>0, <2>1, LeasesStay DEF lease
  <2> QED BY <2>2, <2>3
<1>2. CASE TakeTicket(t)
  <2>1. ent[t] \in Entities
    BY <1>0, <1>2 DEF TypeInv, NamesEntity, AboutEntity, TakeTicket
  <2> QED BY <1>2, <2>1, PoolQueued DEF Pool!Next
<1>3. ASSUME NEW e \in Entities, Taken(t, e) PROVE Pool!Lease(t, e)
  <2>1. /\ OwnersStay(Entities \ {e}) /\ WaitersStay /\ Unowned(e) /\ OwnedBy(t, e)'
        /\ CountersStay
    BY <1>0, <1>3, OwnershipTaken DEF Taken
  <2>2. UNCHANGED queue
    BY <1>0, <2>1, QueuesStay DEF WaitersStay
  <2>3. lease[e] = Nobody /\ lease'[e] = t
    BY <1>0, <2>1 DEF LesseeOwns, Unowned, OwnedBy
  <2> QED BY <1>0, <2>1, <2>2, <2>3, LeaseMoves DEF Pool!Lease
<1>4. ASSUME NEW e \in Entities, GivenUp(t, e) \/ Reclaimed(t, e) PROVE Pool!GiveUp(e)
  <2>1. /\ OwnersStay(Entities \ {e}) /\ WaitersStay /\ OwnedBy(t, e) /\ Unowned(e)'
        /\ CountersStay
    BY <1>0, <1>4, OwnershipGivenUp, OwnershipReclaimed DEF GivenUp, Reclaimed
  <2>2. UNCHANGED queue
    BY <1>0, <2>1, QueuesStay DEF WaitersStay
  <2>3. lease[e] # Nobody /\ lease'[e] = Nobody
    BY <1>0, <2>1, ConstantsAssumption DEF LesseeOwns, Unowned, OwnedBy
  <2> QED BY <1>0, <2>1, <2>2, <2>3, LeaseMoves DEF Pool!GiveUp
<1>5. ASSUME NEW e \in Entities, HandedOver(t, e) PROVE Pool!HandOver(e)
  BY <1>5, PoolHandedOver
<1>6. ASSUME NEW e \in Entities, Claimed(t, e) PROVE UNCHANGED <<lease, queue>>
  <2>1. /\ OwnersStay(Entities) /\ CountersStay
        /\ \A u \in Threads, x \in Entities :
             /\ Waits(u, x)' <=> Waits(u, x) /\ u # t
             /\ Waits(u, x) /\ u # t => ticket'[u] = ticket[u]
    BY <1>0, <1>6, OwnershipClaimed DEF Claimed
  <2>2. \A x \in Entities : Waits(t, x) => ticket[t] = waiters_bottom[x]
    BY <1>6 DEF Claimed, Waits
  <2>3. UNCHANGED queue
    BY <1>0, <2>1, <2>2, QueuesStay
  <2>4. UNCHANGED lease
    BY <1>0, <2>1, LeasesStay DEF lease
  <2> QED BY <2>3, <2>4
<1>7. ASSUME NEW e \in Entities, NEW v \in Threads \ {t}, PassedOn(t, v, e)
      PROVE  Pool!PassOn(v, e)
  <2>1. /\ OwnersStay(Entities \ {e}) /\ WaitersStay /\ OwnedBy(t, e) /\ OwnedBy(v, e)'
        /\ CountersStay
    BY <1>0, <1>7, OwnershipPassedOn DEF PassedOn
  <2>2. UNCHANGED queue
    BY <1>0, <2>1, QueuesStay DEF WaitersStay
  <2>3. lease[e] = t /\ t # Nobody /\ lease'[e] = v
    BY <1>0, <2>1, ConstantsAssumption DEF LesseeOwns, OwnedBy
  <2> QED BY <1>0, <2>1, <2>2, <2>3, LeaseMoves DEF Pool!PassOn
<1> QED BY <1>1, <1>2, <1>3, <1>4, <1>5, <1>6, <1>7 DEF OneOfEight, Pool!Next

\* All entities are free at first.
LEMMA PoolInit == Init => Pool!Init
<1> SUFFICES ASSUME Init PROVE Pool!Init
  OBVIOUS
<1>1. \A e \in Entities : Owners(e) = {}
  BY DEF Init, Owners, Waits
<1>2. \A e \in Entities : Pending(e) = 0
  <2>1. 0 % (MaxTicket + 1) = 0
    BY TicketAssumption
  <2> QED BY <2>1 DEF Init, Pending
<1>3. lease = [e \in Entities |-> Nobody]
  BY <1>1 DEF lease
<1>4. queue = [e \in Entities |-> <<>>]
  BY <1>2 DEF queue
<1> QED BY <1>3, <1>4 DEF Pool!Init

\* Every step of resourcetree.c is a step of the pool: whoever may use an entity has
\* leased it alone, and set_free and set_loaded hand it to those who wait for it in
\* the order in which they came, however often the ticket counters wrap.
THEOREM BranchIsPool == Spec => ImplementsPool
<1>1. IInv /\ SInv /\ IInv' /\ [Next]_vars => [Pool!Next]_<<lease, queue>>
  <2> SUFFICES ASSUME IInv, SInv, IInv', [Next]_vars
               PROVE  [Pool!Next]_<<lease, queue>>
    OBVIOUS
  <2>1. PoolInv /\ PoolInv'
    BY PoolInvariant, PTL
  <2>2. CASE Next
    BY <2>1, <2>2, EveryStep, PoolStep DEF Next
  <2>3. CASE UNCHANGED vars
    BY <2>3
    DEF vars, entityVars, threadVars, lease, queue, Owners, Pending, InLine, Waits
  <2> QED BY <2>2, <2>3
<1> QED BY <1>1, PoolInit, SessionInvariance, PTL DEF Spec, ImplementsPool, Pool!Spec, Pool!vars

-----------------------------------------------------------------------------
(* The wake-ups of diskbranch: its get_free is never told to quit, and no    *)
(* session waits for its end there (block_until_free is called on membranch) *)

DiskBranch ==
  /\ ~QuitIfStopped
  /\ \A t \in Threads : "block_until_free" \notin Does[t]

Woken == {t \in Threads : pc[t] = "busywoken"}

\* While a thread sleeps there are as many awake as there are entities to take.
WakeInv ==
  BusySleepers # {} =>
    IsFiniteSet(FreeFit) /\ Cardinality(FreeFit) <= Cardinality(Woken)

\* There are finitely many threads, so the awake ones can be counted.
LEMMA WokenFinite ==
  /\ IsFiniteSet(Woken) /\ Cardinality(Woken) \in Nat
  /\ IsFiniteSet(Woken') /\ Cardinality(Woken') \in Nat
<1>1. Woken \subseteq Threads /\ Woken' \subseteq Threads
  BY DEF Woken
<1> QED BY <1>1, TicketAssumption, FS_Subset, FS_CardinalityType

\* Nothing more to take, nobody more asleep, nobody less awake.
LEMMA WakesStay ==
  ASSUME WakeInv, FreeFit' \subseteq FreeFit, BusySleepers' \subseteq BusySleepers,
         Woken \subseteq Woken', IsFiniteSet(Woken')
  PROVE  WakeInv'
<1> SUFFICES ASSUME BusySleepers' # {}
             PROVE  IsFiniteSet(FreeFit') /\ Cardinality(FreeFit') <= Cardinality(Woken')
  BY DEF WakeInv
<1>1. IsFiniteSet(FreeFit) /\ Cardinality(FreeFit) <= Cardinality(Woken)
  BY DEF WakeInv
<1>2. IsFiniteSet(FreeFit') /\ Cardinality(FreeFit') <= Cardinality(FreeFit)
  BY <1>1, FS_Subset
<1>3. Cardinality(Woken) <= Cardinality(Woken')
  BY FS_Subset
<1>4. /\ Cardinality(FreeFit) \in Nat /\ Cardinality(Woken) \in Nat
      /\ Cardinality(FreeFit') \in Nat /\ Cardinality(Woken') \in Nat
  BY <1>1, <1>2, WokenFinite, FS_CardinalityType
<1> QED BY <1>1, <1>2, <1>3, <1>4

\* A thread that was woken takes an entity.
LEMMA WakeTaken ==
  ASSUME WakeInv, NEW t \in Woken, NEW e \in FreeFit, FreeFit' = FreeFit \ {e},
         BusySleepers' \subseteq BusySleepers, Woken' = Woken \ {t}
  PROVE  WakeInv'
<1> SUFFICES ASSUME BusySleepers' # {}
             PROVE  IsFiniteSet(FreeFit') /\ Cardinality(FreeFit') <= Cardinality(Woken')
  BY DEF WakeInv
<1>1. IsFiniteSet(FreeFit) /\ Cardinality(FreeFit) <= Cardinality(Woken)
  BY DEF WakeInv
<1>2. IsFiniteSet(FreeFit') /\ Cardinality(FreeFit') = Cardinality(FreeFit) - 1
  BY <1>1, FS_RemoveElement
<1>3. Cardinality(Woken') = Cardinality(Woken) - 1
  BY WokenFinite, FS_RemoveElement
<1>4. Cardinality(FreeFit) \in Nat /\ Cardinality(Woken) \in Nat
  BY <1>1, WokenFinite, FS_CardinalityType
<1> QED BY <1>1, <1>2, <1>3, <1>4

\* set_free's signal wakes one sleeper for one entity.
LEMMA WakeFreed ==
  ASSUME WakeInv, NEW e, FreeFit' \subseteq FreeFit \cup {e},
         BusySleepers' \subseteq BusySleepers,
         BusySleepers # {} => \E u \in Threads \ Woken : Woken' = Woken \cup {u}
  PROVE  WakeInv'
<1> SUFFICES ASSUME BusySleepers' # {}
             PROVE  IsFiniteSet(FreeFit') /\ Cardinality(FreeFit') <= Cardinality(Woken')
  BY DEF WakeInv
<1>1. IsFiniteSet(FreeFit) /\ Cardinality(FreeFit) <= Cardinality(Woken)
  BY DEF WakeInv
<1>2. IsFiniteSet(FreeFit \cup {e}) /\ Cardinality(FreeFit \cup {e}) <= Cardinality(FreeFit) + 1
  <2> DEFINE n == Cardinality(FreeFit)
  <2>0. n \in Nat
    BY <1>1, FS_CardinalityType
  <2>1. CASE e \in FreeFit
    <3>1. FreeFit \cup {e} = FreeFit
      BY <2>1
    <3>2. IsFiniteSet(FreeFit \cup {e}) /\ Cardinality(FreeFit \cup {e}) = n
      BY <1>1, <3>1
    <3> HIDE DEF n
    <3> QED BY <2>0, <3>2 DEF n
  <2>2. CASE e \notin FreeFit
    <3>1. IsFiniteSet(FreeFit \cup {e}) /\ Cardinality(FreeFit \cup {e}) = n + 1
      BY <1>1, <2>2, FS_AddElement
    <3> HIDE DEF n
    <3> QED BY <2>0, <3>1 DEF n
  <2> QED BY <2>1, <2>2
<1>3. IsFiniteSet(FreeFit') /\ Cardinality(FreeFit') <= Cardinality(FreeFit \cup {e})
  BY <1>2, FS_Subset
<1>4. Cardinality(Woken') = Cardinality(Woken) + 1
  BY WokenFinite, FS_AddElement
<1>5. /\ Cardinality(FreeFit) \in Nat /\ Cardinality(Woken) \in Nat
      /\ Cardinality(FreeFit') \in Nat /\ Cardinality(FreeFit \cup {e}) \in Nat
  BY <1>1, <1>2, <1>3, WokenFinite, FS_CardinalityType
<1> QED BY <1>1, <1>2, <1>3, <1>4, <1>5

\* Nothing to take, or nobody asleep.
LEMMA WakeNone ==
  ASSUME FreeFit' = {} \/ BusySleepers' = {}, IsFiniteSet(Woken'),
         Cardinality(Woken') \in Nat
  PROVE  WakeInv'
BY FS_EmptySet DEF WakeInv

\* get_free, asked first or again: only a thread that was awake has to be counted.
LEMMA WakeGetFree ==
  ASSUME TypeOK, WakeInv, NEW t \in Threads, NEW key,
         TakeFree(t, key) \/ SleepOnBusysignal(t, key) \/ NoEntityLeft(t),
         pc[t] \in {"idle", "busywoken"}
  PROVE  WakeInv'
<1>0. IsFiniteSet(Woken') /\ Cardinality(Woken') \in Nat
  BY WokenFinite
<1>1. CASE TakeFree(t, key)
  <2>1. PICK e \in FreeFit : /\ where' = [where EXCEPT ![e] = "busylist"]
                             /\ pc' = [pc EXCEPT ![t] = "acquire"]
                             /\ full' = full
    BY <1>1 DEF TakeFree
  <2>2. FreeFit' = FreeFit \ {e} /\ BusySleepers' = BusySleepers
    BY <2>1 DEF FreeFit, On, BusySleepers, TypeOK
  <2>3. CASE pc[t] = "idle"
    <3>1. Woken' = Woken
      BY <2>1, <2>3 DEF Woken, TypeOK
    <3> QED BY <1>0, <2>2, <3>1, WakesStay
  <2>4. CASE pc[t] = "busywoken"
    <3>1. t \in Woken /\ Woken' = Woken \ {t}
      BY <2>1, <2>4 DEF Woken, TypeOK
    <3> QED BY <2>2, <3>1, WakeTaken
  <2> QED BY <2>3, <2>4
<1>2. CASE SleepOnBusysignal(t, key) \/ NoEntityLeft(t)
  <2>1. FreeFit' = {}
    BY <1>2 DEF SleepOnBusysignal, NoEntityLeft, entityVars, FreeFit, On
  <2> QED BY <1>0, <2>1, WakeNone
<1> QED BY <1>1, <1>2

\* set_free, with nobody's ticket out: the entity and one sleeper.
LEMMA WakeSetFree ==
  ASSUME TypeOK, WakeInv, NEW t \in Threads, NEW e \in Entities, SetFree(t, e),
         full \subseteq full', pc[t] = "idle"
  PROVE  WakeInv'
<1>0. IsFiniteSet(Woken') /\ Cardinality(Woken') \in Nat
  BY WokenFinite
<1>1. CASE waiters_bottom[e] # waiters_head[e]
  <2>1. /\ FreeFit' \subseteq FreeFit /\ BusySleepers' = BusySleepers /\ Woken' = Woken
    BY <1>1 DEF SetFree, FreeFit, On, BusySleepers, Woken, TypeOK
  <2> QED BY <1>0, <2>1, WakesStay
<1>2. CASE waiters_bottom[e] = waiters_head[e]
  <2>1. /\ where' = [where EXCEPT ![e] = "freelist"]
        /\ pc' \in Signal(pc, BusySleepers, "busywoken")
    BY <1>2 DEF SetFree
  <2>2. FreeFit' \subseteq FreeFit \cup {e}
    BY <2>1 DEF FreeFit, On, TypeOK
  <2>3. CASE BusySleepers = {}
    <3>1. BusySleepers' = {}
      BY <2>1, <2>3 DEF Signal, BusySleepers
    <3> QED BY <1>0, <3>1, WakeNone
  <2>4. CASE BusySleepers # {}
    <3>1. PICK u \in BusySleepers : pc' = [pc EXCEPT ![u] = "busywoken"]
      BY <2>1, <2>4 DEF Signal
    <3>2. /\ BusySleepers' \subseteq BusySleepers
          /\ u \in Threads \ Woken /\ Woken' = Woken \cup {u}
      BY <3>1 DEF BusySleepers, Woken, TypeOK
    <3> QED BY <2>2, <3>2, WakeFreed
  <2> QED BY <2>3, <2>4
<1> QED BY <1>1, <1>2

LEMMA WakeStep ==
  ASSUME DiskBranch, IInv, CallsInv, WakeInv, NEW t \in Threads,
         \/ Continue(t) \/ Obtain(t) \/ EndSession(t) \/ SpuriousWakeup(t)
         \/ \E e \in Entities : Release(t, e)
  PROVE  WakeInv'
<1>0. TypeOK /\ IsFiniteSet(Woken') /\ Cardinality(Woken') \in Nat
  BY WokenFinite DEF IInv, TypeInv
<1>1. ASSUME UNCHANGED full, \A e \in Entities : where'[e] = "freelist" => where[e] = "freelist",
             \A u \in Threads : /\ pc[u] = "busywoken" => pc'[u] = "busywoken"
                                /\ pc'[u] = "busywait" => pc[u] = "busywait"
      PROVE  WakeInv'
  <2>1. FreeFit' \subseteq FreeFit /\ BusySleepers' \subseteq BusySleepers /\ Woken \subseteq Woken'
    BY <1>1 DEF FreeFit, On, BusySleepers, Woken
  <2> QED BY <1>0, <2>1, WakesStay
<1>2. CASE GetFreeWoken(t)
  BY <1>0, <1>2, WakeGetFree DEF GetFreeWoken, Quits, DiskBranch
<1>3. CASE get_free(t)
  BY <1>0, <1>3, WakeGetFree DEF get_free, Calls
<1>4. CASE Acquire(t) \/ TakeTicket(t) \/ CheckTicket(t)
  BY <1>0, <1>1, <1>4 DEF Acquire, TakeTicket, CheckTicket, entityVars, TypeOK
<1>5. CASE Grant(t)
  <2>1. \A u \in Threads : \/ pc'[u] = pc[u]
                           \/ pc[u] \in {"waiting", "grant"} /\ pc'[u] \in {"waitwoken", "idle"}
    <3>1. /\ ent[t] \in Entities /\ [pc EXCEPT ![t] = "idle"] \in [Threads -> PCs]
          /\ NextTicket(ent[t], [pc EXCEPT ![t] = "idle"]) /\ pc[t] = "grant"
      BY <1>0, <1>5 DEF Grant, IInv, TypeInv, TypeOK, NamesEntity, AboutEntity, PCs
    <3>2. \A u \in Threads : \/ pc'[u] = [pc EXCEPT ![t] = "idle"][u]
                             \/ pc[u] = "waiting" /\ pc'[u] = "waitwoken"
      BY <1>0, <3>1, NextTicketEffect
    <3> QED BY <1>0, <3>1, <3>2 DEF TypeOK
  <2> QED BY <1>0, <1>1, <1>5, <2>1 DEF Grant
<1>6. CASE Reclaim(t) \/ block_until_free(t)
  BY <1>6 DEF Reclaim, block_until_free, Calls, DiskBranch, CallsInv, BlocksJoined,
             QueuersHoldNothing, Queueing
<1>7. CASE get_loaded(t)
  BY <1>0, <1>1, <1>7 DEF get_loaded, QueueFor, Calls, TypeOK
<1>8. CASE \E e \in Entities : get_specific(t, e)
  BY <1>0, <1>1, <1>8 DEF get_specific, QueueFor, Calls, TypeOK
<1>9. CASE Shutdown(t) \/ Join(t)
  BY <1>0, <1>1, <1>9 DEF Shutdown, Join, entityVars, threadVars
<1>10. CASE WakeSleepers(t)
  <2>1. BusySleepers' = {}
    BY <1>10 DEF WakeSleepers, BroadcastBusy, BusySleepers
  <2> QED BY <1>0, <2>1, WakeNone
<1>11. CASE SpuriousWakeup(t)
  BY <1>0, <1>1, <1>11 DEF SpuriousWakeup, entityVars, TypeOK
<1>12. ASSUME NEW e \in Entities, Release(t, e) PROVE WakeInv'
  <2>1. CASE set_free(t, e) \/ DiskFull(t, e)
    <3>1. SetFree(t, e) /\ full \subseteq full' /\ pc[t] = "idle"
      BY <2>1 DEF set_free, DiskFull, Calls
    <3> QED BY <1>0, <3>1, WakeSetFree
  <2>2. CASE set_loaded(t, e)
    <3>1. \A u \in Threads : \/ pc'[u] = pc[u]
                             \/ pc[u] = "waiting" /\ pc'[u] = "waitwoken"
      BY <1>0, <2>2, NextTicketEffect DEF set_loaded, TypeOK
    <3> QED BY <1>0, <1>1, <2>2, <3>1 DEF set_loaded, TypeOK
  <2>3. CASE set_ready(t, e)
    BY <1>0, <1>1, <2>3 DEF set_ready, entityVars
  <2>4. CASE remove_from_branch(t, e)
    <3>1. BusySleepers' = {}
      BY <2>4 DEF remove_from_branch, BroadcastBusy, BusySleepers
    <3> QED BY <1>0, <3>1, WakeNone
  <2> QED BY <1>12, <2>1, <2>2, <2>3, <2>4 DEF Release
<1> QED BY <1>2, <1>3, <1>4, <1>5, <1>6, <1>7, <1>8, <1>9, <1>10, <1>11, <1>12
        DEF Continue, Obtain, EndSession

\* On diskbranch nobody sleeps in get_free beside a recording point it could have
\* while no thread is awake to take it: set_free's one signal for one entity is enough.
THEOREM NoWakeupLost == ASSUME DiskBranch PROVE Spec => []NoLostWakeup
<1>1. Init => WakeInv
  BY DEF Init, WakeInv, BusySleepers
<1>2. IInv /\ CallsInv /\ WakeInv /\ [Next]_vars => WakeInv'
  <2> SUFFICES ASSUME IInv, CallsInv, WakeInv, [Next]_vars PROVE WakeInv'
    OBVIOUS
  <2>1. CASE Next
    BY <2>1, WakeStep DEF Next
  <2>2. CASE UNCHANGED vars
    BY <2>2 DEF vars, entityVars, threadVars, WakeInv, FreeFit, On, BusySleepers, Woken
  <2> QED BY <2>1, <2>2
<1>3. WakeInv => NoLostWakeup
  <2> SUFFICES ASSUME WakeInv, BusySleepers # {}, FreeFit # {}
               PROVE  \E t \in Threads : pc[t] = "busywoken"
    BY DEF NoLostWakeup
  <2>1. IsFiniteSet(FreeFit) /\ Cardinality(FreeFit) \in Nat \ {0}
    BY FS_EmptySet, FS_CardinalityType DEF WakeInv
  <2>2. Woken # {}
    BY <2>1, FS_EmptySet DEF WakeInv
  <2> QED BY <2>2 DEF Woken
<1> QED BY <1>1, <1>2, <1>3, SessionInvariance, PTL DEF Spec, SInv

-----------------------------------------------------------------------------
(* A branch that cannot give anything any more                               *)

\* membranch: only a recording point's disk can be full.
NeverFull == \A t \in Threads : "disk_full" \notin Does[t]

\* Who sleeps in get_free has an entity to sleep for.
SleepInv == full = {} /\ (BusySleepers # {} => \E e \in Entities : where[e] # "removed")

\* remove_from_branch alone removes, and its broadcast leaves nobody asleep.
LEMMA SleepStep ==
  ASSUME NeverFull, IInv, SleepInv, NEW t \in Threads,
         \/ Continue(t) \/ Obtain(t) \/ EndSession(t) \/ SpuriousWakeup(t)
         \/ \E e \in Entities : Release(t, e)
  PROVE  SleepInv'
<1>0. TypeOK /\ NamesEntity
  BY DEF IInv, TypeInv
<1>1. ASSUME UNCHANGED full, BusySleepers' \subseteq BusySleepers,
             \A e \in Entities : where[e] # "removed" => where'[e] # "removed"
      PROVE  SleepInv'
  BY <1>1 DEF SleepInv
<1>2. ASSUME \A u \in Threads : pc'[u] = "busywait" => pc[u] = "busywait"
      PROVE  BusySleepers' \subseteq BusySleepers
  BY <1>2 DEF BusySleepers
<1>3. CASE \E key : TakeFree(t, key) \/ SleepOnBusysignal(t, key)
  <2>1. CASE \E key : SleepOnBusysignal(t, key)
    <3>1. \E e \in Entities : where[e] # "removed"
      BY <2>1 DEF SleepOnBusysignal, Dead, On
    <3> QED BY <2>1, <3>1 DEF SleepOnBusysignal, entityVars, SleepInv
  <2>2. CASE \E key : TakeFree(t, key)
    <3>1. PICK e \in FreeFit : /\ where' = [where EXCEPT ![e] = "busylist"]
                               /\ pc' = [pc EXCEPT ![t] = "acquire"]
                               /\ UNCHANGED full
      BY <2>2 DEF TakeFree
    <3>2. \A x \in Entities : where[x] # "removed" => where'[x] # "removed"
      BY <1>0, <3>1 DEF TypeOK
    <3>3. \A u \in Threads : pc'[u] = "busywait" => pc[u] = "busywait"
      BY <1>0, <3>1 DEF TypeOK
    <3> QED BY <1>1, <1>2, <3>1, <3>2, <3>3
  <2> QED BY <1>3, <2>1, <2>2
<1>4. CASE NoEntityLeft(t)
  BY <1>0, <1>1, <1>2, <1>4 DEF NoEntityLeft, entityVars, TypeOK
<1>5. CASE GetFreeWoken(t)
  <2>1. CASE pc' = [pc EXCEPT ![t] = "exited"] /\ UNCHANGED entityVars
    BY <1>0, <1>1, <1>2, <2>1 DEF entityVars, TypeOK
  <2> QED BY <1>3, <1>4, <1>5, <2>1 DEF GetFreeWoken
<1>6. CASE get_free(t)
  BY <1>3, <1>4, <1>6 DEF get_free
<1>7. CASE Acquire(t) \/ TakeTicket(t) \/ CheckTicket(t)
  BY <1>0, <1>1, <1>2, <1>7 DEF Acquire, TakeTicket, CheckTicket, entityVars, TypeOK
<1>8. CASE Grant(t)
  <2>1. /\ ent[t] \in Entities /\ [pc EXCEPT ![t] = "idle"] \in [Threads -> PCs]
        /\ NextTicket(ent[t], [pc EXCEPT ![t] = "idle"])
    BY <1>0, <1>8 DEF Grant, TypeOK, NamesEntity, AboutEntity, PCs
  <2>2. \A u \in Threads : pc'[u] = "busywait" => pc[u] = "busywait"
    BY <1>0, <2>1, NextTicketEffect DEF TypeOK
  <2> QED BY <1>1, <1>2, <1>8, <2>2 DEF Grant
<1>9. ASSUME NEW lists, NEW tags, BlockScan(t, lists, tags), UNCHANGED full,
             \A e \in Entities : where[e] # "removed" => lists[e] # "removed"
      PROVE  SleepInv'
  <2>1. \A u \in Threads : pc'[u] = "busywait" => pc[u] = "busywait"
    BY <1>0, <1>9 DEF BlockScan, TypeOK
  <2>2. \A e \in Entities : where[e] # "removed" => where'[e] # "removed"
    BY <1>0, <1>9 DEF BlockScan, TypeOK
  <2> QED BY <1>1, <1>2, <1>9, <2>1, <2>2
<1>10. CASE Reclaim(t)
  <2>1. \A e \in Entities : where[e] # "removed" => [where EXCEPT ![ent[t]] = "freelist"][e] # "removed"
    BY <1>0 DEF TypeOK
  <2> QED BY <1>9, <1>10, <2>1 DEF Reclaim
<1>11. CASE block_until_free(t)
  BY <1>9, <1>11 DEF block_until_free
<1>12. CASE get_loaded(t)
  BY <1>0, <1>1, <1>2, <1>12 DEF get_loaded, QueueFor, TypeOK
<1>13. CASE \E e \in Entities : get_specific(t, e)
  BY <1>0, <1>1, <1>2, <1>13 DEF get_specific, QueueFor, TypeOK
<1>14. CASE Shutdown(t) \/ Join(t) \/ WakeSleepers(t) \/ SpuriousWakeup(t)
  BY <1>0, <1>1, <1>2, <1>14
  DEF Shutdown, Join, WakeSleepers, BroadcastBusy, SpuriousWakeup, entityVars, threadVars, TypeOK
<1>15. ASSUME NEW e \in Entities, Release(t, e) PROVE SleepInv'
  <2>1. CASE set_free(t, e)
    <3>1. SetFree(t, e) /\ pc[t] = "idle" /\ UNCHANGED full
      BY <2>1 DEF set_free, Calls
    <3>2. \A u \in Threads : pc'[u] = "busywait" => pc[u] = "busywait"
      BY <1>0, <3>1, SetFreeEffect
    <3>3. \A x \in Entities : where[x] # "removed" => where'[x] # "removed"
      BY <1>0, <3>1 DEF SetFree, TypeOK
    <3> QED BY <1>1, <1>2, <3>1, <3>2, <3>3
  <2>2. CASE set_loaded(t, e)
    <3>1. \A u \in Threads : pc'[u] = "busywait" => pc[u] = "busywait"
      BY <1>0, <2>2, NextTicketEffect DEF set_loaded, TypeOK
    <3> QED BY <1>0, <1>1, <1>2, <2>2, <3>1 DEF set_loaded, TypeOK
  <2>3. CASE set_ready(t, e)
    BY <1>1, <2>3 DEF set_ready, entityVars, BusySleepers
  <2>4. CASE remove_from_branch(t, e)
    <3>1. BusySleepers' = {} /\ UNCHANGED full
      BY <2>4 DEF remove_from_branch, BroadcastBusy, BusySleepers
    <3> QED BY <3>1 DEF SleepInv
  <2>5. ~DiskFull(t, e)
    BY DEF DiskFull, Calls, NeverFull
  <2> QED BY <1>15, <2>1, <2>2, <2>3, <2>4, <2>5 DEF Release
<1> QED BY <1>5, <1>6, <1>7, <1>8, <1>10, <1>11, <1>12, <1>13, <1>14, <1>15
        DEF Continue, Obtain, EndSession

\* No thread is left asleep in get_free on a branch that has lost everything it
\* could give: the broadcast of remove_from_branch has woken them all, and none
\* of them goes back to sleep.
THEOREM SleepersLearn == ASSUME NeverFull PROVE Spec => []SleepersLearnOfLoss
<1>1. Init => SleepInv
  BY DEF Init, SleepInv, BusySleepers
<1>2. IInv /\ SleepInv /\ [Next]_vars => SleepInv'
  <2> SUFFICES ASSUME IInv, SleepInv, [Next]_vars PROVE SleepInv'
    OBVIOUS
  <2>1. CASE Next
    BY <2>1, SleepStep DEF Next
  <2>2. CASE UNCHANGED vars
    BY <2>2 DEF vars, entityVars, threadVars, SleepInv, BusySleepers
  <2> QED BY <2>1, <2>2
<1>3. IInv /\ SleepInv => SleepersLearnOfLoss
  <2> SUFFICES ASSUME IInv, SleepInv, BusySleepers # {}, FreeFit = {}, Dead PROVE FALSE
    BY DEF SleepersLearnOfLoss
  <2>1. PICK e \in Entities : where[e] # "removed"
    BY DEF SleepInv
  <2>2. where[e] \in {"freelist", "busylist", "loadedlist"}
    BY <2>1 DEF IInv, TypeInv, TypeOK, Lists
  <2> QED BY <2>2 DEF SleepInv, FreeFit, Dead, On
<1> QED BY <1>1, <1>2, <1>3, SessionInvariance, PTL DEF Spec

-----------------------------------------------------------------------------
(* membranch while sessions play back: get_loaded, and the end of a session  *)

\* What gives a thread an entity.
Takes == {"get_free", "get_loaded", "get_specific", "work"}

\* Who uses membranch for what while sessions play back: one thread of a session
\* sends its files and frees them again, another one fills buffers, the buffers'
\* own threads declare them loaded, and the one that ends the session takes none.
PlaysBack ==
  /\ \A t \in Threads : Does[t] \cap {"get_specific", "disk_full", "remove"} = {}
  /\ \A t \in Threads : "work" \in Does[t] => "set_free" \notin Does[t]
  /\ \A t \in Threads : "shutdown" \in Does[t] => Does[t] \cap Takes = {}
  /\ \A t, u \in Threads : SessionOf[t] = SessionOf[u] =>
       /\ "block_until_free" \in Does[t] /\ "block_until_free" \in Does[u] => t = u
       /\ "get_loaded" \in Does[t] /\ Does[u] \cap {"get_loaded", "set_free"} # {} => t = u

Over(t) == stage[SessionOf[t]] \in {"joined", "finished"}

\* The entity belongs to the thread's session.
OfSession(t, e) == tag[e] \in {SessionOf[t]} \X Seqs

\* Of one thread: what it holds is its session's once it was acquired, and its
\* session is not over; what it waits for is busy, is its session's and is the file
\* it asked for; it has the waitlock it exchanged branchlock for; and it does not
\* sleep once its ticket is up.
PlayOK(t) ==
  /\ holds[t] # {} \/ pc[t] \in Asking => Does[t] \cap Takes # {}
  /\ op[t] = "get_loaded" => ~Over(t)
  /\ Over(t) /\ "work" \notin Does[t] => holds[t] = {} \/ pc[t] = "exited"
  /\ pc[t] # "grant"
  /\ pc[t] = "acquire" => op[t] = "get_free" /\ tag[ent[t]] = NoKey
  /\ \A e \in holds[t] :
       "work" \in Does[t] \/ (pc[t] = "acquire" /\ ent[t] = e) \/ OfSession(t, e)
  /\ pc[t] \in Queueing =>
       /\ where[ent[t]] = "busylist" /\ OfSession(t, ent[t])
       /\ op[t] = "get_loaded" => tag[ent[t]] = want[t]
  /\ pc[t] = "ticket" => waitlock[ent[t]] = t
  /\ pc[t] = "waiting" => ticket[t] # waiters_bottom[ent[t]]

PlayInv == \A t \in Threads : PlayOK(t)

\* A thread that a step leaves alone, wakes up, or gives a buffer to fill.
PlayStays(u) ==
  /\ op'[u] = op[u] /\ ent'[u] = ent[u] /\ want'[u] = want[u] /\ ticket'[u] = ticket[u]
  /\ holds'[u] = holds[u] \/ "work" \in Does[u]
  /\ \/ pc'[u] = pc[u]
     \/ pc[u] = "busywait" /\ pc'[u] = "busywoken"
     \/ pc[u] = "waiting" /\ pc'[u] = "waitwoken"
  /\ pc[u] = "acquire" => tag'[ent[u]] = tag[ent[u]]
  /\ \A e \in holds[u] : tag'[e] = tag[e]
  /\ pc[u] \in Queueing => tag'[ent[u]] = tag[ent[u]] /\ where'[ent[u]] = where[ent[u]]
  /\ pc[u] = "ticket" => waitlock'[ent[u]] = waitlock[ent[u]]
  /\ pc'[u] = "waiting" => waiters_bottom'[ent[u]] = waiters_bottom[ent[u]]
  /\ Over(u)' <=> Over(u)

LEMMA PlayOKStays ==
  ASSUME NEW u \in Threads, PlayOK(u), PlayStays(u)
  PROVE  PlayOK(u)'
<1>1. holds'[u] # {} \/ pc'[u] \in Asking => Does[u] \cap Takes # {}
  BY DEF PlayOK, PlayStays, Asking, Takes
<1>2. /\ op'[u] = "get_loaded" => ~Over(u)'
      /\ Over(u)' /\ "work" \notin Does[u] => holds'[u] = {} \/ pc'[u] = "exited"
      /\ pc'[u] # "grant"
  BY DEF PlayOK, PlayStays
<1>3. /\ pc'[u] = "acquire" => op'[u] = "get_free" /\ tag'[ent'[u]] = NoKey
      /\ \A e \in holds'[u] :
           "work" \in Does[u] \/ (pc'[u] = "acquire" /\ ent'[u] = e) \/ OfSession(u, e)'
  BY DEF PlayOK, PlayStays, OfSession
<1>4. /\ pc'[u] \in Queueing =>
           /\ where'[ent'[u]] = "busylist" /\ tag'[ent'[u]] \in {SessionOf[u]} \X Seqs
           /\ op'[u] = "get_loaded" => tag'[ent'[u]] = want'[u]
      /\ pc'[u] = "ticket" => waitlock'[ent'[u]] = u
      /\ pc'[u] = "waiting" => ticket'[u] # waiters_bottom'[ent'[u]]
  BY DEF PlayOK, PlayStays, OfSession, Queueing
<1> QED BY <1>1, <1>2, <1>3, <1>4 DEF PlayOK, OfSession

\* A step of one thread.
LEMMA PlayOneThread ==
  ASSUME PlayInv, NEW t \in Threads, PlayOK(t)', \A u \in Threads : u # t => PlayStays(u)
  PROVE  PlayInv'
<1>1. \A u \in Threads : PlayOK(u)'
  BY PlayOKStays DEF PlayInv
<1> QED BY <1>1 DEF PlayInv, PlayOK, OfSession, Over, Asking, Queueing

\* An entity has one thread at most that waits for it: its session has one sender,
\* and waits for its own end only once the sender is done.
LEMMA OneQueuer ==
  ASSUME PlaysBack, CallsInv, PlayInv, NEW t \in Threads, NEW u \in Threads,
         pc[t] \in Queueing, pc[u] \in Queueing, ent[t] = ent[u]
  PROVE  t = u
<1>1. OfSession(t, ent[t]) /\ OfSession(u, ent[t])
  BY DEF PlayInv, PlayOK
<1>2. SessionOf[t] = SessionOf[u]
  BY <1>1 DEF OfSession
<1>3. /\ op[t] \in Does[t] \cap {"get_loaded", "block_until_free"}
      /\ op[u] \in Does[u] \cap {"get_loaded", "block_until_free"}
  BY DEF CallsInv, QueuersHoldNothing, WaitNames, PlaysBack
<1>4. op[t] = op[u]
  <2>1. /\ op[t] = "get_loaded" => ~Over(t)
        /\ op[u] = "get_loaded" => ~Over(u)
        /\ op[t] = "block_until_free" => Over(t)
        /\ op[u] = "block_until_free" => Over(u)
    BY DEF PlayInv, PlayOK, CallsInv, BlocksJoined, Over
  <2>2. Over(t) <=> Over(u)
    BY <1>2 DEF Over
  <2> QED BY <1>3, <2>1, <2>2
<1> QED BY <1>2, <1>3, <1>4 DEF PlaysBack

\* What a thread may free nobody waits for,
LEMMA FreedUnqueued ==
  ASSUME PlaysBack, CallsInv, PlayInv, NEW t \in Threads, NEW e \in holds[t],
         "set_free" \in Does[t], pc[t] = "idle", NEW u \in Threads,
         pc[u] \in Queueing, ent[u] = e
  PROVE  FALSE
<1>1. "work" \notin Does[t] /\ OfSession(t, e) /\ OfSession(u, e)
  BY DEF PlaysBack, PlayInv, PlayOK
<1>2. SessionOf[t] = SessionOf[u]
  BY <1>1 DEF OfSession
<1>3. op[u] \in Does[u] \cap {"get_loaded", "block_until_free"} /\ holds[u] = {}
  BY DEF CallsInv, QueuersHoldNothing, WaitNames, PlaysBack
<1>4. CASE op[u] = "get_loaded"
  <2>1. t = u
    BY <1>2, <1>3, <1>4 DEF PlaysBack
  <2> QED BY <1>3, <2>1
<1>5. CASE op[u] = "block_until_free"
  <2>1. Over(u)
    BY <1>5 DEF CallsInv, BlocksJoined, Over
  <2>2. Over(t)
    BY <1>2, <2>1 DEF Over
  <2> QED BY <1>1, <2>2 DEF PlayInv, PlayOK
<1> QED BY <1>3, <1>4, <1>5

\* and nobody has a ticket for it.
LEMMA FreedUnticketed ==
  ASSUME PlaysBack, IInv, CallsInv, PlayInv, NEW t \in Threads, NEW e \in holds[t],
         "set_free" \in Does[t], pc[t] = "idle"
  PROVE  waiters_bottom[e] = waiters_head[e]
<1> SUFFICES ASSUME waiters_bottom[e] # waiters_head[e] PROVE FALSE
  OBVIOUS
<1>1. e \in Entities /\ waiters_bottom[e] \in 0..MaxTicket /\ waiters_head[e] \in 0..MaxTicket
  BY DEF IInv, TypeInv, TypeOK
<1>2. /\ InWindow(ADD_SAFELY_INT16T(waiters_bottom[e]), waiters_bottom[e], waiters_head[e])
      /\ ADD_SAFELY_INT16T(waiters_bottom[e]) \in 0..MaxTicket
  BY <1>1, WindowMoves, TicketType
<1>3. PICK u \in Threads : Waits(u, e)
  BY <1>1, <1>2 DEF IInv, Ownership, EveryTicketWaits
<1> QED BY <1>3, FreedUnqueued DEF Waits, Queueing

\* What set_loaded moves to the loaded list nobody waits for.
LEMMA LoadedUnqueued ==
  ASSUME IInv, PlayInv, NEW t \in Threads, NEW e \in holds[t], pc[t] = "idle",
         waiters_head[e] = waiters_bottom[e], waitlock[e] = Nobody,
         NEW u \in Threads, pc[u] \in Queueing, ent[u] = e
  PROVE  FALSE
<1>1. e \in Entities /\ waiters_head[e] \in 0..MaxTicket
  BY DEF IInv, TypeInv, TypeOK
<1>2. pc[u] # "ticket"
  BY ConstantsAssumption DEF PlayInv, PlayOK
<1>3. pc[u] # "reclaim"
  BY <1>1 DEF IInv, Ownership, SoleOwner, Owns
<1>4. Waits(u, e)
  BY <1>2, <1>3 DEF Waits, Queueing
<1>5. ~InWindow(ticket[u], waiters_bottom[e], waiters_head[e])
  <2>1. ticket[u] \in 0..MaxTicket
    BY DEF IInv, TypeInv, TypeOK
  <2> QED BY <1>1, <2>1, TicketAssumption DEF InWindow
<1>6. ticket[u] = waiters_bottom[e]
  BY <1>1, <1>4, <1>5 DEF IInv, Ownership, TicketsInWindow
<1>7. u = t
  BY <1>1, <1>4, <1>6 DEF IInv, Ownership, SoleOwner, Owns
<1> QED BY <1>7 DEF Queueing

\* Nobody but the one that holds an entity holds or acquires it.
LEMMA HolderAlone ==
  ASSUME IInv, NEW t \in Threads, NEW e \in holds[t], NEW u \in Threads, u # t
  PROVE  e \notin holds[u] /\ ~(pc[u] = "acquire" /\ ent[u] = e)
<1>1. e \in Entities /\ Owns(t, e)
  BY DEF IInv, TypeInv, TypeOK, Owns
<1>2. ~Owns(u, e)
  BY <1>1 DEF IInv, Ownership, SoleOwner
<1>3. pc[u] = "acquire" => ent[u] \in holds[u]
  BY DEF IInv, Ownership, Prepared
<1> QED BY <1>2, <1>3 DEF Owns

\* get_free, asked first or again.
LEMMA PlayGetFree ==
  ASSUME IInv, TagsInv, PlayInv, NEW t \in Threads, NEW key,
         pc[t] \in {"idle", "busywoken"}, Does[t] \cap Takes # {}, ~Over(t),
         TakeFree(t, key) \/ SleepOnBusysignal(t, key) \/ NoEntityLeft(t)
  PROVE  PlayInv'
<1>0. TypeOK /\ PlayOK(t)
  BY DEF IInv, TypeInv, PlayInv
<1>1. CASE TakeFree(t, key)
  <2>1. PICK e \in FreeFit :
          /\ where' = [where EXCEPT ![e] = "busylist"]
          /\ holds' = [holds EXCEPT ![t] = @ \cup {e}]
          /\ ent' = [ent EXCEPT ![t] = e]
          /\ want' = [want EXCEPT ![t] = key]
          /\ op' = [op EXCEPT ![t] = "get_free"]
          /\ pc' = [pc EXCEPT ![t] = "acquire"]
          /\ UNCHANGED <<tag, full, waiters_head, waiters_bottom, waitlock, ticket, stage>>
    BY <1>1 DEF TakeFree
  <2>2. e \in Entities /\ where[e] = "freelist" /\ tag[e] = NoKey
    BY DEF FreeFit, On, TagsInv, NeverLoadedFromFree
  <2>3. PlayOK(t)'
    BY <1>0, <2>1, <2>2 DEF PlayOK, Over, OfSession, Queueing, TypeOK
  <2>4. \A u \in Threads : u # t => PlayStays(u)
    BY <1>0, <2>1, <2>2 DEF PlayStays, PlayInv, PlayOK, Over, TypeOK
  <2> QED BY <2>3, <2>4, PlayOneThread
<1>2. CASE SleepOnBusysignal(t, key)
  <2>1. PlayOK(t)'
    BY <1>0, <1>2 DEF SleepOnBusysignal, entityVars, PlayOK, Over, OfSession, Queueing, TypeOK
  <2>2. \A u \in Threads : u # t => PlayStays(u)
    BY <1>0, <1>2 DEF SleepOnBusysignal, entityVars, PlayStays, Over, TypeOK
  <2> QED BY <2>1, <2>2, PlayOneThread
<1>3. CASE NoEntityLeft(t)
  <2>1. PlayOK(t)'
    BY <1>0, <1>3 DEF NoEntityLeft, Leave, entityVars, PlayOK, Over, OfSession, Asking, Queueing, TypeOK
  <2>2. \A u \in Threads : u # t => PlayStays(u)
    BY <1>0, <1>3 DEF NoEntityLeft, Leave, entityVars, PlayStays, Over, TypeOK
  <2> QED BY <2>1, <2>2, PlayOneThread
<1> QED BY <1>1, <1>2, <1>3

\* set_free, which finds no waiters.
LEMMA PlaySetFree ==
  ASSUME PlaysBack, IInv, CallsInv, PlayInv, NEW t \in Threads, NEW e \in Entities, set_free(t, e)
  PROVE  PlayInv'
<1>0. TypeOK /\ PlayOK(t) /\ e \in holds[t] /\ pc[t] = "idle" /\ "set_free" \in Does[t]
  BY DEF IInv, TypeInv, PlayInv, set_free, SetFree, Calls
<1>1. waiters_bottom[e] = waiters_head[e]
  BY <1>0, FreedUnticketed
<1>2. /\ tag' = [tag EXCEPT ![e] = NoKey] /\ where' = [where EXCEPT ![e] = "freelist"]
      /\ holds' = [holds EXCEPT ![t] = @ \ {e}]
      /\ pc' \in Signal(pc, BusySleepers, "busywoken")
      /\ UNCHANGED <<ent, op, waiters_head, waiters_bottom, waitlock, want, ticket, stage>>
  BY <1>1 DEF set_free, SetFree, ReleaseEntity
<1>3. \A u \in Threads : pc'[u] = pc[u] \/ (pc[u] = "busywait" /\ pc'[u] = "busywoken")
  BY <1>0, <1>2, SignalEffect DEF TypeOK, BusySleepers, PCs
<1>4. op[t] # "get_loaded"
  BY <1>0 DEF CallsInv, NoCallIsNamed
<1>5. PlayOK(t)'
  <2>1. pc'[t] = "idle" /\ op'[t] = op[t] /\ holds'[t] = holds[t] \ {e}
    BY <1>0, <1>2, <1>3 DEF TypeOK
  <2>2. \A x \in holds'[t] : tag'[x] = tag[x]
    BY <1>0, <1>2, <2>1 DEF TypeOK
  <2> QED BY <1>0, <1>2, <1>4, <2>1, <2>2 DEF PlayOK, Over, OfSession, Asking, Queueing
<1>6. ASSUME NEW u \in Threads, u # t PROVE PlayStays(u)
  <2>1. e \notin holds[u] /\ ~(pc[u] = "acquire" /\ ent[u] = e)
    BY <1>0, <1>6, HolderAlone
  <2>2. pc[u] \in Queueing => ent[u] # e
    BY <1>0, FreedUnqueued
  <2>3. \A x \in Entities : x # e => tag'[x] = tag[x] /\ where'[x] = where[x]
    BY <1>0, <1>2 DEF TypeOK
  <2>4. /\ pc[u] \in Queueing \cup {"acquire"} => ent[u] \in Entities
        /\ holds[u] \subseteq Entities
    BY DEF IInv, TypeInv, TypeOK, NamesEntity, AboutEntity, Queueing
  <2> QED BY <1>0, <1>2, <1>3, <1>6, <2>1, <2>2, <2>3, <2>4 DEF PlayStays, Over, Queueing, TypeOK
<1> QED BY <1>5, <1>6, PlayOneThread

\* set_loaded, which hands the entity to the one that waits for it.
LEMMA PlaySetLoaded ==
  ASSUME PlaysBack, IInv, CallsInv, PlayInv, NEW t \in Threads, NEW e \in Entities, set_loaded(t, e)
  PROVE  PlayInv'
<1>0. TypeOK /\ PlayOK(t) /\ e \in holds[t] /\ pc[t] = "idle" /\ waitlock[e] = Nobody
  BY DEF IInv, TypeInv, PlayInv, set_loaded, Calls
<1>1. /\ holds' = [holds EXCEPT ![t] = @ \ {e}]
      /\ UNCHANGED <<tag, full, waiters_head, waitlock, op, ent, want, ticket, stage>>
  BY DEF set_loaded
<1>2. \A u \in Threads : pc'[u] = pc[u] \/ (pc[u] = "waiting" /\ pc'[u] = "waitwoken")
  BY <1>0, NextTicketEffect DEF set_loaded, TypeOK
<1>3. op[t] # "get_loaded"
  BY <1>0 DEF CallsInv, NoCallIsNamed
<1>4. PlayOK(t)'
  <2>1. pc'[t] = "idle" /\ op'[t] = op[t] /\ holds'[t] = holds[t] \ {e}
    BY <1>0, <1>1, <1>2 DEF TypeOK
  <2> QED BY <1>0, <1>1, <1>3, <2>1 DEF PlayOK, Over, OfSession, Asking, Queueing
<1>5. ASSUME NEW u \in Threads, u # t PROVE PlayStays(u)
  <2>0. pc[u] \in Queueing => ent[u] \in Entities
    BY DEF IInv, TypeInv, NamesEntity, AboutEntity, Queueing
  <2>1. CASE waiters_head[e] # waiters_bottom[e]
    <3>1. UNCHANGED where /\ NextTicket(e, pc)
      BY <2>1 DEF set_loaded
    <3>2. \A x \in Entities : x # e => waiters_bottom'[x] = waiters_bottom[x]
      BY <1>0, <3>1 DEF NextTicket, TypeOK
    <3>3. pc'[u] = "waiting" => pc[u] = "waiting"
      BY <1>2
    <3>4. ASSUME pc[u] = "waiting", ent[u] = e PROVE pc'[u] # "waiting"
      <4>1. WaitSleepers(e) = {u}
        BY <3>4, OneQueuer DEF WaitSleepers, Queueing
      <4>2. pc' = [pc EXCEPT ![u] = "waitwoken"]
        BY <3>1, <4>1 DEF NextTicket, Signal
      <4> QED BY <1>0, <4>2 DEF TypeOK
    <3>5. pc'[u] = "waiting" => waiters_bottom'[ent[u]] = waiters_bottom[ent[u]]
      BY <2>0, <3>2, <3>3, <3>4 DEF Queueing
    <3> QED BY <1>0, <1>1, <1>2, <1>5, <3>1, <3>5 DEF PlayStays, Over, TypeOK
  <2>2. CASE waiters_head[e] = waiters_bottom[e]
    <3>1. where' = [where EXCEPT ![e] = "loadedlist"] /\ UNCHANGED <<waiters_bottom, pc>>
      BY <2>2 DEF set_loaded
    <3>2. pc[u] \in Queueing => ent[u] # e
      BY <1>0, <2>2, LoadedUnqueued
    <3>3. pc[u] \in Queueing => where'[ent[u]] = where[ent[u]]
      BY <1>0, <2>0, <3>1, <3>2 DEF TypeOK
    <3> QED BY <1>0, <1>1, <1>5, <3>1, <3>3 DEF PlayStays, Over, TypeOK
  <2> QED BY <2>1, <2>2
<1> QED BY <1>4, <1>5, PlayOneThread

\* block_until_free's pass over the lists, once it took the entity it waited for.
LEMMA PlayBlockScan ==
  ASSUME PlaysBack, IInv, PlayInv, NEW t \in Threads, NEW lists, NEW tags,
         pc[t] \in {"idle", "reclaim"}, Over(t), holds[t] = {},
         BlockScan(t, lists, tags), UNCHANGED <<full, waiters_head, waiters_bottom, holds>>,
         \A u \in Threads : u # t =>
           /\ \A e \in holds[u] : lists[e] = "busylist" /\ tags[e] = tag[e]
           /\ pc[u] \in Queueing => lists[ent[u]] = "busylist" /\ tags[ent[u]] = tag[ent[u]]
  PROVE  PlayInv'
<1>0. TypeOK /\ PlayOK(t)
  BY DEF IInv, TypeInv, PlayInv
<1> DEFINE Owned(list) == {e \in Entities : lists[e] = list /\ tags[e] \in {SessionOf[t]} \X Seqs}
<1>1. \A u \in Threads :
        /\ pc[u] \in Queueing \cup {"acquire"} => ent[u] \in Entities
        /\ holds[u] \subseteq Entities
        /\ pc[u] = "acquire" => ent[u] \in holds[u]
        /\ pc[u] \in Queueing => where[ent[u]] = "busylist"
  BY DEF IInv, TypeInv, TypeOK, NamesEntity, AboutEntity, Queueing, Ownership, Prepared, PlayInv, PlayOK
<1>2. CASE \E e \in Owned("busylist") :
             /\ waitlock[e] = Nobody
             /\ waitlock' = [waitlock EXCEPT ![e] = t]
             /\ pc' = [pc EXCEPT ![t] = "ticket"]
             /\ op' = [op EXCEPT ![t] = "block_until_free"]
             /\ ent' = [ent EXCEPT ![t] = e]
             /\ ticket' = [ticket EXCEPT ![t] = 0]
             /\ where' = lists
             /\ tag' = tags
             /\ UNCHANGED <<want, stage>>
  <2>1. PICK e \in Owned("busylist") :
             /\ waitlock[e] = Nobody
             /\ waitlock' = [waitlock EXCEPT ![e] = t]
             /\ pc' = [pc EXCEPT ![t] = "ticket"]
             /\ op' = [op EXCEPT ![t] = "block_until_free"]
             /\ ent' = [ent EXCEPT ![t] = e]
             /\ ticket' = [ticket EXCEPT ![t] = 0]
             /\ where' = lists
             /\ tag' = tags
             /\ UNCHANGED <<want, stage>>
    BY <1>2
  <2>2. PlayOK(t)'
    BY <1>0, <2>1 DEF PlayOK, Over, OfSession, Asking, Queueing, TypeOK
  <2>3. ASSUME NEW u \in Threads, u # t PROVE PlayStays(u)
    <3>1. pc[u] = "ticket" => waitlock'[ent[u]] = waitlock[ent[u]]
      <4>1. pc[u] = "ticket" => waitlock[ent[u]] = u /\ u # Nobody /\ ent[u] \in Entities
        BY <1>1, ConstantsAssumption DEF PlayInv, PlayOK, Queueing
      <4> QED BY <1>0, <2>1, <4>1 DEF TypeOK
    <3> QED BY <1>0, <1>1, <2>1, <2>3, <3>1 DEF PlayStays, Over, TypeOK
  <2> QED BY <2>2, <2>3, PlayOneThread
<1>3. CASE /\ where' = [e \in Entities |-> IF e \in Owned("loadedlist") THEN "freelist" ELSE lists[e]]
           /\ tag' = [e \in Entities |-> IF e \in Owned("loadedlist") THEN NoKey ELSE tags[e]]
           /\ stage' = [stage EXCEPT ![SessionOf[t]] = "finished"]
           /\ pc' = [pc EXCEPT ![t] = "exited"]
           /\ Leave(t)
           /\ UNCHANGED waitlock
  <2>1. \A u \in Threads : Over(u)' <=> Over(u)
    BY <1>0, <1>3, ConstantsAssumption DEF Over, TypeOK
  <2>2. PlayOK(t)'
    BY <1>0, <1>3, <2>1 DEF Leave, PlayOK, OfSession, Asking, Queueing, TypeOK
  <2>3. ASSUME NEW u \in Threads, u # t PROVE PlayStays(u)
    <3>1. \A e \in Entities : lists[e] = "busylist" => where'[e] = lists[e] /\ tag'[e] = tags[e]
      BY <1>3
    <3>2. /\ \A e \in holds[u] : tag'[e] = tag[e]
          /\ pc[u] = "acquire" => tag'[ent[u]] = tag[ent[u]]
          /\ pc[u] \in Queueing => tag'[ent[u]] = tag[ent[u]] /\ where'[ent[u]] = where[ent[u]]
      BY <1>1, <2>3, <3>1
    <3> QED BY <1>0, <1>3, <2>1, <2>3, <3>2 DEF Leave, PlayStays, TypeOK
  <2> QED BY <2>2, <2>3, PlayOneThread
<1> QED BY <1>2, <1>3 DEF BlockScan

\* What block_until_free reclaims nobody else waits for, or holds.
LEMMA ReclaimedAlone ==
  ASSUME PlaysBack, IInv, CallsInv, PlayInv, NEW t \in Threads, pc[t] = "reclaim",
         NEW u \in Threads, u # t
  PROVE  /\ ent[t] \notin holds[u]
         /\ pc[u] \in Queueing => ent[u] # ent[t]
<1>1. ent[t] \in Entities /\ Owns(t, ent[t])
  BY DEF IInv, TypeInv, NamesEntity, AboutEntity, Owns
<1>2. ent[t] \notin holds[u]
  BY <1>1 DEF IInv, Ownership, SoleOwner, Owns
<1>3. pc[u] \in Queueing => ent[u] # ent[t]
  BY OneQueuer DEF Queueing
<1> QED BY <1>2, <1>3

\* One step per action.
LEMMA PlayStep ==
  ASSUME PlaysBack, IInv, CallsInv, TagsInv, PlayInv, NEW t \in Threads,
         \/ Continue(t) \/ Obtain(t) \/ EndSession(t) \/ SpuriousWakeup(t)
         \/ \E e \in Entities : Release(t, e)
  PROVE  PlayInv'
<1>0. TypeOK /\ NamesEntity /\ Ownership /\ PlayOK(t)
  BY DEF IInv, TypeInv, PlayInv
<1>1. CASE GetFreeWoken(t)
  <2>1. pc[t] = "busywoken" /\ ~Over(t) /\ Does[t] \cap Takes # {}
    BY <1>0, <1>1 DEF GetFreeWoken, PlayOK, CallsInv, JoinedIsQuiet, Asking, Over
  <2>2. CASE TakeFree(t, want[t]) \/ SleepOnBusysignal(t, want[t]) \/ NoEntityLeft(t)
    BY <2>1, <2>2, PlayGetFree
  <2>3. CASE pc' = [pc EXCEPT ![t] = "exited"] /\ Leave(t) /\ UNCHANGED <<entityVars, holds, stage>>
    <3>1. PlayOK(t)'
      BY <1>0, <2>1, <2>3 DEF Leave, entityVars, PlayOK, Over, OfSession, Asking, Queueing, TypeOK
    <3>2. \A u \in Threads : u # t => PlayStays(u)
      BY <1>0, <2>3 DEF Leave, entityVars, PlayStays, Over, TypeOK
    <3> QED BY <3>1, <3>2, PlayOneThread
  <2> QED BY <1>1, <2>2, <2>3 DEF GetFreeWoken
<1>2. CASE Acquire(t)
  <2>1. /\ pc[t] = "acquire" /\ tag' = [tag EXCEPT ![ent[t]] = want[t]]
        /\ pc' = [pc EXCEPT ![t] = "idle"] /\ Leave(t)
        /\ UNCHANGED <<where, full, waiters_head, waiters_bottom, waitlock, holds, stage>>
    BY <1>2 DEF Acquire
  <2>2. /\ ent[t] \in holds[t] /\ ent[t] \in Entities /\ tag[ent[t]] = NoKey
        /\ want[t] \in {SessionOf[t]} \X Seqs /\ ~Over(t)
    BY <1>0, <2>1 DEF Ownership, Prepared, NamesEntity, AboutEntity, PlayOK, CallsInv, WantsOwn,
                      JoinedIsQuiet, Asking, Over
  <2>3. PlayOK(t)'
    <3>1. \A e \in holds[t] : tag'[e] = IF e = ent[t] THEN want[t] ELSE tag[e]
      BY <1>0, <2>1 DEF TypeOK
    <3>2. pc'[t] = "idle" /\ op'[t] = "none" /\ holds'[t] = holds[t]
      BY <1>0, <2>1, CallsLeave DEF TypeOK
    <3> QED BY <1>0, <2>1, <2>2, <3>1, <3>2 DEF PlayOK, Over, OfSession, Asking, Queueing
  <2>4. ASSUME NEW u \in Threads, u # t PROVE PlayStays(u)
    <3>1. ent[t] \notin holds[u] /\ ~(pc[u] = "acquire" /\ ent[u] = ent[t])
      BY <2>2, <2>4, HolderAlone
    <3>2. pc[u] \in Queueing => ent[u] # ent[t]
      BY <2>2, ConstantsAssumption DEF PlayInv, PlayOK, OfSession, Keys
    <3>3. \A x \in Entities : x # ent[t] => tag'[x] = tag[x]
      BY <1>0, <2>1 DEF TypeOK
    <3>4. /\ pc[u] \in Queueing \cup {"acquire"} => ent[u] \in Entities
          /\ holds[u] \subseteq Entities
      BY <1>0 DEF TypeOK, NamesEntity, AboutEntity, Queueing
    <3>5. /\ pc[u] = "acquire" => tag'[ent[u]] = tag[ent[u]]
          /\ pc[u] \in Queueing => tag'[ent[u]] = tag[ent[u]]
          /\ \A x \in holds[u] : tag'[x] = tag[x]
      BY <3>1, <3>2, <3>3, <3>4
    <3> QED BY <1>0, <2>1, <2>4, <3>5 DEF PlayStays, Leave, Over, TypeOK
  <2> QED BY <2>3, <2>4, PlayOneThread
<1>3. CASE Grant(t)
  BY <1>0, <1>3 DEF Grant, PlayOK
<1>4. CASE TakeTicket(t)
  <2> DEFINE e == ent[t]
             mine == ADD_SAFELY_INT16T(waiters_head[e])
  <2>1. /\ pc[t] = "ticket"
        /\ ticket' = [ticket EXCEPT ![t] = mine]
        /\ waitlock' = [waitlock EXCEPT ![e] = Nobody]
        /\ pc' = [pc EXCEPT ![t] = IF waiters_bottom[e] = mine THEN "waitwoken" ELSE "waiting"]
        /\ UNCHANGED <<where, tag, full, waiters_bottom, holds, op, ent, want, stage>>
    BY <1>4 DEF TakeTicket
  <2> HIDE DEF mine
  <2>2. PlayOK(t)'
    BY <1>0, <2>1 DEF PlayOK, Over, OfSession, Asking, Queueing, TypeOK
  <2>3. ASSUME NEW u \in Threads, u # t PROVE PlayStays(u)
    <3>1. pc[u] = "ticket" => waitlock[ent[u]] = u /\ ent[u] \in Entities
      BY <1>0 DEF PlayInv, PlayOK, NamesEntity, AboutEntity
    <3>2. waitlock[e] = t
      BY <1>0, <2>1 DEF PlayOK
    <3>3. pc[u] = "ticket" => waitlock'[ent[u]] = waitlock[ent[u]]
      BY <1>0, <2>1, <2>3, <3>1, <3>2 DEF TypeOK
    <3> QED BY <1>0, <2>1, <2>3, <3>3 DEF PlayStays, Over, TypeOK
  <2> QED BY <2>2, <2>3, PlayOneThread
<1>5. CASE CheckTicket(t)
  <2>1. pc[t] = "waitwoken" /\ UNCHANGED <<entityVars, stage>> /\ ent[t] \in Entities
    BY <1>0, <1>5 DEF CheckTicket, NamesEntity, AboutEntity
  <2>2. op[t] \in Does[t] \cap {"get_loaded", "block_until_free"} /\ holds[t] = {}
    BY <2>1 DEF CallsInv, QueuersHoldNothing, Queueing, WaitNames, PlaysBack
  <2>3. OfSession(t, ent[t])
    BY <1>0, <2>1 DEF PlayOK, Queueing
  <2>4. \A u \in Threads : u # t => PlayStays(u)
    BY <1>0, <1>5 DEF CheckTicket, entityVars, Leave, PlayStays, Over, TypeOK
  <2>5. PlayOK(t)'
    <3>1. CASE /\ waiters_bottom[ent[t]] # ticket[t]
               /\ pc' = [pc EXCEPT ![t] = "waiting"]
               /\ UNCHANGED <<holds, op, ent, want, ticket>>
      BY <1>0, <2>1, <3>1 DEF entityVars, PlayOK, Over, OfSession, Asking, Queueing, TypeOK
    <3>2. CASE /\ op[t] = "get_loaded"
               /\ holds' = [holds EXCEPT ![t] = @ \cup {ent[t]}]
               /\ pc' = [pc EXCEPT ![t] = "idle"]
               /\ Leave(t)
      <4>1. holds'[t] = {ent[t]} /\ pc'[t] = "idle" /\ op'[t] = "none"
        BY <1>0, <2>2, <3>2, CallsLeave DEF TypeOK
      <4>2. ~Over(t) /\ "get_loaded" \in Takes /\ "get_loaded" \in Does[t]
        BY <1>0, <2>2, <3>2 DEF PlayOK, Takes
      <4> QED BY <1>0, <2>1, <2>3, <4>1, <4>2 DEF entityVars, PlayOK, Over, OfSession, Asking, Queueing
    <3>3. CASE /\ op[t] = "block_until_free"
               /\ pc' = [pc EXCEPT ![t] = "reclaim"]
               /\ UNCHANGED <<holds, op, ent, want, ticket>>
      BY <1>0, <2>1, <3>3 DEF entityVars, PlayOK, Over, OfSession, Asking, Queueing, TypeOK
    <3> QED BY <1>5, <2>2, <3>1, <3>2, <3>3 DEF CheckTicket, PlaysBack
  <2> QED BY <2>4, <2>5, PlayOneThread
<1>6. CASE Reclaim(t)
  <2> DEFINE lists == [where EXCEPT ![ent[t]] = "freelist"]
             tags == [tag EXCEPT ![ent[t]] = NoKey]
  <2>1. pc[t] = "reclaim" /\ Over(t) /\ holds[t] = {}
    BY <1>6 DEF Reclaim, CallsInv, BlocksJoined, QueuersHoldNothing, Queueing, Over
  <2>2. ASSUME NEW u \in Threads, u # t
        PROVE  /\ \A e \in holds[u] : lists[e] = "busylist" /\ tags[e] = tag[e]
               /\ pc[u] \in Queueing => lists[ent[u]] = "busylist" /\ tags[ent[u]] = tag[ent[u]]
    <3>1. /\ ent[t] \notin holds[u]
          /\ pc[u] \in Queueing => ent[u] # ent[t]
      BY <2>1, <2>2, ReclaimedAlone
    <3>2. /\ \A e \in holds[u] : e \in Entities /\ where[e] = "busylist"
          /\ pc[u] \in Queueing => ent[u] \in Entities /\ where[ent[u]] = "busylist"
      BY <1>0, HeldIsBusy DEF PlayInv, PlayOK, TypeOK, NamesEntity, AboutEntity, Queueing
    <3> QED BY <1>0, <3>1, <3>2 DEF TypeOK
  <2>3. BlockScan(t, lists, tags) /\ UNCHANGED <<full, waiters_head, waiters_bottom, holds>>
    BY <1>6 DEF Reclaim
  <2> HIDE DEF lists, tags
  <2> QED BY <2>1, <2>2, <2>3, PlayBlockScan
<1>7. CASE block_until_free(t)
  <2>1. pc[t] = "idle" /\ Over(t) /\ holds[t] = {} /\ BlockScan(t, where, tag)
        /\ UNCHANGED <<full, waiters_head, waiters_bottom, holds>>
    BY <1>7 DEF block_until_free, Calls, Over
  <2>2. \A u \in Threads :
          /\ \A e \in holds[u] : where[e] = "busylist"
          /\ pc[u] \in Queueing => where[ent[u]] = "busylist"
    BY <1>0, HeldIsBusy DEF PlayInv, PlayOK, TypeOK
  <2> QED BY <2>1, <2>2, PlayBlockScan
<1>8. CASE get_free(t)
  <2>1. pc[t] = "idle" /\ ~Over(t) /\ Does[t] \cap Takes # {}
    BY <1>8 DEF get_free, Calls, StillStarts, Over, Takes
  <2>2. \E key : TakeFree(t, key) \/ SleepOnBusysignal(t, key) \/ NoEntityLeft(t)
    BY <1>8 DEF get_free
  <2> QED BY <2>1, <2>2, PlayGetFree
<1>9. CASE get_loaded(t)
  <2>1. pc[t] = "idle" /\ ~Over(t) /\ holds[t] = {} /\ "get_loaded" \in Does[t] \cap Takes
    BY <1>9 DEF get_loaded, Calls, StillStarts, Over, Takes
  <2>2. PICK q \in Seqs :
          LET key == <<SessionOf[t], q>> IN
           \/ \E e \in Found("busylist", key) : QueueFor(t, e, "get_loaded", key)
           \/ /\ \E e \in Found("loadedlist", key) :
                  /\ where' = [where EXCEPT ![e] = "busylist"]
                  /\ holds' = [holds EXCEPT ![t] = @ \cup {e}]
              /\ UNCHANGED <<tag, full, waiters_head, waiters_bottom, waitlock,
                             pc, op, ent, want, ticket, stage>>
    BY <1>9 DEF get_loaded
  <2> DEFINE key == <<SessionOf[t], q>>
  <2>3. CASE \E e \in Found("busylist", key) : QueueFor(t, e, "get_loaded", key)
    <3>1. PICK e \in Entities :
            /\ where[e] = "busylist" /\ tag[e] = key /\ waitlock[e] = Nobody
            /\ waitlock' = [waitlock EXCEPT ![e] = t]
            /\ pc' = [pc EXCEPT ![t] = "ticket"]
            /\ op' = [op EXCEPT ![t] = "get_loaded"]
            /\ ent' = [ent EXCEPT ![t] = e]
            /\ want' = [want EXCEPT ![t] = key]
            /\ UNCHANGED <<where, tag, full, waiters_head, waiters_bottom, holds, ticket, stage>>
      BY <2>3 DEF Found, On, QueueFor
    <3>2. PlayOK(t)'
      BY <1>0, <2>1, <3>1 DEF PlayOK, Over, OfSession, Asking, Queueing, TypeOK
    <3>3. ASSUME NEW u \in Threads, u # t PROVE PlayStays(u)
      <4>1. pc[u] = "ticket" => waitlock[ent[u]] = u /\ u # Nobody /\ ent[u] \in Entities
        BY <1>0, ConstantsAssumption DEF PlayInv, PlayOK, NamesEntity, AboutEntity
      <4>2. pc[u] = "ticket" => waitlock'[ent[u]] = waitlock[ent[u]]
        BY <1>0, <3>1, <4>1 DEF TypeOK
      <4> QED BY <1>0, <3>1, <3>3, <4>2 DEF PlayStays, Over, TypeOK
    <3> QED BY <3>2, <3>3, PlayOneThread
  <2>4. CASE /\ \E e \in Found("loadedlist", key) :
                  /\ where' = [where EXCEPT ![e] = "busylist"]
                  /\ holds' = [holds EXCEPT ![t] = @ \cup {e}]
             /\ UNCHANGED <<tag, full, waiters_head, waiters_bottom, waitlock,
                            pc, op, ent, want, ticket, stage>>
    <3>1. PICK e \in Entities :
            /\ where[e] = "loadedlist" /\ tag[e] = key
            /\ where' = [where EXCEPT ![e] = "busylist"]
            /\ holds' = [holds EXCEPT ![t] = @ \cup {e}]
            /\ UNCHANGED <<tag, full, waiters_head, waiters_bottom, waitlock,
                           pc, op, ent, want, ticket, stage>>
      BY <2>4 DEF Found, On
    <3>2. holds'[t] = {e}
      BY <1>0, <2>1, <3>1 DEF TypeOK
    <3>3. PlayOK(t)'
      BY <1>0, <2>1, <3>1, <3>2 DEF PlayOK, Over, OfSession, Asking, Queueing
    <3>4. ASSUME NEW u \in Threads, u # t PROVE PlayStays(u)
      <4>1. pc[u] \in Queueing => ent[u] \in Entities /\ where[ent[u]] = "busylist"
        BY <1>0 DEF PlayInv, PlayOK, NamesEntity, AboutEntity, Queueing
      <4>2. pc[u] \in Queueing => where'[ent[u]] = where[ent[u]]
        BY <1>0, <3>1, <4>1 DEF TypeOK
      <4> QED BY <1>0, <3>1, <3>4, <4>2 DEF PlayStays, Over, TypeOK
    <3> QED BY <3>3, <3>4, PlayOneThread
  <2> QED BY <2>2, <2>3, <2>4
<1>10. CASE \E e \in Entities : get_specific(t, e)
  BY <1>10 DEF get_specific, Calls, PlaysBack
<1>11. CASE Shutdown(t) \/ WakeSleepers(t)
  <2>1. \A u \in Threads : Over(u)' <=> Over(u)
    BY <1>0, <1>11, ConstantsAssumption DEF Shutdown, WakeSleepers, MovesTo, Over, TypeOK
  <2>2. \A u \in Threads : PlayStays(u)
    BY <1>0, <1>11, <2>1
    DEF Shutdown, WakeSleepers, BroadcastBusy, entityVars, threadVars, PlayStays, TypeOK
  <2>3. PlayOK(t)'
    BY <1>0, <2>2, PlayOKStays
  <2> QED BY <2>2, <2>3, PlayOneThread
<1>12. CASE Join(t)
  <2>1. /\ UNCHANGED <<entityVars, threadVars>> /\ pc[t] = "idle" /\ "shutdown" \in Does[t]
        /\ \A u \in Threads \ {t} :
             SessionOf[u] = SessionOf[t] => pc[u] = "exited" \/ (pc[u] = "idle" /\ holds[u] = {})
        /\ \A u \in Threads : SessionOf[u] # SessionOf[t] => (Over(u)' <=> Over(u))
    BY <1>0, <1>12, ConstantsAssumption DEF Join, MovesTo, Calls, Over, TypeOK
  <2>2. holds[t] = {}
    BY <1>0, <2>1 DEF PlaysBack, PlayOK
  <2>3. \A u \in Threads : SessionOf[u] = SessionOf[t] =>
          /\ pc[u] = "exited" \/ (pc[u] = "idle" /\ holds[u] = {})
          /\ op[u] = "none"
    BY <2>1, <2>2 DEF CallsInv, NoCallIsNamed
  <2>4. ASSUME NEW u \in Threads PROVE PlayOK(u)'
    <3>1. CASE SessionOf[u] = SessionOf[t]
      BY <2>1, <2>3, <3>1 DEF PlayInv, PlayOK, OfSession, Asking, Queueing, entityVars, threadVars
    <3>2. CASE SessionOf[u] # SessionOf[t]
      <4>1. PlayStays(u) /\ PlayOK(u)
        BY <2>1, <3>2 DEF PlayInv, PlayStays, entityVars, threadVars
      <4> QED BY <4>1, PlayOKStays
    <3> QED BY <3>1, <3>2
  <2> QED BY <2>4 DEF PlayInv, PlayOK, OfSession, Over, Asking, Queueing
<1>13. CASE SpuriousWakeup(t)
  <2>1. \A u \in Threads : PlayStays(u)
    BY <1>0, <1>13 DEF SpuriousWakeup, entityVars, PlayStays, Over, TypeOK
  <2>2. PlayOK(t)'
    BY <1>0, <2>1, PlayOKStays
  <2> QED BY <2>1, <2>2, PlayOneThread
<1>14. ASSUME NEW e \in Entities, Release(t, e) PROVE PlayInv'
  <2>1. CASE set_free(t, e)
    BY <2>1, PlaySetFree
  <2>2. CASE set_loaded(t, e)
    BY <2>2, PlaySetLoaded
  <2>3. CASE set_ready(t, e)
    <3>1. PICK v \in Threads \ {t} :
            /\ "work" \in Does[v]
            /\ holds' = [holds EXCEPT ![t] = @ \ {e}, ![v] = @ \cup {e}]
      BY <2>3 DEF set_ready
    <3>2. /\ pc[t] = "idle" /\ UNCHANGED <<entityVars, pc, op, ent, want, ticket, stage>>
      BY <2>3 DEF set_ready, Calls
    <3>3. holds'[t] = holds[t] \ {e} /\ \A u \in Threads \ {t, v} : holds'[u] = holds[u]
      BY <1>0, <3>1 DEF TypeOK
    <3>4. PlayOK(t)'
      BY <1>0, <3>2, <3>3 DEF entityVars, PlayOK, Over, OfSession, Asking, Queueing
    <3>5. \A u \in Threads : u # t => PlayStays(u)
      BY <3>1, <3>2, <3>3 DEF entityVars, PlayStays, Over
    <3> QED BY <3>4, <3>5, PlayOneThread
  <2>4. ~DiskFull(t, e) /\ ~remove_from_branch(t, e)
    BY DEF DiskFull, remove_from_branch, Calls, PlaysBack
  <2> QED BY <1>14, <2>1, <2>2, <2>3, <2>4 DEF Release
<1> QED BY <1>1, <1>2, <1>3, <1>4, <1>5, <1>6, <1>7, <1>8, <1>9, <1>10, <1>11, <1>12, <1>13, <1>14
        DEF Continue, Obtain, EndSession

\* The invariant of playback holds wherever membranch is used as PlaysBack says.
THEOREM PlaybackInvariance == ASSUME PlaysBack PROVE Spec => [](IInv /\ SInv /\ PlayInv)
<1>1. Init => PlayInv
  BY ConstantsAssumption DEF Init, PlayInv, PlayOK, Over, Asking, Queueing
<1>2. IInv /\ SInv /\ PlayInv /\ [Next]_vars => PlayInv'
  <2> SUFFICES ASSUME IInv, SInv, PlayInv, [Next]_vars PROVE PlayInv'
    OBVIOUS
  <2>1. CASE Next
    BY <2>1, PlayStep DEF Next, SInv
  <2>2. CASE UNCHANGED vars
    BY <2>2 DEF vars, entityVars, threadVars, PlayInv, PlayOK, Over, OfSession, Asking, Queueing
  <2> QED BY <2>1, <2>2
<1> QED BY <1>1, <1>2, SessionInvariance, PTL DEF Spec

\* The one thread that set_loaded's signal wakes is the one whose ticket came up:
\* get_loaded and block_until_free never sleep beside an entity that is theirs.
THEOREM TicketsWake == ASSUME PlaysBack PROVE Spec => []GrantedIsAwake
<1>1. PlayInv => GrantedIsAwake
  BY DEF PlayInv, PlayOK, GrantedIsAwake
<1> QED BY <1>1, PlaybackInvariance, PTL

\* Who waits in get_loaded or block_until_free waits for an entity that somebody
\* still has, and will pass on: it was not freed between the lists and the ticket.
THEOREM WaitersAreServed == ASSUME PlaysBack PROVE Spec => []WaitersHaveOwner
<1>1. IInv /\ PlayInv => WaitersHaveOwner
  <2> SUFFICES ASSUME IInv, PlayInv, NEW t \in Threads, NEW e \in Entities, Waits(t, e)
               PROVE  Owners(e) # {}
    BY DEF WaitersHaveOwner
  <2>1. where[e] = "busylist"
    BY DEF Waits, PlayInv, PlayOK, Queueing
  <2>2. PICK u \in Threads : Owns(u, e)
    BY <2>1 DEF IInv, Ownership, BusyOwned
  <2> QED BY <2>2 DEF Owns, Owners
<1> QED BY <1>1, PlaybackInvariance, PTL

\* What get_loaded returns after its wait still holds the file that was asked for:
\* nobody has freed the entity and taken it for another file in between.
THEOREM LoadedIsDelivered == ASSUME PlaysBack PROVE Spec => GetLoadedDelivers
<1>1. PlayInv => [\A t \in Threads :
                    pc[t] = "waitwoken" /\ op[t] = "get_loaded" /\ pc'[t] = "idle"
                      => tag[ent[t]] = want[t]]_vars
  BY DEF PlayInv, PlayOK, Queueing
<1> QED BY <1>1, PlaybackInvariance, PTL DEF GetLoadedDelivers

=============================================================================
