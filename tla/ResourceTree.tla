---------------------------- MODULE ResourceTree ----------------------------
(***************************************************************************)
(* The resource branch of src/src/resourcetree.c: a pool of entities       *)
(* (memory buffers in membranch, recording points in diskbranch), each on  *)
(* one of three lists, shared by the threads of all sessions.              *)
(*                                                                         *)
(* Two kinds of lock and two kinds of condition variable are involved.     *)
(* The lists are guarded by branchlock: what is done under it is one step  *)
(* here.  A thread that finds no free entity sleeps on busysignal.  A      *)
(* thread that wants one particular busy entity takes a ticket from its    *)
(* counter waiters_head and sleeps on its waitsig until waiters_bottom     *)
(* reaches the ticket; the counters are guarded by the entity's waitlock,  *)
(* except that set_free compares them under branchlock alone.              *)
(*                                                                         *)
(* The lists keep their members here and not their order.                  *)
(***************************************************************************)
EXTENDS Integers, FiniteSets

CONSTANTS
  Threads,        \* the threads that use the branch
  Entities,       \* the listed_entity structs added at start-up
  Sessions,       \* the recordings or playbacks (struct opt_s)
  Seqs,           \* file numbers
  SessionOf,      \* the session a thread works for
  Does,           \* the operations each thread's code calls
  MaxTicket,      \* INT16_MAX: the last ticket before the counters wrap
  QuitIfStopped,  \* the quit_if_stopped argument get_free is called with
  MaxHeld,        \* how many entities one thread asks for before it passes one on
  Nobody, NoKey   \* no thread or entity; no (session, file number)

Keys == Sessions \X Seqs

OpNames == {"get_free", "get_loaded", "get_specific", "set_free", "set_loaded",
            "set_ready", "work", "block_until_free", "remove", "disk_full",
            "shutdown", "broadcast"}

ASSUME ConstantsAssumption ==
  /\ SessionOf \in [Threads -> Sessions]
  /\ Does \in [Threads -> SUBSET OpNames]
  /\ QuitIfStopped \in BOOLEAN
  /\ MaxHeld \in Nat \ {0}
  /\ Nobody \notin Threads
  /\ Nobody \notin Entities
  /\ NoKey \notin Keys

WaitNames == {"get_loaded", "get_specific", "block_until_free"}

\* Threads that are handed entities of a branch (simplebuffer.c's, of membranch) do
\* not call what waits for a particular one of them.
ASSUME WorkersAssumption ==
  \A t \in Threads : "work" \in Does[t] => Does[t] \cap WaitNames = {}

\* A ticket counter can number every thread at once: at most INT16_MAX threads.
ASSUME TicketAssumption ==
  /\ MaxTicket \in Nat \ {0}
  /\ IsFiniteSet(Threads)
  /\ Cardinality(Threads) <= MaxTicket

VARIABLES
  where,           \* the list each entity is on
  tag,             \* the session and file an entity was last acquired for
  full,            \* recording points whose disk is full (RECSTATUS_FULL)
  waiters_head,    \* the last ticket given out
  waiters_bottom,  \* the ticket that owns the entity
  waitlock,        \* the thread inside an entity's waitlock between two steps
  holds,           \* the entities whose pointer a thread owns
  pc, op, ent, want, ticket,  \* where a thread is in which call, and its locals
  stage            \* the life of a session

entityVars == <<where, tag, full, waiters_head, waiters_bottom, waitlock>>
threadVars == <<holds, pc, op, ent, want, ticket>>
vars == <<entityVars, threadVars, stage>>

Lists == {"freelist", "busylist", "loadedlist", "removed"}
Stages == {"running", "stopped", "broadcast", "joined", "finished"}
\* busywait and waiting are asleep; busywoken and waitwoken have to look again.
PCs == {"idle", "busywait", "busywoken", "acquire", "grant", "ticket",
        "waiting", "waitwoken", "reclaim", "exited"}

TypeOK ==
  /\ where \in [Entities -> Lists]
  /\ tag \in [Entities -> Keys \cup {NoKey}]
  /\ full \in SUBSET Entities
  /\ waiters_head \in [Entities -> 0..MaxTicket]
  /\ waiters_bottom \in [Entities -> 0..MaxTicket]
  /\ waitlock \in [Entities -> Threads \cup {Nobody}]
  /\ holds \in [Threads -> SUBSET Entities]
  /\ pc \in [Threads -> PCs]
  /\ op \in [Threads -> OpNames \cup {"none"}]
  /\ ent \in [Threads -> Entities \cup {Nobody}]
  /\ want \in [Threads -> Keys \cup {NoKey}]
  /\ ticket \in [Threads -> 0..MaxTicket]
  /\ stage \in [Sessions -> Stages]

Init ==
  /\ where = [e \in Entities |-> "freelist"]
  /\ tag = [e \in Entities |-> NoKey]
  /\ full = {}
  /\ waiters_head = [e \in Entities |-> 0]
  /\ waiters_bottom = [e \in Entities |-> 0]
  /\ waitlock = [e \in Entities |-> Nobody]
  /\ holds = [t \in Threads |-> {}]
  /\ pc = [t \in Threads |-> "idle"]
  /\ op = [t \in Threads |-> "none"]
  /\ ent = [t \in Threads |-> Nobody]
  /\ want = [t \in Threads |-> NoKey]
  /\ ticket = [t \in Threads |-> 0]
  /\ stage = [s \in Sessions |-> "running"]

-----------------------------------------------------------------------------
(* The lists, the counters and the condition variables                       *)

On(list) == {e \in Entities : where[e] = list}

\* check_if_suitable for a recording session; buffers have no check function.
FreeFit == On("freelist") \ full

\* check for the branch being empty once nothing suitable is free
Dead == On("busylist") \cup On("loadedlist") = {}

AddWithoutWrap(x) == x + 1

ADD_SAFELY_INT16T(x) == IF x = MaxTicket THEN 0 ELSE x + 1

BusySleepers == {t \in Threads : pc[t] = "busywait"}
WaitSleepers(e) == {t \in Threads : pc[t] = "waiting" /\ ent[t] = e}

SignalNobody(control, sleepers, awake) == {control}

\* pthread_cond_signal: one sleeper, whichever the scheduler picks, wakes up.
Signal(control, sleepers, awake) ==
  IF sleepers = {} THEN {control}
  ELSE {[control EXCEPT ![u] = awake] : u \in sleepers}

BroadcastForgotten == UNCHANGED pc

\* pthread_cond_broadcast on busysignal.
BroadcastBusy ==
  pc' = [t \in Threads |-> IF pc[t] = "busywait" THEN "busywoken" ELSE pc[t]]

\* A thread whose code is between two calls makes the named one.
Calls(t, name) == pc[t] = "idle" /\ name \in Does[t]

\* The calls that take entities end with the session's own threads.
StillStarts(t) == stage[SessionOf[t]] \in {"running", "stopped", "broadcast"}

\* A call ends and its locals with it.
Leave(t) ==
  /\ op' = [op EXCEPT ![t] = "none"]
  /\ ent' = [ent EXCEPT ![t] = Nobody]
  /\ want' = [want EXCEPT ![t] = NoKey]
  /\ ticket' = [ticket EXCEPT ![t] = 0]

-----------------------------------------------------------------------------
(* get_free                                                                  *)

\* The first suitable entity moves to the busy list; acquire runs unlocked.
TakeFree(t, key) ==
  \E e \in FreeFit :
    /\ where' = [where EXCEPT ![e] = "busylist"]
    /\ holds' = [holds EXCEPT ![t] = @ \cup {e}]
    /\ ent' = [ent EXCEPT ![t] = e]
    /\ want' = [want EXCEPT ![t] = key]
    /\ op' = [op EXCEPT ![t] = "get_free"]
    /\ pc' = [pc EXCEPT ![t] = "acquire"]
    /\ UNCHANGED <<tag, full, waiters_head, waiters_bottom, waitlock, ticket, stage>>

SleepOnBusysignal(t, key) ==
  /\ FreeFit = {} /\ ~Dead
  /\ want' = [want EXCEPT ![t] = key]
  /\ op' = [op EXCEPT ![t] = "get_free"]
  /\ pc' = [pc EXCEPT ![t] = "busywait"]
  /\ UNCHANGED <<entityVars, holds, ent, ticket, stage>>

\* NULL: every caller of get_free ends its thread on it.
NoEntityLeft(t) ==
  /\ FreeFit = {} /\ Dead
  /\ pc' = [pc EXCEPT ![t] = "exited"]
  /\ Leave(t)
  /\ UNCHANGED <<entityVars, holds, stage>>

get_free(t) ==
  /\ Calls(t, "get_free") /\ StillStarts(t)
  /\ Cardinality(holds[t]) < MaxHeld
  /\ \/ \E q \in Seqs : TakeFree(t, <<SessionOf[t], q>>)
     \/ \E q \in Seqs : SleepOnBusysignal(t, <<SessionOf[t], q>>)
     \/ NoEntityLeft(t)

\* ret_zero_if_stillshouldrun, looked at only after a wake-up.
Quits(t) == QuitIfStopped /\ stage[SessionOf[t]] # "running"

GetFreeWoken(t) ==
  /\ pc[t] = "busywoken"
  /\ \/ /\ Quits(t)
        /\ pc' = [pc EXCEPT ![t] = "exited"]
        /\ Leave(t)
        /\ UNCHANGED <<entityVars, holds, stage>>
     \/ /\ ~Quits(t)
        /\ \/ TakeFree(t, want[t])
           \/ SleepOnBusysignal(t, want[t])
           \/ NoEntityLeft(t)

\* The entity's acquire function records the session and file it is for.
Acquire(t) ==
  /\ pc[t] = "acquire"
  /\ tag' = [tag EXCEPT ![ent[t]] = want[t]]
  /\ pc' = [pc EXCEPT ![t] = "idle"]
  /\ Leave(t)
  /\ UNCHANGED <<where, full, waiters_head, waiters_bottom, waitlock, holds, stage>>

-----------------------------------------------------------------------------
(* set_free and set_loaded                                                   *)

ReleaseForgotten(e) == UNCHANGED tag

\* sbuf_release: the entity belongs to no session any more.
ReleaseEntity(e) == tag' = [tag EXCEPT ![e] = NoKey]

SetFreeWhileHandingOver(t, e) ==
  /\ e \in holds[t]
  /\ ReleaseEntity(e)
  /\ where' = [where EXCEPT ![e] = "freelist"]
  /\ \/ /\ waiters_bottom[e] # waiters_head[e]
        /\ ent' = [ent EXCEPT ![t] = e]
        /\ op' = [op EXCEPT ![t] = "set_free"]
        /\ pc' = [pc EXCEPT ![t] = "grant"]
        /\ UNCHANGED holds
     \/ /\ waiters_bottom[e] = waiters_head[e]
        /\ holds' = [holds EXCEPT ![t] = @ \ {e}]
        /\ pc' \in Signal(pc, BusySleepers, "busywoken")
        /\ UNCHANGED <<ent, op>>
  /\ UNCHANGED <<waiters_head, waiters_bottom, waitlock, want, ticket, stage>>

\* Under branchlock the entity is released, and either its waiters are seen
\* (waiters_head is read without waitlock) or it moves to the free list.
SetFree(t, e) ==
  /\ e \in holds[t]
  /\ ReleaseEntity(e)
  /\ \/ /\ waiters_bottom[e] # waiters_head[e]
        /\ ent' = [ent EXCEPT ![t] = e]
        /\ op' = [op EXCEPT ![t] = "set_free"]
        /\ pc' = [pc EXCEPT ![t] = "grant"]
        /\ UNCHANGED <<where, holds>>
     \/ /\ waiters_bottom[e] = waiters_head[e]
        /\ where' = [where EXCEPT ![e] = "freelist"]
        /\ holds' = [holds EXCEPT ![t] = @ \ {e}]
        /\ pc' \in Signal(pc, BusySleepers, "busywoken")
        /\ UNCHANGED <<ent, op>>
  /\ UNCHANGED <<waiters_head, waiters_bottom, waitlock, want, ticket, stage>>

set_free(t, e) ==
  /\ Calls(t, "set_free")
  /\ SetFree(t, e)
  /\ UNCHANGED full

\* handle_error on ENOSPC: the recording point becomes read-only and is freed.
DiskFull(t, e) ==
  /\ Calls(t, "disk_full")
  /\ SetFree(t, e)
  /\ full' = full \cup {e}

NextTicketUnsignalled(e, control) ==
  /\ waiters_bottom' = [waiters_bottom EXCEPT ![e] = ADD_SAFELY_INT16T(@)]
  /\ pc' = control

\* waiters_bottom moves on and one of the entity's waiters is signalled.
NextTicket(e, control) ==
  /\ waiters_bottom' = [waiters_bottom EXCEPT ![e] = ADD_SAFELY_INT16T(@)]
  /\ pc' \in Signal(control, WaitSleepers(e), "waitwoken")

\* The second half of set_free when it saw waiters: the entity stays busy.
Grant(t) ==
  LET e == ent[t] IN
  /\ pc[t] = "grant"
  /\ waitlock[e] = Nobody
  /\ NextTicket(e, [pc EXCEPT ![t] = "idle"])
  /\ holds' = [holds EXCEPT ![t] = @ \ {e}]
  /\ Leave(t)
  /\ UNCHANGED <<where, tag, full, waiters_head, waitlock, stage>>

SetLoadedIgnoringWaiters(t, e) ==
  /\ Calls(t, "set_loaded")
  /\ e \in holds[t]
  /\ waitlock[e] = Nobody
  /\ holds' = [holds EXCEPT ![t] = @ \ {e}]
  /\ where' = [where EXCEPT ![e] = "loadedlist"]
  /\ UNCHANGED <<tag, full, waiters_head, waiters_bottom, waitlock,
                 pc, op, ent, want, ticket, stage>>

\* branchlock is kept until waitlock is held, so the counters are compared safely.
set_loaded(t, e) ==
  /\ Calls(t, "set_loaded")
  /\ e \in holds[t]
  /\ waitlock[e] = Nobody
  /\ holds' = [holds EXCEPT ![t] = @ \ {e}]
  /\ \/ /\ waiters_head[e] # waiters_bottom[e]
        /\ NextTicket(e, pc)
        /\ UNCHANGED where
     \/ /\ waiters_head[e] = waiters_bottom[e]
        /\ where' = [where EXCEPT ![e] = "loadedlist"]
        /\ UNCHANGED <<waiters_bottom, pc>>
  /\ UNCHANGED <<tag, full, waiters_head, waitlock, op, ent, want, ticket, stage>>

\* set_ready_and_signal: a filled buffer, or one to fill, goes to its own thread.
set_ready(t, e) ==
  /\ Calls(t, "set_ready")
  /\ e \in holds[t]
  /\ \E u \in Threads \ {t} :
       /\ "work" \in Does[u]
       /\ holds' = [holds EXCEPT ![t] = @ \ {e}, ![u] = @ \cup {e}]
  /\ UNCHANGED <<entityVars, pc, op, ent, want, ticket, stage>>

-----------------------------------------------------------------------------
(* get_loaded, get_specific: an entity named by the caller                   *)

\* branchlock is exchanged for the busy entity's waitlock.
QueueFor(t, e, name, key) ==
  /\ waitlock[e] = Nobody
  /\ waitlock' = [waitlock EXCEPT ![e] = t]
  /\ pc' = [pc EXCEPT ![t] = "ticket"]
  /\ op' = [op EXCEPT ![t] = name]
  /\ ent' = [ent EXCEPT ![t] = e]
  /\ want' = [want EXCEPT ![t] = key]
  /\ UNCHANGED <<where, tag, full, waiters_head, waiters_bottom, holds, ticket, stage>>

FoundOfSession(list, key) == {e \in On(list) : tag[e] # NoKey /\ tag[e][1] = key[1]}

\* get_from_all BY_SEQ: entities on a list tagged with this session and file.
Found(list, key) == {e \in On(list) : tag[e] = key}

\* A file found nowhere returns NULL and changes nothing.
get_loaded(t) ==
  /\ Calls(t, "get_loaded") /\ StillStarts(t) /\ holds[t] = {}
  /\ \E q \in Seqs :
       LET key == <<SessionOf[t], q>> IN
       /\ Found("freelist", key) = {}
       /\ \/ \E e \in Found("busylist", key) : QueueFor(t, e, "get_loaded", key)
          \/ /\ Found("busylist", key) = {}
             /\ \E e \in Found("loadedlist", key) :
                  /\ where' = [where EXCEPT ![e] = "busylist"]
                  /\ holds' = [holds EXCEPT ![t] = @ \cup {e}]
             /\ UNCHANGED <<tag, full, waiters_head, waiters_bottom, waitlock,
                            pc, op, ent, want, ticket, stage>>

\* A recording point is named by its own id, whichever list it is on.
get_specific(t, e) ==
  /\ Calls(t, "get_specific") /\ StillStarts(t) /\ holds[t] = {}
  /\ \E q \in Seqs :
       LET key == <<SessionOf[t], q>> IN
       \/ /\ where[e] = "freelist"
          /\ where' = [where EXCEPT ![e] = "busylist"]
          /\ holds' = [holds EXCEPT ![t] = @ \cup {e}]
          /\ pc' = [pc EXCEPT ![t] = "acquire"]
          /\ op' = [op EXCEPT ![t] = "get_specific"]
          /\ ent' = [ent EXCEPT ![t] = e]
          /\ want' = [want EXCEPT ![t] = key]
          /\ UNCHANGED <<tag, full, waiters_head, waiters_bottom, waitlock, ticket, stage>>
       \/ /\ where[e] \in {"busylist", "loadedlist"}
          /\ QueueFor(t, e, "get_specific", key)

TakeTicketBeforeCounting(t) ==
  LET e == ent[t] IN
  /\ pc[t] = "ticket"
  /\ waiters_head' = [waiters_head EXCEPT ![e] = ADD_SAFELY_INT16T(@)]
  /\ ticket' = [ticket EXCEPT ![t] = waiters_head[e]]
  /\ waitlock' = [waitlock EXCEPT ![e] = Nobody]
  /\ pc' = [pc EXCEPT ![t] =
               IF waiters_bottom[e] = waiters_head[e] THEN "waitwoken" ELSE "waiting"]
  /\ UNCHANGED <<where, tag, full, waiters_bottom, holds, op, ent, want, stage>>

\* Under waitlock alone: the next ticket is ours, and we sleep until it is up.
TakeTicket(t) ==
  LET e == ent[t]
      mine == ADD_SAFELY_INT16T(waiters_head[e])
  IN
  /\ pc[t] = "ticket"
  /\ waiters_head' = [waiters_head EXCEPT ![e] = mine]
  /\ ticket' = [ticket EXCEPT ![t] = mine]
  /\ waitlock' = [waitlock EXCEPT ![e] = Nobody]
  /\ pc' = [pc EXCEPT ![t] = IF waiters_bottom[e] = mine THEN "waitwoken" ELSE "waiting"]
  /\ UNCHANGED <<where, tag, full, waiters_bottom, holds, op, ent, want, stage>>

CheckTicketOnce(t) ==
  /\ pc[t] = "waitwoken"
  /\ waitlock[ent[t]] = Nobody
  /\ holds' = [holds EXCEPT ![t] = @ \cup {ent[t]}]
  /\ \/ /\ op[t] = "get_loaded"
        /\ pc' = [pc EXCEPT ![t] = "idle"]
        /\ Leave(t)
     \/ /\ op[t] = "get_specific"
        /\ pc' = [pc EXCEPT ![t] = "acquire"]
        /\ UNCHANGED <<op, ent, want, ticket>>
  /\ UNCHANGED <<entityVars, stage>>

\* A woken waiter rereads waiters_bottom under waitlock.
CheckTicket(t) ==
  LET e == ent[t] IN
  /\ pc[t] = "waitwoken"
  /\ waitlock[e] = Nobody
  /\ \/ /\ waiters_bottom[e] # ticket[t]
        /\ pc' = [pc EXCEPT ![t] = "waiting"]
        /\ UNCHANGED <<holds, op, ent, want, ticket>>
     \/ /\ waiters_bottom[e] = ticket[t]
        /\ op[t] = "get_loaded"
        /\ holds' = [holds EXCEPT ![t] = @ \cup {e}]
        /\ pc' = [pc EXCEPT ![t] = "idle"]
        /\ Leave(t)
     \/ /\ waiters_bottom[e] = ticket[t]
        /\ op[t] = "get_specific"
        /\ holds' = [holds EXCEPT ![t] = @ \cup {e}]
        /\ pc' = [pc EXCEPT ![t] = "acquire"]
        /\ UNCHANGED <<op, ent, want, ticket>>
     \/ /\ waiters_bottom[e] = ticket[t]
        /\ op[t] = "block_until_free"
        /\ pc' = [pc EXCEPT ![t] = "reclaim"]
        /\ UNCHANGED <<holds, op, ent, want, ticket>>
  /\ UNCHANGED <<entityVars, stage>>

\* POSIX lets a condition wait return with no signal.
SpuriousWakeup(t) ==
  /\ pc[t] \in {"busywait", "waiting"}
  /\ pc' = [pc EXCEPT ![t] = IF @ = "busywait" THEN "busywoken" ELSE "waitwoken"]
  /\ UNCHANGED <<entityVars, holds, op, ent, want, ticket, stage>>

-----------------------------------------------------------------------------
(* block_until_free: the end of a session, in vlbistreamer                   *)

\* One pass of block_until_free's loops under branchlock, over the lists as
\* they are (where, tag), or as they are once an entity was handed over: wait
\* for a busy entity of the session, or else free all its loaded ones.
BlockScan(t, lists, tags) ==
  LET s == SessionOf[t]
      Owned(list) == {e \in Entities : lists[e] = list /\ tags[e] \in {s} \X Seqs}
  IN
  \/ \E e \in Owned("busylist") :
       /\ waitlock[e] = Nobody
       /\ waitlock' = [waitlock EXCEPT ![e] = t]
       /\ pc' = [pc EXCEPT ![t] = "ticket"]
       /\ op' = [op EXCEPT ![t] = "block_until_free"]
       /\ ent' = [ent EXCEPT ![t] = e]
       /\ ticket' = [ticket EXCEPT ![t] = 0]
       /\ where' = lists
       /\ tag' = tags
       /\ UNCHANGED <<want, stage>>
  \/ /\ Owned("busylist") = {}
     /\ where' = [e \in Entities |->
                    IF e \in Owned("loadedlist") THEN "freelist" ELSE lists[e]]
     /\ tag' = [e \in Entities |->
                    IF e \in Owned("loadedlist") THEN NoKey ELSE tags[e]]
     /\ stage' = [stage EXCEPT ![s] = "finished"]
     /\ pc' = [pc EXCEPT ![t] = "exited"]
     /\ Leave(t)
     /\ UNCHANGED waitlock

block_until_free(t) ==
  /\ Calls(t, "block_until_free") /\ stage[SessionOf[t]] = "joined" /\ holds[t] = {}
  /\ BlockScan(t, where, tag)
  /\ UNCHANGED <<full, waiters_head, waiters_bottom, holds>>

\* The awaited entity moves to the free list; busysignal is not signalled.
Reclaim(t) ==
  LET e == ent[t] IN
  /\ pc[t] = "reclaim"
  /\ BlockScan(t, [where EXCEPT ![e] = "freelist"], [tag EXCEPT ![e] = NoKey])
  /\ UNCHANGED <<full, waiters_head, waiters_bottom, holds>>

-----------------------------------------------------------------------------
(* Removal of a broken recording point, and the end of a session             *)

remove_from_branch(t, e) ==
  /\ Calls(t, "remove")
  /\ e \in holds[t]
  /\ where' = [where EXCEPT ![e] = "removed"]
  /\ holds' = [holds EXCEPT ![t] = @ \ {e}]
  /\ BroadcastBusy
  /\ UNCHANGED <<tag, full, waiters_head, waiters_bottom, waitlock,
                 op, ent, want, ticket, stage>>

MovesTo(t, from, to) ==
  /\ stage[SessionOf[t]] = from
  /\ stage' = [stage EXCEPT ![SessionOf[t]] = to]

\* shutdown_thread: the session is no longer STATUS_RUNNING.
Shutdown(t) ==
  /\ Calls(t, "shutdown")
  /\ MovesTo(t, "running", "stopped")
  /\ UNCHANGED <<entityVars, threadVars>>

\* A timed recording wakes every sleeper of membranch, under branchlock.
WakeSleepers(t) ==
  /\ Calls(t, "broadcast")
  /\ MovesTo(t, "stopped", "broadcast")
  /\ BroadcastBusy
  /\ UNCHANGED <<entityVars, holds, op, ent, want, ticket>>

JoinWithoutWaiting(t) ==
  /\ Calls(t, "shutdown")
  /\ MovesTo(t, IF "broadcast" \in Does[t] THEN "broadcast" ELSE "stopped", "joined")
  /\ UNCHANGED <<entityVars, threadVars>>

\* pthread_join: the session's streamer thread passed on what it had, and ended.
Join(t) ==
  /\ Calls(t, "shutdown")
  /\ MovesTo(t, IF "broadcast" \in Does[t] THEN "broadcast" ELSE "stopped", "joined")
  /\ \A u \in Threads \ {t} :
       SessionOf[u] = SessionOf[t] => pc[u] = "exited" \/ (pc[u] = "idle" /\ holds[u] = {})
  /\ UNCHANGED <<entityVars, threadVars>>

-----------------------------------------------------------------------------
\* The steps a call takes by itself once it was made and is not asleep.
Continue(t) ==
  \/ GetFreeWoken(t) \/ Acquire(t) \/ Grant(t) \/ TakeTicket(t)
  \/ CheckTicket(t) \/ Reclaim(t)

\* The holder of an entity is done with it, in one of the ways its code has.
Release(t, e) ==
  \/ set_free(t, e) \/ set_loaded(t, e) \/ set_ready(t, e)
  \/ DiskFull(t, e) \/ remove_from_branch(t, e)

Obtain(t) ==
  get_free(t) \/ get_loaded(t) \/ (\E e \in Entities : get_specific(t, e))

EndSession(t) == Shutdown(t) \/ WakeSleepers(t) \/ Join(t) \/ block_until_free(t)

Next ==
  \E t \in Threads :
    \/ Continue(t) \/ Obtain(t) \/ EndSession(t) \/ SpuriousWakeup(t)
    \/ \E e \in Entities : Release(t, e)

Spec == Init /\ [][Next]_vars

\* A thread inside a call keeps running, a holder finishes its file, and a
\* session that was stopped is taken down; nobody has to start anything.
Fairness ==
  \A t \in Threads :
    /\ WF_vars(Continue(t))
    /\ \A e \in Entities : SF_vars(Release(t, e))
    /\ WF_vars(WakeSleepers(t)) /\ WF_vars(Join(t)) /\ WF_vars(block_until_free(t))

FairSpec == Spec /\ Fairness

-----------------------------------------------------------------------------
(* Properties                                                                *)

\* A waiter inside the wait loop of get_loaded, get_specific, block_until_free.
Waits(t, e) == ent[t] = e /\ pc[t] \in {"waiting", "waitwoken"}

\* The threads that may use an entity: the one that holds its pointer, the one
\* whose ticket is up, and block_until_free between its two locks.
Owners(e) ==
  {t \in Threads : \/ e \in holds[t]
                   \/ Waits(t, e) /\ ticket[t] = waiters_bottom[e]
                   \/ ent[t] = e /\ pc[t] = "reclaim"}

\* Two threads never use one buffer or recording point at the same time,
\* whatever hand-overs, wake-ups and list moves of resourcetree.c interleave.
OneOwner == \A e \in Entities : \A t, u \in Owners(e) : t = u

\* An entity is on the busy list exactly while somebody owns it: nothing leaks
\* from the free list, and nothing in use can be handed out by get_free.
BusyIffOwned == \A e \in Entities : where[e] = "busylist" <=> Owners(e) # {}

\* get_loaded asserts gotfrom != GOT_FROM_FREE: no file can be found in an
\* entity that set_free, or the end of its session, put back.
NeverLoadedFromFree == \A e \in Entities : where[e] = "freelist" => tag[e] = NoKey

\* Once block_until_free returned, nothing in the branch belongs to its session.
NothingOwnedAfterBlock ==
  \A s \in Sessions : stage[s] = "finished" =>
     \A e \in Entities : where[e] # "removed" => tag[e] \notin {s} \X Seqs

\* "Added here so the get_free caller can sleep" (busysignal): a thread sleeps
\* in get_free beside a free entity only while somebody is already awake to
\* take it or a stopped session is about to broadcast.
NoLostWakeup ==
  BusySleepers # {} /\ FreeFit # {} =>
    \/ \E t \in Threads : pc[t] = "busywoken"
    \/ \E s \in Sessions : stage[s] = "stopped"

\* A waiter whose ticket is up is awake: the signal reached the right thread.
GrantedIsAwake ==
  \A t \in Threads : pc[t] = "waiting" => ticket[t] # waiters_bottom[ent[t]]

\* A thread that waits for an entity waits for some owner to pass it on.
WaitersHaveOwner ==
  \A t \in Threads, e \in Entities : Waits(t, e) => Owners(e) # {}

\* "Get a loaded buffer according to seq": what get_loaded hands to the sender
\* still holds the file that was asked for.
GetLoadedDelivers ==
  [][\A t \in Threads :
       pc[t] = "waitwoken" /\ op[t] = "get_loaded" /\ pc'[t] = "idle"
         => tag[ent[t]] = want[t]]_vars

\* Every wait for a particular entity ends.
WaitEnds ==
  \A t \in Threads : (pc[t] \in {"ticket", "waiting", "waitwoken"})
                       ~> (pc[t] \notin {"ticket", "waiting", "waitwoken"})

\* "Signal so waiting threads can exit if the situation is bad" (lost writers):
\* nobody sleeps in get_free on a branch that cannot give anything any more.
SleepersLearnOfLoss ==
  BusySleepers # {} /\ FreeFit = {} /\ Dead => \E t \in Threads : pc[t] = "busywoken"

=============================================================================
