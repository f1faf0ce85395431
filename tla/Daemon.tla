------------------------------- MODULE Daemon -------------------------------
(***************************************************************************)
(* The daemon: its schedule, its sessions and the index of the recordings  *)
(* that are in use (src/src/server.c, streamer.c, active_file_index.c).    *)
(*                                                                         *)
(* STATEFILE holds the requests.  The main thread reads it whenever        *)
(* inotify reports a change, keeps one scheduled_event per request in a    *)
(* branch of its own, starts those whose time has come as a thread per     *)
(* session, and closes those that have ended or whose request is gone.     *)
(* The clients (vbs_queue, vbs_clearschedule, vbs_shutdown, vbs_schedulerm)*)
(* know the daemon by that file and by SCHEDLOCKFILE only.                 *)
(*                                                                         *)
(* A process that dies takes everything with it but the file and what was  *)
(* recorded.  config_write_file is one step.                               *)
(***************************************************************************)
EXTENDS Naturals, FiniteSets, Functions, Sequences

CONSTANTS
  Requests,  \* the idstrings that clients may use
  Request,   \* what each asks for: its name, kind and start
  Broken,    \* those that may be written in a way set_from_root refuses
  MaxQueued, \* bound: how many of them are queued
  MaxLives,  \* bound: how often the daemon is started
  MaxEdits   \* bound: how often the file is emptied or edited, a shutdown requested, or
             \* the buffer threads lost

Kinds == {"timed", "counted", "send"}
Names == {Request[r].name : r \in Requests}

ASSUME DaemonAssumption ==
  /\ IsFiniteSet(Requests)
  /\ Request \in [Requests -> [name : STRING, kind : Kinds, start : {"now", "later"}]]
  /\ Broken \subseteq Requests
  /\ "shutdown" \notin Requests
  /\ MaxQueued \in Nat /\ MaxLives \in Nat /\ MaxEdits \in Nat

NULL == "NULL"
Recording(r) == Request[r].kind # "send"

VARIABLES
  file,       \* STATEFILE: the requests in their order
  lock,       \* how the daemon holds SCHEDLOCKFILE; a client holds it in one step
  notify,     \* inotify has something to read
  clock,      \* where now is to the times of a request
  stored,     \* the recordings with a configuration on a disk
  \* the main thread
  pc, running, victim, back, then, cfg, i, copy,
  freelist, busylist, ev, memtree,
  \* active_file_index.c
  index,
  \* the clients: what they have done, and what vbs_schedulerm has read
  queued, edits, editor, withdrawn, lives

client == <<queued, edits, editor, withdrawn>>
branch == <<freelist, busylist>>
local == <<victim, back, then, cfg, i, copy>>
vars == <<file, lock, notify, clock, stored, pc, running, local, branch, ev, memtree, index,
          client, lives>>

-----------------------------------------------------------------------------
(* Events and the branch they are kept in                                    *)

\* zero_schedevnt, and the options every event starts from; thread is where the
\* session's thread is, ent what streamer_ent points to.
NewEvent ==
  [status |-> "NOT_STARTED", found |-> TRUE, thread |-> "none", ent |-> NULL,
   streamer |-> FALSE, open |-> FALSE, fi |-> FALSE]
NoEvent == [NewEvent EXCEPT !.found = FALSE]

NoIndex == [n \in Names |-> [associations |-> 0, recording |-> FALSE]]

\* zero_sched: an empty branch.
zero_sched ==
  /\ freelist' = <<>> /\ busylist' = <<>> /\ ev' = [r \in Requests |-> NoEvent]

\* A list without r; no list has an element twice.
Without(s, r) ==
  IF r \in Range(s)
  THEN LET k == CHOOSE j \in DOMAIN s : s[j] = r
       IN  SubSeq(s, 1, k - 1) \o SubSeq(s, k + 1, Len(s))
  ELSE s

\* A search through a list for one of a set ends at the first.
IsFirst(r, s, S) ==
  \E k \in DOMAIN s : s[k] = r /\ r \in S /\ \A j \in 1..(k - 1) : s[j] \notin S

Scheduled == Range(freelist) \cup Range(busylist)

\* The events that no entry was found for; sched_identify looks for the first one in the
\* free branch and then in the busy one.
NotFound == {r \in Scheduled : ~ev[r].found}

\* remove_from_branch, up to the call of free_and_close.
Unlink(r) ==
  /\ freelist' = Without(freelist, r)
  /\ busylist' = Without(busylist, r)

\* free_and_close begins for r; the main thread goes on at place afterwards.
Close(r, place) == victim' = r /\ back' = place /\ pc' = "stop"

-----------------------------------------------------------------------------
(* The index of the recordings in use                                        *)

\* afi_init
afi_init == index' = NoIndex

\* afi_get and afi_add find a recording that is in the index.
afi_get(n) == index[n].associations > 0

\* Mutant: afi_add does not look at the status of the index it finds.
NeverRefuses(n, recording) == FALSE

\* afi_add refuses a second recorder of a name.
afi_add_refuses(n, recording) == recording /\ index[n].recording
afi_add(n, recording) ==
  index' = [index EXCEPT ![n].associations = @ + 1, ![n].recording = @ \/ recording]

\* afi_disassociate: the last one closes the index, a recorder takes its mark along.
afi_disassociate(n, recording) ==
  index' = [index EXCEPT ![n].associations = @ - 1,
                         ![n].recording = @ /\ ~recording /\ index[n].associations > 1]

-----------------------------------------------------------------------------
(* The process                                                               *)

\* Whatever ends the process: the kernel drops its lock and its watch.
Died ==
  /\ pc' = "down" /\ lock' = "none" /\ notify' = FALSE /\ running' = FALSE
  /\ zero_sched /\ afi_init /\ memtree' = "none"
  /\ victim' = NULL /\ back' = NULL /\ then' = NULL /\ cfg' = <<>> /\ i' = 0 /\ copy' = <<>>

Crash == Died /\ UNCHANGED <<file, clock, stored, client, lives>>

Kill == pc # "down" /\ Crash

\* What may become of the branches, the recording points and the buffer threads: a writer
\* that cannot be set up is only logged.
init_branches == {"created", "failed"}
init_recp == {"created"}
init_rbufs == {"created", "failed"}

\* main up to its loop: any error ends the program, and the watch is there before the
\* first check of the schedule.
Boot ==
  /\ pc = "down" /\ lives < MaxLives /\ lives' = lives + 1
  /\ zero_sched /\ afi_init
  /\ \E outcome \in init_branches \X init_recp \X init_rbufs :
       IF outcome = <<"created", "created", "created">>
       THEN memtree' = "alive" /\ pc' = "lock" /\ running' = TRUE /\ then' = "start"
       ELSE UNCHANGED <<memtree, pc, running, then>>
  /\ UNCHANGED <<file, lock, notify, clock, stored, victim, back, cfg, i, copy, client>>

-----------------------------------------------------------------------------
(* The schedule                                                              *)

\* check_schedule takes the lock and reads the file.
Lock ==
  /\ pc = "lock"
  /\ lock' = "EX" /\ cfg' = file /\ i' = 1 /\ pc' = "look"
  /\ UNCHANGED <<file, notify, clock, stored, running, victim, back, then, copy, branch, ev, memtree,
                 index, client, lives>>

\* add_recording for a request: an event at the end of the free branch, or one that is
\* closed again at once because its settings are wrong.
add_recording(r) ==
  /\ ev' = [ev EXCEPT ![r] = NewEvent]
  /\ \/ r \in Broken /\ Close(r, "look") /\ UNCHANGED branch
     \/ freelist' = Append(freelist, r) /\ UNCHANGED <<busylist, victim, back, pc>>

\* One round of the loop over the entries of the file.
Look ==
  /\ pc = "look" /\ i <= Len(cfg) /\ cfg[i] # "shutdown"
  /\ i' = i + 1
  /\ IF cfg[i] \in Scheduled
     THEN ev' = [ev EXCEPT ![cfg[i]].found = TRUE] /\ UNCHANGED <<branch, victim, back, pc>>
     ELSE add_recording(cfg[i])
  /\ UNCHANGED <<file, lock, notify, clock, stored, running, then, cfg, copy, memtree, index, client,
                 lives>>

\* add_recording for the entry "shutdown" reads the file again, and writes it without that
\* entry, unless it is gone.
Shutdown ==
  /\ pc = "look" /\ i <= Len(cfg) /\ cfg[i] = "shutdown"
  /\ IF "shutdown" \in Range(file) THEN copy' = file /\ pc' = "shutdown" /\ UNCHANGED i
                                  ELSE i' = i + 1 /\ UNCHANGED <<pc, copy>>
  /\ UNCHANGED <<file, lock, notify, clock, stored, running, victim, back, then, cfg, branch, ev,
                 memtree, index, client, lives>>

ShutdownTaken ==
  /\ pc = "shutdown"
  /\ file' = Without(copy, "shutdown") /\ notify' = TRUE /\ copy' = <<>>
  /\ running' = FALSE /\ pc' = "look" /\ i' = i + 1
  /\ UNCHANGED <<lock, clock, stored, victim, back, then, cfg, branch, ev, memtree, index,
                 client, lives>>

\* All entries have been looked at.
LookedThrough == pc = "look" /\ i > Len(cfg)

\* An event whose entry is gone is removed, and cancelled if it runs.
RemoveMissing ==
  /\ LookedThrough
  /\ \E r \in NotFound :
       /\ IsFirst(r, freelist \o busylist, NotFound)
       /\ ev' = [ev EXCEPT ![r].status = IF @ = "RUNNING" THEN "CANCELLED" ELSE @]
       /\ Unlink(r) /\ Close(r, "look")
  /\ UNCHANGED <<file, lock, notify, clock, stored, running, then, cfg, i, copy, memtree, index,
                 client, lives>>

\* Mutant: zerofound is forgotten, and an event found once is taken for found ever after.
FoundKept == ev

\* zerofound: every event is to be found again by the next check.
zerofound == [r \in Requests |-> [ev[r] EXCEPT !.found = FALSE]]

\* The end of check_schedule.
Unlock ==
  /\ LookedThrough /\ NotFound = {}
  /\ ev' = zerofound
  /\ lock' = "none" /\ pc' = then /\ then' = NULL /\ cfg' = <<>> /\ i' = 0
  /\ UNCHANGED <<file, notify, clock, stored, running, victim, back, copy, branch, memtree, index, client,
                 lives>>

-----------------------------------------------------------------------------
(* The loop of main                                                          *)

\* The start has come, or is due at once.
Due(r) == Request[r].start = "now" \/ clock[r] # "early"

\* A recording whose whole time has passed before it began; a send is never too old.
TooOld(r) == Request[r].start = "later" /\ Recording(r) /\ clock[r] = "late"

\* init_cfg gives r a file index: a recording unless another records that name, a send
\* if the name was recorded or is being recorded.
init_cfg(r) ==
  IF Recording(r) THEN ~afi_add_refuses(Request[r].name, TRUE)
                  ELSE Request[r].name \in stored \/ afi_get(Request[r].name)

\* start_event: the options are set up and the session gets its thread.
start_event(r) ==
  /\ afi_add(Request[r].name, Recording(r))
  /\ ev' = [ev EXCEPT ![r].status = "RUNNING", ![r].thread = "prep", ![r].fi = TRUE]
  /\ freelist' = Without(freelist, r) /\ busylist' = Append(busylist, r)

\* start_event gets no thread, or no memory for its queue of writes, after init_cfg: the
\* event is closed as a session that is over, with its file index.
start_event_fails(r) ==
  /\ afi_add(Request[r].name, Recording(r))
  /\ ev' = [ev EXCEPT ![r].status = "RUNNING", ![r].thread = "exited", ![r].fi = TRUE]
  /\ Unlink(r) /\ Close(r, "start")

\* start_scheduled: the first event of the free branch that is due.
StartScheduled ==
  /\ pc = "start"
  /\ LET due == {r \in Range(freelist) : Due(r)} IN
       IF due = {}
       THEN pc' = "poll" /\ UNCHANGED <<branch, ev, index, victim, back>>
       ELSE \E r \in due :
              /\ IsFirst(r, freelist, due)
              /\ \/ ~TooOld(r) /\ init_cfg(r) /\ start_event(r) /\ UNCHANGED <<pc, victim, back>>
                 \/ ~TooOld(r) /\ init_cfg(r) /\ start_event_fails(r)
                 \/ /\ TooOld(r) \/ ~init_cfg(r)
                    /\ Unlink(r) /\ Close(r, "start") /\ UNCHANGED <<ev, index>>
  /\ UNCHANGED <<file, lock, notify, clock, stored, running, then, cfg, i, copy, memtree, client,
                 lives>>

\* poll: it times out, or the watch is read and the schedule checked.
Poll ==
  /\ pc = "poll"
  /\ IF notify THEN notify' = FALSE /\ pc' = "lock" /\ then' = "finish"
               ELSE pc' = "finish" /\ UNCHANGED <<notify, then>>
  /\ UNCHANGED <<file, lock, clock, stored, running, victim, back, cfg, i, copy, branch, ev, memtree,
                 index, client, lives>>

\* Mutant: check_finished does not know of STATUS_FINISHED.
EndedBadly(r) == ev[r].status \in {"ERROR", "CANCELLED", "STOPPED"}

\* The status of a session that check_finished closes.
Ended(r) == ev[r].status \in {"FINISHED", "ERROR", "CANCELLED", "STOPPED"}

\* check_finished, and the end of a round: without buffers the daemon leaves its loop.
CheckFinished ==
  /\ pc = "finish"
  /\ LET ended == {r \in Range(busylist) : Ended(r)} IN
       IF ended # {}
       THEN /\ \E r \in ended :
                 IsFirst(r, busylist, ended) /\ Unlink(r) /\ Close(r, "finish")
            /\ UNCHANGED running
       ELSE /\ running' = (running /\ memtree = "alive")
            /\ pc' = IF running' THEN "start" ELSE "closing"
            /\ UNCHANGED <<branch, victim, back>>
  /\ UNCHANGED <<file, lock, notify, clock, stored, then, cfg, i, copy, ev, memtree, index, client,
                 lives>>

\* main after its loop: what is in the busy branch is closed, the rest is left.
CloseSessions ==
  /\ pc = "closing" /\ busylist # <<>>
  /\ Unlink(Head(busylist)) /\ Close(Head(busylist), "closing")
  /\ UNCHANGED <<file, lock, notify, clock, stored, running, then, cfg, i, copy, ev, memtree, index,
                 client, lives>>

\* close_rbufs, close_recp and afi_close.
Exit == pc = "closing" /\ busylist = <<>> /\ Crash

-----------------------------------------------------------------------------
(* free_and_close                                                            *)

\* shutdown_thread reaches a session only once prep_streamer has set its stop.
shutdown_thread(r) ==
  ev' = IF ev[r].ent = "ready" THEN [ev EXCEPT ![r].status = "STOPPED", ![r].open = FALSE] ELSE ev

Finished(r) == ev[r].status \in {"FINISHED", "ERROR", "STOPPED"}

\* A streamer_entity that is allocated but not yet set up has any pointer for its stop.
Stop ==
  /\ pc = "stop"
  /\ \/ /\ IF Finished(victim) THEN UNCHANGED ev ELSE shutdown_thread(victim)
        /\ pc' = "join"
        /\ UNCHANGED <<file, lock, notify, clock, stored, running, local, branch, memtree,
                       index, client, lives>>
     \/ ~Finished(victim) /\ ev[victim].ent = "raw" /\ Crash

\* Mutant: the session's thread is not waited for.
JoinAtOnce ==
  /\ pc = "join" /\ pc' = "convert"
  /\ UNCHANGED <<file, lock, notify, clock, stored, running, local, branch, ev, memtree, index,
                 client, lives>>

\* close_streamer: the configuration of a recording is stored on the disks.
close_streamer(r) ==
  stored' = IF Recording(r) /\ ev[r].ent = "ready" THEN stored \cup {Request[r].name} ELSE stored

\* pthread_join, and then the streamer is closed.
Join ==
  /\ pc = "join"
  /\ ev[victim].thread \in {"none", "exited"}
  /\ close_streamer(victim)
  /\ pc' = "convert"
  /\ UNCHANGED <<file, lock, notify, clock, running, local, branch, ev, memtree, index, client,
                 lives>>

\* remove_from_cfgsched asks for a shared lock: one that is held is given up for it.
Convert ==
  /\ pc = "convert"
  /\ lock' = "none" /\ pc' = "unlist"
  /\ UNCHANGED <<file, notify, clock, stored, running, local, branch, ev, memtree, index,
                 client, lives>>

\* It reads the file; an entry that is gone already leaves the daemon with the lock.
Unlist ==
  /\ pc = "unlist"
  /\ lock' = "SH"
  /\ IF victim \in Range(file) THEN copy' = file /\ pc' = "rewrite"
                              ELSE pc' = "leave" /\ UNCHANGED copy
  /\ UNCHANGED <<file, notify, clock, stored, running, victim, back, then, cfg, i, branch, ev,
                 memtree, index, client, lives>>

\* config_write_file, and the lock is given up.
Rewrite ==
  /\ pc = "rewrite"
  /\ file' = Without(copy, victim)
  /\ notify' = TRUE /\ lock' = "none" /\ copy' = <<>> /\ pc' = "leave"
  /\ UNCHANGED <<clock, stored, running, victim, back, then, cfg, i, branch, ev, memtree, index,
                 client, lives>>

\* close_opts, and what it belonged to is freed.
close_opts(r) == ev' = [ev EXCEPT ![r] = NoEvent]

\* The event leaves the index and is freed; one that never started has no file index, and
\* afi_disassociate asserts that it has.
Leave ==
  /\ pc = "leave"
  /\ IF ev[victim].fi
     THEN /\ afi_disassociate(Request[victim].name, Recording(victim))
          /\ close_opts(victim)
          /\ pc' = back /\ victim' = NULL /\ back' = NULL
          /\ UNCHANGED <<file, lock, notify, clock, stored, running, then, cfg, i, copy, branch,
                         memtree, client, lives>>
     ELSE Crash

-----------------------------------------------------------------------------
(* The threads of a session                                                  *)

SessionOnly ==
  UNCHANGED <<file, lock, notify, clock, stored, pc, running, local, branch, memtree, index,
              client, lives>>

At(r, place) == pc # "down" /\ ev[r].thread = place

\* vlbistreamer: a send looks for its files first, and asserts that each it finds is not
\* there; then streamer_ent is allocated.
Prepare(r) ==
  \/ /\ At(r, "prep")
     /\ ev' = [ev EXCEPT ![r].ent = "raw", ![r].thread = "init"]
     /\ SessionOnly
  \/ At(r, "prep") /\ ~Recording(r) /\ Crash

\* prep_streamer: its socket may fail.
prep_streamer(r) ==
  /\ At(r, "init")
  /\ \/ ev' = [ev EXCEPT ![r].ent = "ready", ![r].open = TRUE, ![r].thread = "create"]
     \/ ev' = [ev EXCEPT ![r].ent = NULL, ![r].status = "ERROR", ![r].thread = "exited"]
  /\ SessionOnly

\* The status is set to running, whatever it was, and the streamer's thread created.
Create(r) ==
  /\ At(r, "create")
  /\ ev' = [ev EXCEPT ![r].status = "RUNNING", ![r].streamer = TRUE,
                      ![r].thread = IF Request[r].kind = "timed" THEN "wait" ELSE "join"]
  /\ SessionOnly

\* A timed recording is stopped when its time is over or its status has changed.
TimeIsUp(r) ==
  /\ At(r, "wait")
  /\ ev' = [ev EXCEPT ![r].status = "STOPPED", ![r].open = FALSE, ![r].thread = "join"]
  /\ SessionOnly

\* The streamer's thread ends once it was stopped, or its socket closed.
StreamerStops(r) ==
  /\ pc # "down" /\ ev[r].streamer
  /\ ev[r].status # "RUNNING" \/ ~ev[r].open
  /\ ev' = [ev EXCEPT ![r].streamer = FALSE, ![r].open = FALSE,
                      ![r].status = IF @ = "RUNNING" THEN "ERROR" ELSE @]
  /\ SessionOnly

\* What the streamer leaves when it ends by itself: after an error, its last packet, the
\* end of its connection, or the last file of a send.
LeftBy(kind) ==
  {"ERROR"} \cup (CASE kind = "timed" -> {}
                   [] kind = "counted" -> {"FINISHED", "STOPPED"}
                   [] kind = "send" -> {"RUNNING"})

StreamerEnds(r) ==
  /\ pc # "down" /\ ev[r].streamer /\ ev[r].status = "RUNNING"
  /\ \E status \in LeftBy(Request[r].kind) :
       ev' = [ev EXCEPT ![r].streamer = FALSE, ![r].open = FALSE, ![r].status = status]
  /\ SessionOnly

\* The streamer's thread is joined and its buffers released.
Drained(r) ==
  /\ At(r, "join") /\ ~ev[r].streamer
  /\ ev' = [ev EXCEPT ![r].status = "FINISHED", ![r].thread = "exited"]
  /\ SessionOnly

Session(r) ==
  \/ Prepare(r) \/ prep_streamer(r) \/ Create(r) \/ TimeIsUp(r) \/ StreamerStops(r) \/ Drained(r)
  \/ Request[r].kind = "send" /\ StreamerEnds(r)

-----------------------------------------------------------------------------
(* The clients, and time                                                     *)

\* A client writes the file, which the daemon's watch sees.
Write(content) == file' = content /\ notify' = (pc # "down")

ClientOnly ==
  UNCHANGED <<lock, clock, stored, pc, running, local, branch, ev, memtree, index, lives>>

\* vbs_queue: an entry is appended while SCHEDLOCKFILE is locked.
Queue(r) ==
  /\ lock = "none" /\ r \notin queued /\ Cardinality(queued) < MaxQueued
  /\ Write(Append(file, r)) /\ queued' = queued \cup {r}
  /\ UNCHANGED <<edits, editor, withdrawn>> /\ ClientOnly

\* vbs_clearschedule: the same lock, and an empty file.
ClearSchedule ==
  /\ lock = "none" /\ edits < MaxEdits
  /\ Write(<<>>) /\ edits' = edits + 1 /\ withdrawn' = withdrawn \cup Range(file)
  /\ UNCHANGED <<queued, editor>> /\ ClientOnly

\* vbs_shutdown appends without the lock.
RequestShutdown ==
  /\ edits < MaxEdits /\ "shutdown" \notin Range(file)
  /\ Write(Append(file, "shutdown")) /\ edits' = edits + 1
  /\ UNCHANGED <<queued, editor, withdrawn>> /\ ClientOnly

\* vbs_schedulerm locks the file itself, which nobody else does: it reads the file, and
\* writes what it read without one entry.
EditBegins(e) ==
  /\ edits < MaxEdits /\ editor = <<>> /\ e \in Range(file)
  /\ editor' = <<file, e>> /\ edits' = edits + 1
  /\ UNCHANGED <<file, notify, queued, withdrawn>> /\ ClientOnly

EditEnds ==
  /\ editor # <<>>
  /\ Write(Without(editor[1], editor[2])) /\ editor' = <<>>
  /\ withdrawn' = withdrawn \cup (Range(file) \ Range(file'))
  /\ UNCHANGED <<queued, edits>> /\ ClientOnly

\* Time passes: the start of a request comes, and then the end of its time.
Tick(r) ==
  /\ Request[r].start = "later" /\ clock[r] # "late"
  /\ clock' = [clock EXCEPT ![r] = IF @ = "early" THEN "due" ELSE "late"]
  /\ UNCHANGED <<file, lock, notify, stored, pc, running, local, branch, ev, memtree, index,
                 client, lives>>

\* check_if_alive finds no buffer thread any more.
MemtreeDies ==
  /\ memtree = "alive" /\ memtree' = "dead" /\ edits < MaxEdits /\ edits' = edits + 1
  /\ UNCHANGED <<file, lock, notify, clock, stored, pc, running, local, branch, ev, index,
                 queued, editor, withdrawn, lives>>

-----------------------------------------------------------------------------

Init ==
  /\ file = <<>> /\ lock = "none" /\ notify = FALSE
  /\ clock = [r \in Requests |-> "early"] /\ stored = {}
  /\ pc = "down" /\ running = FALSE
  /\ victim = NULL /\ back = NULL /\ then = NULL /\ cfg = <<>> /\ i = 0 /\ copy = <<>>
  /\ freelist = <<>> /\ busylist = <<>> /\ ev = [r \in Requests |-> NoEvent]
  /\ memtree = "none" /\ index = NoIndex
  /\ queued = {} /\ edits = 0 /\ editor = <<>> /\ withdrawn = {} /\ lives = 0

Main ==
  \/ Lock \/ Look \/ Shutdown \/ ShutdownTaken \/ RemoveMissing \/ Unlock
  \/ StartScheduled \/ Poll \/ CheckFinished \/ CloseSessions \/ Exit
  \/ Stop \/ Join \/ Convert \/ Unlist \/ Rewrite \/ Leave

Next ==
  \/ Main \/ Boot \/ Kill
  \/ \E r \in Requests : Session(r) \/ StreamerEnds(r) \/ Queue(r) \/ Tick(r)
  \/ ClearSchedule \/ RequestShutdown \/ EditEnds \/ MemtreeDies
  \/ \E e \in Requests \cup {"shutdown"} : EditBegins(e)

\* The daemon and its threads run, time passes, and a send comes to its end.  Nobody
\* starts the daemon again, and a counted recording may wait for its sender for ever.
Spec ==
  /\ Init /\ [][Next]_vars
  /\ WF_vars(Main)
  /\ \A r \in Requests : WF_vars(Session(r))
  /\ WF_vars(\E r \in Requests : Tick(r))

-----------------------------------------------------------------------------
(* Properties                                                                *)

\* Before the daemon goes to sleep in poll with nothing to read from its watch, its
\* events are the entries of the file and no client waits for its lock: however the file
\* was written by it and by others in between, no request is overlooked and none goes on
\* that was taken out (check_schedule, remove_from_cfgsched, the loop of main).
ScheduleInStep ==
  pc = "poll" /\ ~notify =>
    /\ Scheduled = Range(file) \ {"shutdown"}
    /\ lock = "none"

\* The entry of a session stays in the file until the session's thread has ended, unless
\* a client took it out: a daemon that dies finds the recordings it has to go on with
\* when it comes back (free_and_close, remove_from_cfgsched).
EntryOutlivesSession ==
  \A r \in Requests :
    ev[r].thread \notin {"none", "exited"} => r \in Range(file) \cup withdrawn

\* The index counts the sessions of a recording, and knows of its one recorder
\* (init_cfg, afi_add, afi_disassociate).
IndexMatchesSessions ==
  \A n \in Names :
    LET users == {r \in Requests : ev[r].fi /\ Request[r].name = n} IN
      /\ index[n].associations = Cardinality(users)
      /\ Cardinality(users \cap {r \in Requests : Recording(r)}) = IF index[n].recording THEN 1 ELSE 0

\* The main thread waits for a recording that only its sender can end.
WaitsForSender ==
  pc = "join" /\ Request[victim].kind = "counted" /\ ev[victim].thread # "exited"

\* A request that ends by itself leaves the schedule in the end, unless the daemon goes
\* down, or is held up by a recording whose cancellation came too early to reach it
\* (start_scheduled, check_finished, free_and_close).
RequestsSettle ==
  \A r \in {q \in Requests : Request[q].kind # "counted"} :
    (r \in Range(file) /\ pc # "down") ~> (r \notin Range(file) \/ pc = "down" \/ WaitsForSender)
=============================================================================
