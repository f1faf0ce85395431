# VLBI-streamer: a verification development

VLBI-streamer records VLBI data from the network to many disks at once, and plays it back.
This directory holds TLA+ models of its core logic, the configurations that model-check them with TLC,
and theorems about them whose proofs are checked by TLAPS.
Every definition is a translation of the C code (or, for the clients of the schedule, of the scripts); `PROJECT.json` (`map`) gives the lines.
Paths below are relative to the repository, so `src/resourcetree.c` is the file of that name in its `src` directory.

## 1. The system

### Parts

| Part | Source | State | Operations |
|---|---|---|---|
| Resource branches | `resourcetree.c` | three lists (free, busy, loaded) under `branchlock`, condition `busysignal`; per entity two ticket counters, `waitlock`, `waitsig` | `get_free`, `set_free`, `set_loaded`, `get_loaded`, `get_specific`, `block_until_free`, `remove_from_branch` |
| UDP receiver, resequencer | `udp_stream.c` | `resq_info`: current and kept buffer, counts, sequence numbers | `udp_receiver`, `calc_bufpos_general`, `jump_to_next_buf`, `handle_buffer_switch` |
| Active file index | `active_file_index.c` | a list of recordings, each with packet and file counts and a status word per file | `afi_add`, `afi_add_file`, `afi_update_fh`, `afi_wait_on_update`, `afi_start_loading`, ... |
| Buffer threads | `simplebuffer.c` | a buffer's session, file number, bytes, `ready_to_act` | `sbuf_acquire`, `sbuf_release`, `write_buffer`, the write loop |
| Recording points | `common_wrt.c` and the write back ends | an open file, `RECSTATUS_FULL` | `check_if_suitable`, `handle_error`, write and read |
| Sessions | `streamer.c` | `opt_s`: status, counters, threads | `vlbistreamer`, `shutdown_thread`, `close_opts` |
| Sending side | `sockethandling.c`, `common_filehandling.c` | files loading, loaded, sent | `generic_sendloop`, `start_loading`, `jump_to_next_file` |
| TCP receiver, multistream | `tcp_stream.c` | a striped buffer, remainders, two mutexes and condition variables, counts of ready and active threads | `generic_recv`, `loop_with_recv`, `loop_with_splice`, `threaded_multistream_recv`, `loop_with_threaded_multistream_recv` |
| Daemon, scheduler | `server.c` | the schedule file with its lock and its watch, a branch of events, the sessions' threads | `check_schedule`, `start_scheduled`, `start_event`, `check_finished`, `free_and_close`, `remove_from_cfgsched` |
| Configuration | `confighelper.c`, `streamer.c` | `opt_s` of the daemon and of every session, with strings they may share | `clear_and_default`, `parse_options`, `read_full_cfg`, `set_from_root`, `init_cfg`, `write_cfgs_to_disks` |
| FUSE view | `vbs_fs/vbs_fs.c` | a hash table of file indices | `vbs_getattr`, `vbs_readdir`, `vbs_open`, `vbs_read` |
| Clients | `scripts/`, `vbs_schedulerm.c` | none: they edit the schedule file, or the disks | `vbs_queue`, `vbs_clearschedule`, `vbs_shutdown`, `vbs_rm`, `vbs_schedulerm` |
| Datatypes and time | `datatypes.c`, `datatypes_common.c` | none | sequence numbers of headers, `check_and_fill` |

The stand-alone tools keep no state that threads share; `PROJECT.json` lists what is not modelled, with the reason.
`ringbuf.c` is the predecessor of `simplebuffer.c` and is not built.

### How the parts interact

A session is a thread in `vlbistreamer` with a streamer thread of its own.  A recording's streamer takes a buffer from
`membranch` (`get_free`), fills it from the network, wakes the buffer's own thread with
`sbuf_set_ready_and_signal`, and takes the next buffer.  The buffer's thread takes a recording point from
`diskbranch`, writes the file, gives the recording point back (`set_free`) and the buffer too, as free or as
loaded, where a session that sends the same recording live may find it.
A playback runs the other way: it asks for a buffer and starts loading a file, the buffer's thread takes the one
recording point that has the file (`get_specific`), reads it, and calls `set_loaded`; the sender takes the buffer
with `get_loaded`.  The active file index tells all of them which files a recording has and where each is.
The two branches and the index are shared by all sessions of the daemon.

The daemon's main thread knows of requests through one file, `STATEFILE`, which the clients edit under `SCHEDLOCKFILE` (not all of
them take it) and the daemon edits too.  It makes a session's options by copying its defaults and applying the entry, starts
the session as a thread, and closes it when it has ended or its entry is gone; only then is the recording's configuration written beside its files.
The FUSE view is a process of its own.  It finds recordings on the disks, takes what it knows from those configurations, and from the
schedule and the files' names while a recording runs, and nobody tells it of a change.

### What is hard

* **Interleavings on the branches.** A thread that waits for one particular entity gives up `branchlock` before it
  takes its ticket, the owner compares the ticket counters under `branchlock` alone, and a hand-over moves the
  entity from thread to thread without any list changing.
* **Signals.** `pthread_cond_signal` wakes one of several sleepers with different predicates, and a sleeper may quit.
* **Wrapping counters.** `waiters_head` and `waiters_bottom` are 16-bit and wrap at different times.
* **Packet order.** Packets are lost, repeated and reordered across the border between two buffers, one of which
  may already be with its writer, while `recv` has written the packet to a place before its number is known.
* **The end of a session.** It races the buffer threads that still write or read for it, and the other sessions.
* **Disks that break or fill up** while others wait for them.
* **Stale reads.** The file index is read before an unlock, a wait or a reallocation and used after it; the FUSE view's indices are
  built between two steps of a recorder; a session's packets per buffer are computed anew after they were cut to fit.
* **A barrier made by hand.** The threads of a striped recording write one buffer together, take their share from
  remainders the session's thread changes between two buffers, and set flags that it clears, under different mutexes.
* **A file as a queue.** The schedule is written by the daemon and by others while it is being looked through, a lock is
  given up and taken anew in between, and the process may die between any two of its steps.
* **Copied structures.** Sessions are copies of the default options, with pointers in them that are written through.

### What makes each part correct

* Branches: an entity is used by one thread at a time; it is busy exactly while somebody uses it; tickets are served
  in order; nobody sleeps on what is available or can never become available; `get_loaded` delivers the file that was
  asked for; a session that ended owns nothing.
* Resequencer: a packet that was put in place stays there; a packet that is early or late by less than the window is
  recorded at its place; the counts that decide when a buffer is written count what is in it; every file reaches a
  writer, once; the file index counts no fewer packets than there are.
* File index: a reader never sees a file that is not there; every waiter hears of an update and of the end; an entry is
  freed exactly when its last user left.
* Buffer threads: what was handed over is written once, and the buffer always comes back to the branch.
* Striped recordings: full buffers hold the sender's packets in its order, a clean end stores all of them, and a buffer that was handed
  over is written no more.
* Daemon: its events follow the file; the entry of a session outlives the session; a name has one recorder; a request that
  can end leaves the schedule.
* Configuration: sessions share no strings; a playback takes the sizes of the recording; a session's packets fit the buffers.
* FUSE view: what a current index says is true, and a read gives the bytes that were asked for.

## 2. The modules

| Module | Models | State |
|---|---|---|
| `ResourceTree` | `resourcetree.c` with the callers' life cycle that its guarantees rest on | written, checked, proved about |
| `LeasePool` | the abstract specification of a branch | written |
| `ResourceTreeLease` | the refinement mapping from the first to the second | checked, proved |
| `MCResourceTree` | who uses the branch in each run | |
| `ResourceTreeProofs` | type correctness, mutual exclusion, what a session finds and leaves in the branch, the pool it implements, wake-ups on diskbranch, the sleepers of a branch that is lost, the waits of a playback | proved |
| `Resequencer` | `udp_stream.c`, with the fill in `datatypes.c` | written, checked |
| `ResequencerProofs` | its invariants and step properties for any buffer size | proved |
| `SimpleBuffer` | the buffer threads of `simplebuffer.c` while they record, their recording points and what they tell the file index | written, checked |
| `SimpleBufferProofs` | exclusive use of buffers and recording points, the type invariant, what is written, and that `SimpleBuffer` implements `Archive` | proved |
| `Archive` | the abstract specification of what they promise, which `SimpleBuffer` implements | checked, proved |
| `TcpStream` (`MCTcpStream`) | the receivers of `tcp_stream.c`: one stream, spliced, or striped over threads | written, checked, proved about |
| `TcpStreamProofs` | the order of the bytes, the barrier, and that a whole recording is stored, for any number of streams and any sizes | proved |
| `Configuration` (`MCConfiguration`) | where the options of the daemon and its sessions come from, and what is computed from them | written, checked, proved about |
| `ConfigurationProofs` | no strings are shared, a playback takes the sizes of one recording, packets fit in the buffers, for any settings and number of disks | proved |
| `Daemon` (`MCDaemon`) | the main loop, the schedule file and its clients, the sessions' threads and their status, the index of names, death and restart | written, checked, proved about |
| `DaemonProofs` | the schedule follows the file, entries outlive sessions, the index counts them, for any finite set of requests | proved |
| `VbsFs` (`MCVbsFs`) | the FUSE view beside recorders, clients and `vbs_rm` | written, checked |
| `Inductions` | induction over numbers and finite sets, sums and iterations; used by the proofs that sum or fold | proved |
| `LeftFolds` | what a fold from the left does, index by index, for any operator | proved |

### ResourceTree

One action is what a thread does under one lock.  `get_free`, `SetFree`, `set_loaded`, `QueueFor` and
`remove_from_branch` are sections under `branchlock`; `TakeTicket`, `CheckTicket` and `Grant` are sections under the
entity's `waitlock`, which is a variable because a waiter keeps it from one lock's section to the next.
`set_free` is two actions, `SetFree` and `Grant`, because it compares the counters under `branchlock` but moves
`waiters_bottom` only once it has `waitlock`.  `set_loaded` keeps `branchlock` while it waits for `waitlock`, so it is one.
A condition variable is the set of threads asleep on it: `busywait` for `busysignal`, `waiting` for an entity's `waitsig`.
A signal picks any sleeper; `SpuriousWakeup` wakes one that nobody signalled.

`Does` gives each thread the operations its code calls.  The properties need the life cycle around them and so the module has
the part of `vlbistreamer` that ends a session: `Shutdown`, `WakeSleepers` (the broadcast of a timed recording),
`Join`, and `block_until_free` with its loop, `Reclaim`.  An entity remembers in `tag` the session and file it was
last acquired for, which is what `get_loaded` and `block_until_free` search by.

The order of entities in a list is abstracted, so "the first suitable one" is any suitable one.
The tests of `MaxHeld` (how many entities a thread asks for before it passes one on) and of `StillStarts`
(a session starts nothing once its threads were joined) bound the environment.

### LeasePool and ResourceTreeLease

The promise of a branch to its users, with no lists, locks, signals or counters: an entity is leased to at most one
thread, and those who queue for it get it first come first served.  The mapping takes the lessee to be the entity's
owner (who holds its pointer, or has the ticket that is up, or reclaims it) and the queue to be the waiters in
the order of their tickets modulo the wrap.

### Resequencer

A buffer is a function from places to packets.  `Receive` is one turn of `udp_receiver`'s loop: `recv` puts the packet
at the next place, `calc_bufpos_general` decides what to do with it, one disjunct for each of its branches, and the
assertion of the loop ends the process.  `SwitchBuffer` and `SwitchUnnumbered` are `handle_buffer_switch`.  A jump
to the next buffer (`JumpToNextBuf`) either gets a buffer from `get_free` or, when the recording was stopped meanwhile,
`NoBuffer`.  `WriteFile` is the buffer thread with `check_and_fill`, run at any later time.  The network loses,
reorders and repeats packets.  Byte counts are counted in packets, which loses nothing: every packet that is
counted has the size `packet_size`, and one of any other size is `ReceiveWrongSize`.
A recording that waits for a start second in the headers (`WAIT_START_ON_METADATA`) leaves each packet where `recv` put it until one tells it to begin, or
cannot be read and ends it (`WaitForStart`).  The numbers are those of a data type whose packets are numbered one by one (UDPMON, MARK5BNET);
how VDIF and Mark5B count frames in a second is not modelled.  Nor is `opt->offset`, with which the place of a late packet is computed from the
length before it was stripped (`udp_stream.c:472`) and the buffer from the one after it.

### SimpleBuffer

A receiver (`Take`, `Fill`, `HandOver`, `CancelWritebuf`) holds at most two buffers, as the resequencer does, and hands over
full ones until the last.  Each buffer has a thread that runs `sbuf_simple_write_loop`; `pc` says where it is.  One action is
what happens between two points where another thread can interfere: each lock, each test of the loop (which tests
`ready_to_act` without the mutex once it has slept), each write, each look for completed writes.
`headlock` is a variable because the loop keeps it from `LockHead` on when it does not sleep.

`write_buffer` takes a recording point (`OpenFile`), or one whose file cannot be opened (`OpenFails`), or none is left
(`NoRecPoint`, which takes the buffer out of the branch and ends its thread).  `sbuf_sync_loop` is repeated `WriteBytes`;
`sbuf_async_loop` is `WriteBytes` and a look for events (`EventDone`, `EventError`, `NoEvent`) in turn, until `asyncdiff` is exactly zero.
An event may report less than was asked for, in whole blocks (`EventShort`): `asyncdiff` goes down by what it says and nobody writes the rest again, which stays in
`inflight` as `lost`.  Any failure that `write_buffer` reports is `Retry`: `diff` and `bufoffset` go back and the loop begins again.
What a file holds is the set of pairs of a place in the file and the place in the buffer that was written there, so a gap, an
overlap and a shift all show.  `ULONG` and `INT` are the widths of `asyncdiff` and `savedif`.

The branches are taken to be what `ResourceTree` shows of them; here they are the list an entity is in.
`close_rbufs` stops the threads (`FlagStop`, `SignalStop`) when no session uses a buffer any more.

### Archive

The promise to a receiver: a file that was handed over becomes stored or lost, what is stored stays stored, and a file is lost only when
no recording point is left that could take it.  `SimpleBuffer!Fate` reads this off the state: stored is reported on disk by the index
*and* whole on the recording point the index names, lost is that its buffer was taken out of the branch.

### TcpStream

A byte is a pair of its stream and its place there, a buffer a function from places to bytes, so what is out of order, missing or
written twice shows.  `loop` chooses the receiver.  The session's thread sets up its socket, accepts (`accept` for one
stream, for each of a striped recording in turn), takes a buffer, and either receives itself (`loop_with_recv`; the spliced
one never gets a connection) or runs the barrier: create the threads, wait until each of the active ones has reported, take
their counts, hand the buffer over, get the next, release them.  A thread (`threaded_multistream`) waits under `recv_mutex`, takes its share of the
buffer (`correct_bufspot` and the rest of `Begin`), receives in parts of any length, and reports under `mainthread_mutex`.  The two mutexes
are held within a step, except that the flag a thread sets under the one and the session's thread clears under the other is two steps.

### Configuration

`opt_s` is a record of flags, numbers and strings; a string is an address in `heap`, which is what lets two options share one.
`set_from_root` is one function of a list of settings in three modes (read, check, write), a fold of `OneSetting`.
The start of the daemon is `Init` (`clear_and_default`), `ParseOption` for each argument, `CheckNonlogicals`, `ReadFullCfg` and the second `ParseOption`s.
A session is a copy of the defaults (`clear_pointers`), an entry of the schedule, the checks, `init_cfg` with the buffer sizes, for a playback the
configurations on the disks (`Found` and `Look`, one disk each of the first `n_drives`, `Points`), and at its end `write_cfgs_to_disks`, which may fail on any disk.  Sizes are in the units the constants give.
`indexed` is the packet size in the file index's entry for the name, made by the first session of the name (`Indexed`) and gone with the last.  Where no configuration is found, `afi_get` gives a playback that
entry, a recording's or another playback's; the latter may say 0, and `init_cfg` or `start_event` then divides by it: `phase` is `fault`, the end of the daemon.

### Daemon

`pc` is where the main thread is: in `poll`, looking through the schedule, starting what is due, closing what has ended, or in one of the
steps of `free_and_close`, from which it goes `back`.  `ev` has what the daemon knows of a request: its status, whether the last check found it, its
thread, its streamer.  A session's thread and the main thread race for the status; `RUNNING` may be written over a cancellation.
The lock is `EX`, `SH` or none; a conversion gives the lock up for a moment (`Convert`), and a client acts only while nobody has it, unless it takes
none.  `vbs_schedulerm` reads and writes the file in two steps.  `Kill` and every assertion or crash of the code end in `Died`, which leaves what is on disk; `Boot`
starts over with it.  A rewrite of the file is one step.  `start_scheduled` removes an event that is too old or that `init_cfg` refuses, which has no file index, and one for
which `start_event` fails later, for want of memory or of a thread, which has one (`start_event_fails`; `pthread_create` is taken to leave `ev->pt` as it was).  A request is `timed` (ends by the clock), `counted` (ends with its packets) or a `send`.

### VbsFs

A call of the file system is one step; the recorder, `vbs_clearschedule`, `vbs_rm` and the death of the daemon act between calls.  A slot
is free, has a name, or was used without ever being given one (`NULL`), which is how the code's probe for an absent name behaves.
`fileid` says of each file which disk it is on, that it is missing, or that the entry was never written.  `vbs_read` changes nothing and is an operator:
pairs of a place in the reader's buffer and the byte that comes there, and the value returned.  `size`, of which each piece takes off its share, is a `size_t` (`SizeT`): less than nothing is very much.
A recording of a name may be made again, as when the daemon comes back and finds the entry: `init_directory` takes the directory that is there and writes over its files, so `copies` has what each disk
holds of each file, from whichever session, `made` what the present session has written, and `cfgs` the configuration in each directory.  `outdated` is a history variable: the slots whose name was removed
or recorded anew since; the view cannot know.

## 3. The runs

| Run | Instance | Shows |
|---|---|---|
| `rt_disks` | 3 threads, 2 recording points, tickets 0..3; one thread fills up disks, one breaks them, one reads | `OneOwner`, `BusyIffOwned`, `NoLostWakeup`, and that every step is a step of `LeasePool` |
| `rt_record_end` | two recordings on one `membranch`, one of which ends; buffers can be taken out | `NeverLoadedFromFree`, `NothingOwnedAfterBlock`, `SleepersLearnOfLoss` |
| `rt_playback` | a playback of 2 files that ends while it competes with a recording for a buffer, fair | `GrantedIsAwake`, `WaitersHaveOwner`, `GetLoadedDelivers`, and that every wait ends |
| `rs_receive` | 7 packets, buffers of 3, with and without numbers, one wrong packet | places, counts, files and the window of the resequencer |
| `sb_async` | 2 buffers, 2 recording points, 2 files of two writes each, asynchronous writes that finish in any order, come short, fail, or are not submitted; opens that fail, full disks, wake-ups without cause | `WriterAlone`, `WrittenWhole`, `RecerAccounted`, and that every step is a step of `Archive` |
| `sb_ends` | 2 buffers, 1 recording point, 2 files of one write each, either back end, every failure, fair | `TypeOK`, `HandedOverIsFinished`, `ThreadsEnd` |
| `ts_stripe` | 2 streams, buffers of 3 packets of 2 bytes, recordings of up to 7 packets, ends, errors, stalls, stops and failures anywhere, fair | `FullBuffersInOrder`, `AllIsStored`, `WritesHeldBuffer`, `SessionEnds` |
| `cf_options` | 5 command lines, 6 configuration files, 5 entries, 2 disks of which `n_drives` may name one, 3 sessions, writes that fail | `PrivateStrings`, `PlaybackMatchesRecording`, `BuffersFit` |
| `dm_schedule` | 3 requests of one name (a timed one that may be broken, a counted one, a send), 2 queued, 2 starts of the daemon, 1 edit, fair | `ScheduleInStep`, `EntryOutlivesSession`, `IndexMatchesSessions`, `RequestsSettle` |
| `vf_view` | 2 recorded names and one absent name of the same hash, 3 slots, 2 disks, 2 recordings of 2 files together, of two names or one made again, reads of every range, 0 and 1 bytes left out | `ReadGivesTheRange` |

Bounds.  Three threads are the fewest that make an owner, a waiter and a passer-by that can take the lock between
them, and with `MaxTicket = 3` the counters wrap several times in every behaviour while the assumption that there are no more
threads than tickets is met with equality.  Buffers of three packets have a first, a middle and a last place, so a late packet
finds its place in a buffer that still receives; seven packets reach a
third buffer, so a jump happens from a buffer that has one before it, and a gap of two buffers is reached.
In `sb_async` a buffer of eight units takes two writes of four, so a failure can come before, between or after them, a write can come short by a block of two, and its last file of
seven units has a write that is padded.  Liveness is checked on files of one write, which come short and are padded too.  Two buffers are enough for one to be written while the other is filled and while the two compete for a
recording point, and a buffer may come round for the second file; two recording points, in `sb_async`, are enough for a file to be begun anew on the other.
Three packets and two streams make the streams change places from one buffer to the next, which is what the remainders are for, and seven
packets end in the third buffer.  Packets of 3 to 5 divide neither the file of 20 nor the block of 4, so each rounding of the sizes
shows; three sessions are two recordings of a name and a playback.  In `dm_schedule` the three requests share a name, so they compete for its index;
two in the file are the fewest that make the daemon remove one while it starts another; two starts are a crash and what it finds afterwards.
In `vf_view` the two names collide, so each is found behind the other or behind the hole it left; the probe wraps round the table;
files are found out of order and across two disks, and the last may be short.  An index starts with one entry (`InitialSize`) in place of
128, so that it grows.  `FilePackets` is a full file of two packets and `MbPackets` what `filesizemb` comes to in packets, the same number; `SizeT` is larger than any read and
stands for 2^64.  With two files at most no entry of a grown index is left unwritten; see 4 for what the code does then.

No state space is cut off by a constraint: `MaxTicket` wraps as `INT16_MAX` does, the bounds `MaxQueued`, `MaxLives`, `MaxEdits`,
`MaxSessions` and `MaxStored` are guards of the actions of clients, recorders and restarts, and the
other bounds are the sets of packets, threads and entities themselves.  `vf_view` uses the symmetry of the two recorded names, of which nothing depends.

Deadlock is not checked: threads do stop when their session ends, a receiver has no more to do after the
last packet, and daemon and view are at rest when nobody asks for anything.  That nobody stops who should go on is stated by the properties instead (`WaitEnds`,
`WaitersHaveOwner`, `NoLostWakeup`, `SleepersLearnOfLoss`).

Fairness (`ResourceTree!Fairness`).  A thread inside a call keeps running (weak fairness of `Continue`: the scheduler runs every
thread, and mutexes are held for bounded sections).  A holder eventually passes its entity on (strong fairness of
`Release`: its code reads, writes or sends one file and then does so, and may meet the entity's `waitlock` taken at times).
A session that was stopped is taken down.  Nobody is assumed to start a new operation, to shut a session down, or to be woken without a cause.

`SimpleBuffer!Fairness`: each buffer thread keeps running, which includes that its recording point answers
(`io_getevents` reports every write that was submitted; a blocking write returns).
A recording ends (`StopReceiving`: it has an end time, or is stopped), its receiver then passes on what it holds, and the shutdown of the daemon goes on
to the end once it can begin.  A receiver that still records need not ever receive anything.

`TcpStream!Spec`: the session's thread and each receiving thread keep running; a stream that stalls gives a thread nothing to do, and
`SessionEnds` speaks of streams that end.  `Daemon!Spec`: the main thread (which `inotify` wakes) and the sessions' threads keep running, and time passes.
Nobody starts a dead daemon, and the sender of a counted recording need not send.

## 4. Where the code does not do what it says

Two of these are runs that are expected to find a violation; `PROJECT.json` quotes the line that says otherwise, and that of a third, the read of one whole file of the FUSE view below.

| Run | What happens |
|---|---|
| `rt_lost_wakeup` | `set_free` signals one sleeper of `busysignal`.  If it belongs to a recording that was stopped, it quits without taking the buffer or passing the signal on; another recording's receiver sleeps on beside a free buffer. |
| `cf_command_line` | `parse_options` is called a second time after the configuration file was read, so that the command line overrides it, but `getopt` is at the end of `argv` and nothing resets `optind`: what the file says stays. |

The others have no run of their own; the models show each of them as a behaviour.

*On the branches*, found with the same properties and other callers: `set_free` compares the counters before `block_until_free`, which has already given up
`branchlock`, raises `waiters_head`, so the buffer goes to the free list and the session waits for a ticket nobody grants (`WaitersHaveOwner` fails when a session
is joined while its buffers are freed); `remove_from_branch` broadcasts `busysignal`, but threads that wait for the removed recording point by ticket sleep on
its `waitsig` (`WaitersHaveOwner` fails when one thread calls `get_specific` and another `remove_from_branch`);
when the last recording point becomes full rather than broken, only one of the threads asleep in
`get_free` is woken to learn it (`SleepersLearnOfLoss` fails when two recordings use `DiskFull`);
with two waiters on one entity the single signal of `set_loaded` or `set_free` may wake the one whose ticket is not up, and the right one sleeps on
(`GrantedIsAwake`); and a buffer thread that cannot read its file frees the buffer, which `set_free` hands to the thread
that waits in `get_loaded` for that file (`GetLoadedDelivers`).

*In the resequencer*, a repeated packet behind the last one is counted again.  Enough of them push the count past the buffer's size and the assertion at
`udp_stream.c:674` ends the process (`AssertNeedsRepeat` says that nothing else does); on the way there a buffer counts as complete with a packet missing.
A recording that is stopped while its receiver waits for the next buffer exits in the middle of a jump (`udp_stream.c:380`); the buffer it had just left hanging is never
written, though `udp_stream.c:351` says it is.
A gap over the end of a buffer jumps to the next one without counting the old one's packets
in the file index (`udp_stream.c:511`, where `handle_buffer_switch` calls `afi_add_to_packets`), so the fill of holes may leave places out at the end.

*In the buffer threads*, a write that fails returns -1, which is `EOF` (`simplebuffer.c:551`): the rest of the buffer is dropped, the file counts as on disk, and the broken
disk goes back to the branch.  All write back ends do this.  `WrittenWhole` and `StoresFiles` hold in `sb_async` because the asynchronous one never gets to report such a file:
a submit that fails leaves its thread polling, as below, and a write that fails later comes as an event, which the loop does treat as an error.
The synchronous one stores short files, which is why `sb_ends`, which has it, does not check them.
Two buffer threads may add file 1 and then file 0 to the index; `n_files` was raised by one for file 1 and not for file 0, which it takes to be there already
(`active_file_index.c:252`).  There are three ways to hang, which `Hung` names and the two liveness properties except.
A thread whose buffer is ready before it first slept keeps `headlock` through the whole write and then locks it again (`simplebuffer.c:824`, `887`).
One that is stopped at that place ends with the mutex, on which the shutdown of the daemon then blocks.
The last, padded write of a file counts more bytes than `asyncdiff` had, so that it passes zero and the loop polls for ever;
a write that `io_submit` refuses leaves `asyncdiff` above zero with the same end, and so does one that came short, of which nobody writes the rest.
After its first wake-up the loop waits without the mutex (`simplebuffer.c:828`), which matters only when the wake-up had no cause: a signal between the test and the wait
is then lost.  `sb_async` has such wake-ups, `sb_ends`, which checks liveness, has not.

*In the TCP receivers*, a thread that finds its share done sets `ALL_FULL` under one mutex while the session's thread resets the status under the
other; one of the two is lost, the thread sleeps for ever and the session's thread waits for it (`tcp_stream.c:378`).  A spliced session calls no `accept` that
would give it a connection, so it records nothing and never sets `STOPPED`.  If `pthread_create` fails, the threads created before are joined though nobody ends them;
if `accept` fails its status is written over.  With fewer packets in a buffer than streams, `max_packets` wraps (`StripeAssumption` excludes it).  A session stopped while it changes
buffers goes on with no buffer.  An offset makes a striped recording end after its first buffer.

*In the configuration*, `-c` sets the name of a file that was never copied, and the daemon exits; the check of the defaults runs before the file that sets them is read;
a file without `filesizemb` leaves a file size of zero, by which `init_rbufs` divides; `filesize` in a checked entry always differs; the booleans of a checked entry are compared the wrong way;
`address_to_bind_to` is lost in each session; a playback of a name that another playback has in the index takes its packet size of 0, by which `start_event` divides; `offset_onwrite` is stored with a recording and read by nobody.  `start_event` computes the packets of a buffer again after `init_cfg` cut them to whole
blocks: the file size `init_cfg` cut as well, which a comment says is not used any more, is what keeps `BuffersFit` true.
A `filesizemb` in an entry of the schedule would make it false; `cf_options` has none, and `SizesSane` excludes it.

*In the daemon*, removing an event that never started (too old, broken, refused, or taken out in time) ends in the assertion of `afi_disassociate` on a missing index:
one wrong request ends the daemon and every recording, after its entry is gone.  Every send that finds a file crashes it, with the entry left, so that it crashes again at each start.
A cancellation before `prep_streamer` is done reaches nobody: the main thread joins the whole recording with the lock held, and `streamer.c:1157` writes `RUNNING` over
`CANCELLED`.  `remove_from_cfgsched` returns early with the lock held.  `vbs_shutdown` and `vbs_disk2file` append without the lock, and `vbs_schedulerm` locks another file, so that a request
is lost or comes back.  `check_schedule` leaks a descriptor each time.

*In the FUSE view*, the probe for a name that is not there ends at a free slot and returns it; the slot is then marked with no name, and the next comparison with it
ends the process.  A cleared slot is a hole, and a name behind it gets a second slot.  Slot 0 is taken for an error when the table is built.  A finished recording is answered from its index
whatever became of it, and a name that was once seen with neither entry nor configuration, which it is between `vbs_clearschedule` and the end of the session, is hidden until the next mount.
A read that reaches the end of a recording returns `EOF`, an error.  The size of a file is taken from whichever is listed first, which may be the short last one (a comment at `vbs_fs.c:618` knows), and a
grown index has entries that were never written.  A recording
that is made again leaves the files of the earlier one where they are, and of two files of one number on two disks the index takes the one on the later disk.  `filesizemb` of the view's own options gives the
size of a file whose recording has no configuration; for one that was made with an offset, whose files hold shorter packets, it is not the size (`MbPackets` differs from `FilePackets`).

With bytes left out of packets (`-f`), `vbs_read` takes off `size` the length of a piece as it is in the file (`vbs_fs.c:1444`), which is more than the bytes it gives.  At the end of a file `size`
wraps, and the test at line 1426 holds for the next one.  A read of exactly the bytes that one file gives opens two (`n_files_open` is the quotient and one), so the whole of the next file
is written behind the bytes that were asked for.  Only whole packets of a part of one file are read right.  `ReadGivesTheRange` says so, in its condition that a read with an offset opens one file; with the
weaker one that its bytes are in one file, TLC finds the violation in five steps: a recording with one full file and another, and a `vbs_readdir`.
A read that ends where a file ends also opens the next one for a piece of nothing, and returns -1, with its bytes in place, if that one cannot be opened.
`ReadGivesTheRange` excepts all these cases by name: `Current`, opened files that are on one disk, reads short of the end, one file with an offset.

*In playback*, `afi_set_found`, `afi_get_disk_id` and `afi_start_loading` assert `n_files <= file` (`active_file_index.c:681`, `694`, `743`) where
the opposite is meant, so a build with assertions ends at the first file that is found.  `SimpleBuffer` therefore models recording only.

The passing runs use callers without these flaws where a flaw would hide the rest: `rt_record_end` checks what holds
whether or not the session's end is stuck, `rt_playback` has reads that succeed and one waiter at a time, and `sb_async` has the back end
whose failures are not taken for the end of a file.  `SessionEnds` and `RequestsSettle` name the waits above as their exceptions.

## 5. The theorems

### Branches

For any number of threads, entities and sessions, any assignment of operations to threads and any `MaxTicket` that is at least
the number of threads:

* `TypeCorrect` (`ResourceTreeProofs`): the type invariant.  It needs `NamesEntity`: a thread inside a call about an
  entity has one in `ent`.
* `OwnersExclusive` (`ResourceTreeProofs`): no two threads own an entity.
* `BusyMeansOwned`: an entity is on the busy list exactly while somebody owns it.

Neither of the last two is inductive.  What a hand-over gives is a number, and that one thread has that number is a
fact about all the numbers given out.  `IInv` says that the tickets after `waiters_bottom` up to `waiters_head` form a
window of the counters' cycle (`InWindow`, which treats the wrap); that each waiter has a ticket in the window or the one
that is up (`TicketsInWindow`); that no two waiters of an entity have the same one (`TicketsDistinct`); and that
each ticket in the window has its waiter (`EveryTicketWaits`), without which a hand-over could go to nobody and
leave the entity busy for ever.  `Prepared` and `OwnsOnce` say what a thread between two locks has.

The proof goes in three layers.  `WindowMoves` and `WindowGrows` are arithmetic: taking the first ticket out of the
window and adding one to its end.  `NewTicketIsNew` is the pigeonhole: if the new ticket were the one that is up, all
`MaxTicket` other tickets would have waiters other than the new one, and there are not that many threads.  Then eight lemmas say what a step may do to
ownership (nothing, take, give up, hand over, pass on, queue, claim, reclaim), and every action of `Next` is shown to be one of the eight.

The second half of the module builds on this:

* `FreeIsUntagged`: what `get_loaded` asserts of the entity it found, that it is not a free one.
* `SessionLeavesNothing`: after `block_until_free` nothing in the branch belongs to the session.  Both need `SInv`: what a thread
  between two locks is going to tag an entity with is known from its session's stage (`WantsOwn`, `QueuersHoldNothing`), and once
  its threads were joined no call that could acquire one is under way (`JoinedIsQuiet`, `BlocksJoined`).
* `BranchIsPool`: the whole branch implements `LeasePool`.  The queue of an entity is the sequence of the tickets in its window, taken
  across the wrap, each mapped to the one thread that has it; the lemmas on `queue` say what taking a ticket, a
  hand-over and everything else do to it.  Every action of `Next` is then a `Lease`, `PassOn`, `GiveUp`, `Queue`, `HandOver` or a stutter.
* `NoWakeupLost`: `set_free` signals once for each entity it frees, so that there are as many threads awake as entities they can
  take, and a thread that goes to sleep saw none.  It is stated for callers as on diskbranch (`DiskBranch`): `simplebuffer.c:724` passes no status to `get_free`,
  and `block_until_free` is only called on membranch (`streamer.c:1219`).  On membranch a thread that is woken may leave without the entity
  because its session was stopped; `rt_lost_wakeup` shows what follows.
* `SleepersLearn`: nobody sleeps on in `get_free` when nothing is left to get, if no disk can be full (`NeverFull`, which holds of membranch).  `SleepInv` is that a sleeper has an
  entity that was not removed: only `remove_from_branch` takes the last one away, and its broadcast leaves nobody asleep.
* `TicketsWake`, `WaitersAreServed`, `LoadedIsDelivered`: what `rt_playback` checks of the waits for a particular entity, for any number of sessions, if the branch is used as `PlaysBack` says.  One
  thread of a session calls `get_loaded`, and nobody else of that session `set_free`; buffer threads set what they filled loaded and free nothing; one thread ends the session, and takes no entities itself;
  nobody calls `get_specific`, fills a disk or removes an entity.  `PlayInv` says what the entities in use are tagged with: what a thread holds or waits for is its own session's.
  So an entity has one waiter at most (`OneQueuer`: a session's end waits only once its sender is done, `Over`), which makes a single signal enough; nobody waits for what is freed (`FreedUnqueued`), so that neither the late ticket
  nor the tag taken off can hurt; and `set_loaded` sees who has the `waitlock` (`LoadedUnqueued`).

The two conditions are needed: section 4 lists, for each of these four properties, the callers with whom it fails, and each of them is one that `NeverFull` or `PlaysBack` excludes.
The constants of `rt_playback` meet `PlaysBack`, those of `rt_record_end` meet `NeverFull`; TLC checks `PlayInv` on the former (8562 states, 99576 with two entities) and that a sleeper has an entity left on the latter (9272).

Assumptions: `ConstantsAssumption`, the types of the constants; `TicketAssumption`, that there are finitely many threads and no more than
`MaxTicket` (the code's `INT16_MAX` is 32767, and it starts a thread for each buffer, disk and session); and for the second half
`WorkersAssumption`, that the threads which are handed entities (the buffer threads of `simplebuffer.c`, on membranch) do not themselves call what waits for a particular entity there.

### Resequencer

`ResequencerProofs` proves for any buffer size `N`, any set of sequence numbers and any behaviour of the network what `rs_receive` checks:
`TypeCorrect`, `PositionCorrect`, `CountsCorrect`, `AssertCorrect`, `NoFileForgotten`, `NoFileTwice`, and the two
properties of steps, `NothingOverwritten` and `WindowCorrect`.

The invariant has three parts.  `WindowInv` is types and positions, which need one another: that `i` stays inside the
buffer is only known because it is the last packet's distance from the buffer's start.  It is where `N * cumul` is dealt with.
`PlacesInv` adds `NothingAhead` and `HoldsSeen`, without which `CountsPackets` is not inductive.  `recv` puts each packet at
the next place before anybody knows its number; a dropped one stays there, and a later packet counts as one more only if what
was left is not by chance the packet the place is for.  `FilesInv` says which file numbers are still unused.
`PlacesMove` shows that each branch of `calc_bufpos_general` does one of five things to what is in place
(begin the first buffer, join the current one, leave the buffers as they are, join the one before, begin the next one);
the counts, the assertion and both step properties follow from these five.

Assumption: `ConstantsAssumption`, that buffers have places, sequence numbers are integers, and the marks for an empty
place, the fill pattern and `INT64_MAX` as "none yet" are not among them.

### Buffer threads

`SimpleBufferProofs` proves for any number of buffers, recording points and files, any sizes and any faults (write errors, failing opens and
spurious wake-ups included), with either back end:

* `WritersAreAlone`: while a thread is at its buffer the buffer is busy, was handed over, and no receiver fills it.
* `RecersAreAccounted`: a recording point is busy exactly while one thread has it.

`WriterAlone` is not inductive: the loop frees a buffer before it clears `ready_to_act`, so a receiver may have it again while
it still counts as handed over.  `BufferInv` says why that does no harm: the thread has `headlock` from the one to the other (`pc = "freed"`), and
neither a hand-over nor a cancelled buffer gets past it; at any other time a buffer that is ready belongs to its thread, or its thread was told to end
when it was taken out of the branch.  `NoneTwice` is that the receiver never holds a buffer twice.  `RecerInv` adds in which parts of
`write_buffer` a thread has a recording point.  `ShapeStep`, `BuffersStep` and `RecerStep` show, action by action, that each part is kept.

Assumption: `ConstantsAssumption`, of which only that `None` is no disk matters.

The second half of the module goes on from there, for the same constants:

* `TypeCorrect`: the type invariant, with its bounds: a padded write stays in the buffer, `asyncdiff` stays an `unsigned long` when it passes zero.
* `WrittenIsWhole`: a file the loop reports on disk is there with every byte at its place, if `Honest`.
* `FilesAreStored`: the buffer threads do what `Archive` promises, if `Honest`: each step is one of `Archive`'s, or it changes neither a file's fate nor
  the usable recording points.

`Honest` is the one exception of section 4: the back end is `aio`, or `def_write` does not fail.  It says nothing of failing opens, full disks, writes that are not submitted or fail later,
and it cannot be left out: `def_write` then stores short files.

`StoreInv` is the invariant.  The heart of it is `WriteInv`, about a thread in its write loop: the requests under way lie apart in the file, below `offset`; every place below
`offset` is in one of them or holds its byte (what was lost of a write that came short counts as under way, for good); and `asyncdiff` is what was to be written less what has landed, modulo 2^64, where `Landed` is `offset` less the
places still under way.  The loop ends when `asyncdiff` is zero, and why nothing is then missing is a matter of blocks.  `asyncdiff` is zero only if exactly the file's length has landed (`OwedIs`: both numbers are
below 2^64).  What lands is whole blocks, so a file that gets there is a number of blocks long; its last write was then not padded (`PaddedFits`), `offset` is no more than
the length, and so nothing is under way and nothing unwritten.  A file that is not a number of blocks long never gets there, which is the hang `Hung` names.  The synchronous loop
ends when `diff` is zero, with `offset` at or past the length and nothing under way.
`Submits` and `Ends` count the places when a write is added or its event comes, for all or part of it, `PaddedSum` and `NextWrite` do the arithmetic of one write.

`FileInv` ties the buffers to their files: a buffer's file number is its own, was given out, and its `diff`, or `savedif` while the thread works, is what was handed over.
That is why `Retry` begins the file anew with its whole length.  `WroteInv` carries the result past the release of the recording point to `afi_update_fh`.
`Frame` and `OneStep` show that a step of one thread, with a recording point that is its own or that nobody has, leaves the files of all others as they are.
TLC checks `StoreInv` on the constants of `sb_async` (1953142 states) and of `sb_ends`, which has both back ends (273636).

Assumptions: `ConstantsAssumption`, and `SizesAssumption`: a buffer is a number of whole writes, a write a number of whole blocks, and twice its size fits an `int`.

### TCP receivers

`TcpStreamProofs` proves for any number of streams, any packet size, any buffer length and anything that `recv` returns:

* `TypeCorrect`: the type invariant.
* `BuffersInOrder`: a buffer handed over full holds the recording's bytes in their order.
* `WritesHeld`: a thread writes only into the buffer that the session's thread holds, while it holds it, or in a session that was stopped.
* `StoredToTheLastPacket`: if the senders send all of a recording and close, all of it is stored, and only the last file is shorter.

Each thread computes where its packets go from its number and the two remainders; nobody compares what they wrote.  That it comes out right
is arithmetic (`StripeFits`: a stream leaves a buffer where `correct_bufspot` begins in the next one; `PlacesDiffer`: no two packets share a place;
`OriginalAt`: the place is the one where the stream's next byte belongs), and then the buffer is full only because of a count.  `Collect` adds up what
the threads report and compares it with the size of the buffer; the bytes reported lie at different places (`Counted`, an injection of the places into what is
counted), so a sum of `BufSize` means that every place was written and that every thread put in its whole share (`FullIsFilled`).

The count is taken without the threads' mutex, and may be because of the barrier: `threads_ready` is at most the number of threads that are done (`Counting`),
a thread that is done does not begin again before `Release`, and so when `Collect` runs all of them are parked or ended (`CollectEffect`).  `Turning` keeps that
until the new buffer is given out.  `Lasting` says who may still receive when the session's thread has left its loop: threads of a session that was stopped, or of one that could not
create them all, and these are the two exceptions `WritesHeldBuffer` names.  TLC checks `IInv` as an invariant on the constants of `ts_stripe`
(851059 states, with `Nat` cut to a range so that `At` and `Rows` can be evaluated).

`StoredToTheLastPacket` needs to know, when a stream ends, how much the others have put into the last buffer, though each of them only counts its own packets.
`StoredInv` says it for a session that nobody disturbs (`OnTime`: not stopped, all threads created, each connection closed by its sender and not broken): connections stay open until the last buffer is
collected, a thread leaves its loop only when its stream is used up (`EndsAtEnd`), and all buffers but the last were full and counted (`Delivered`).
`LastRound` is the step that ends it: some threads have filled their share and some have ended.  The packets on a stream are the first of its places (`PacketsAre`), each place of a buffer belongs to one
stream (`Owner`), so that the packets written are those before a place `part`, without a gap; a bijection between the bytes reported and the bytes before that place gives the sum
(`CountedExactly`).  That `part` is less than a buffer is because one stream ended inside its share; when the recording ends with a full buffer the streams end in the next one, which then is handed over empty.
The sum over all files is `SumAlmostFlat` of `Inductions`: all terms but the last are the same.

Assumptions: `ConstantsAssumption`, and `StripeAssumption`, that a buffer has a packet for each stream, without which `max_packets` wraps around.

### Configuration

`ConfigurationProofs` proves for any command line, any configuration file, any entries of the schedule, any number of disks and of sessions, and any disks that fail when a session writes to them:

* `StringsAreNeverShared`: no two of the default options and the sessions' own ever hold the same string.
* `PlaybackIsOfOneRecording`: a playback that found its recording has the packet size, the number of packets and the number of files of one finished recording, if `NoTotals`.
* `PacketsFitTheBuffers`: the packets of a session that runs fit in the buffers that were allocated for the default options, and buffers that go to one file with direct writes are whole blocks, if `SizesSane`.

`NoTotals` is that neither the configuration file nor an entry of the schedule has a setting named `total_packets`.  The code would read one, and the session would then be taken for one that found its recording;
nothing in the repository writes it but `write_cfgs_to_disks`.

`SizesSane(least, most)` is what the operator has to respect and the code does not check: every packet size in the command line, the file or an entry is at least `least` bytes (the default of twice `RingAlign` too), no offset is
more than `most`, `2 * most < least` (so that a packet that was stored without its offset is still longer than an offset), and no entry has a `filesizemb` of its own, for which no buffer was allocated.  The theorem holds for any `least` and `most`;
the constants of `cf_options` satisfy `SizesSane(3, 1)`, so the premise is met by the settings that TLC explores.

`PrivateStrings` is not inductive, because it only looks at pairs of strings that are there.  `StringsInv` adds that every string is within the heap (a string beyond its end would be shared with the next one allocated, and
`strdup` of the model gives the next address), and that a stored configuration is what `write_cfgs_to_disks` writes, numbers and no string (`StoredIs`; one that named a string would have a playback allocate a second one).
`Private` and `OwnerGrows` say what happens to one owner's strings when a pass of `set_from_root` goes over its options: each is what it was, or new.  `SizesInv` says of each session that it has no packets yet, or those of one recording;
it uses `StoredIs` and that the configurations after the first one found are compared, not read (`RecChecked`).

`FitInv` says that the numbers of the defaults and of every session that was not started are as `SizesSane` has them (`Sized`; `SizedRead` carries it through a pass of `set_from_root`), that such a session has the file size of the defaults, that
no finished recording has packets smaller than `least - most`, that a session that runs fits (`InBuffer`), and that the packet size in the index (`indexed`) is 0 or at least that.  A playback takes its packets from a finished recording, from the index, or from its own options (`PacketsFound`);
`AlignFits` is the end of `init_cfg`, where the file shrinks to whole packets and blocks, and `ElemsFit` what `start_event` computes anew from that file size: the same number of packets.
TLC checks `FitInv(3, 1)` on the constants of `cf_options` (329481 states).

All three rest on what `set_from_root` does, a fold of `OneSetting`, and on `init_cfg`'s search of the disks, a fold of `Look`.  `SettingBySetting` and `DiskByDisk` unfold them, turn by turn, with `LeftFolds`;
`Turn` is what one setting may do in each mode, and `SettingsRead`, `NothingRead`, `RecRead`, `RecordingFound` what all of them do.  Where arms of a `CASE` overlap the lemmas hold whichever arm is taken.
Assumptions: `ConfigurationAssumption`, the types of the constants, and `SettingsAssumption`, that command lines, files and entries are sequences.

### Inductions and folds

The induction theorems of the library take a predicate as a parameter, which no prover at hand can instantiate.  `Inductions` states induction over sets instead: a set that has 0 and the successor of each of its numbers below a bound has all
numbers up to it (`UpTo`, from the least element of what it lacks), and likewise for the subsets of a finite set (`AllSubsets`).  The folds of the community modules are a `CHOOSE` of a function that equals its own unfolding; what they
return is known once there is such a function.  `SomeUnfolds` of `LeftFolds` makes one, by the number of elements, for any operator (a `CONSTANT` of the module), and `Unrolls` gives the values index by index.

### Daemon

`DaemonProofs` proves for any finite set of requests, of any kinds, names and start times, any of them written wrongly, and any number of lives of the daemon, edits and queued requests:

* `ScheduleFollowsFile`: when the daemon goes to sleep in `poll` with nothing to read, its events are the entries of the file and its lock is free.
* `EntryStays`: the entry of a session that runs is in the file, unless a client took it out.
* `IndexCorrect`: the index counts the sessions of a name and knows of its recorder, so two sessions never record under one name.

None of the three is inductive.  `FilesInv`: the file, and every copy that somebody read and may write back, is a list of queued requests without
repetition (a request is queued once), so that taking an entry out takes it out altogether.  `KnownInv`: what is scheduled or runs has its entry in
the file *and* in the copy the daemon is about to write over it, or a client took it out; the second half is what survives the step
where the daemon writes an old copy, with or without the lock.  A request queued in between is lost from the file, but was not scheduled yet.  `CheckInv` is the invariant of the loop of `check_schedule` (`Checked`): the events
marked `found` are those of the entries passed so far, and the entries to come are in the file or were taken out; outside of it nothing is
marked, which is what `zerofound` is for.  A request that is refused breaks it, and ends the daemon before it matters (`Leave`).  `StepInv` adds the watch: between two checks nobody wrote the file, or
there is something to read.  That `free_and_close` returns to the main loop only after a write (`pc # "leave"` without `notify`) rests on the entry
of the victim still being there when it began.  `EventsInv` ties a session's file index to its thread, and with it the counts of the index to the sets of sessions (`UserJoins`, `UserLeaves`).

Steps of sessions, clients and time are shown to be `Background`, which changes a few fields of the events and the file alone; deaths and starts lead to a `Blank` daemon; each step of the main
thread has its lemma.  TLC checks `IInv` on the constants of `dm_schedule` (497886 states).  Assumption: `DaemonAssumption`, of which only matters that the requests are finitely many and none is named `shutdown`.

### Not proved

These stay with TLC:

- Liveness (`WaitEnds`, `HandedOverIsFinished`, `ThreadsEnd`, `SessionEnds`, `RequestsSettle`): it rests on fairness and `ENABLED`, which the prover does not reason about.
- `ReadGivesTheRange` of `VbsFs`: `vbs_read` folds over chunks and files, whose index is in turn folded over the listings of the disks, into a table that doubles its size.

## 6. Plan, and what is not modelled

Done: the branches (1), the resequencer (2), the buffer threads while recording (3), the TCP receivers (4), the configuration (5), the daemon with its
sessions and the index of names (6), the FUSE view (7).

Left, in order of importance:

1. Proofs: of `VbsFs`, that a slot of the table and its name stay together, and then `ReadGivesTheRange` with `LeftFolds`.
2. `RecordPipeline`: the composition of 1, 2 and 3, with the status word of a file in the index (`FH_INMEM` is `FH_ONDISK|FH_MISSING`, so a file that is being written
   counts as both): what was received is on a disk or known to be missing.
3. What `check_and_fill` makes of a file's holes, and the header arithmetic of the data types.
4. The other write back ends: `splicewriter.c`, `writev_writer.c`, `sendfile_writer.c`.

Not modelled, because the program cannot get there at this commit: reading files back (`start_loading`, the read loop of the buffer threads, `generic_sendloop`, the
disk-to-file and local-socket streamers), behind an assertion that is the wrong way round; the local socket of the daemon, whose first event crashes it; `ringbuf.c` and `fanout.c`,
which are not built or not used.  Left out of what is modelled: the frame numbers of VDIF and Mark5B headers and stripping while receiving (`opt->offset`) in the resequencer, `AIO_END_OF_FILE`, which
`aiow_check` gives for an event of no bytes, and the cut of `minmem` to `getrlimit` in `parse_options`.  Left out as pure input and output: logging, statistics, socket options, huge pages, the allocation of files.
The stand-alone tools under `src/` and `seqsrc/` are programs of their own.  Within `vbs_fs.c`: two calls at once (its table has no lock), the partial loads of its child processes, `vbs_destroy`.
