---------------------------- MODULE SimpleBuffer ----------------------------
(***************************************************************************)
(* The threads of the memory buffers, src/src/simplebuffer.c, while they   *)
(* record: each sleeps until its buffer was filled, takes a recording      *)
(* point, writes the buffer to a file, and gives both back.  A receiver    *)
(* (udp_stream.c, tcp_stream.c) fills the buffers; the recording points    *)
(* fail as common_wrt.c, defwriter.c and aiowriter.c let them.             *)
(*                                                                         *)
(* A thread works on its own buffer only, so buffers name threads too.     *)
(* headlock is TRUE while the buffer's thread holds the mutex; the others  *)
(* hold it only inside one step.  Bytes are counted in units of which      *)
(* BLOCK_ALIGN make a disk block.  The branches are what ResourceTree      *)
(* proves of them: an entity is with one user at a time.  A write that     *)
(* was accepted comes back whole, short by whole blocks, or failed; that   *)
(* one of a block or more comes back with nothing and no error, the        *)
(* AIO_END_OF_FILE of a read, is left out.                                 *)
(***************************************************************************)
EXTENDS Integers, FiniteSets, Sequences

CONSTANTS
  Buffers, Disks,    \* entities of membranch and of diskbranch
  NFiles,            \* how many files a receiver may begin
  BufSize,           \* CALC_BUFSIZE_FROM_OPT
  Limit,             \* do_w_stuff_every: the most one write may take
  BLOCK_ALIGN,
  LastSizes,         \* what the last buffer of a recording may hold
  Backends,          \* REC_DEF writes at once, REC_AIO asynchronously
  Faults,            \* what recording points and condition variables may do wrong
  ULONG,             \* 2^64
  INT,               \* 2^32
  None               \* no disk

Files == 0..(NFiles - 1)

ASSUME ConstantsAssumption ==
  /\ NFiles \in Nat
  /\ BufSize \in Nat \ {0} /\ Limit \in Nat \ {0} /\ BLOCK_ALIGN \in Nat \ {0}
  /\ LastSizes \subseteq 1..BufSize
  /\ Backends \subseteq {"def", "aio"}
  /\ Faults \subseteq {"open", "mkdir", "write", "event", "short", "spurious"}
  /\ ULONG \in Nat /\ INT \in Nat
  /\ None \notin Disks

\* The buffer size fits an int, its padded size is no more than the buffer, and
\* a whole buffer is a number of whole writes and of whole blocks.
ASSUME SizesAssumption ==
  /\ 2 * BufSize < INT /\ BufSize < ULONG
  /\ BufSize % Limit = 0 /\ Limit % BLOCK_ALIGN = 0

VARIABLES
  \* the receiver
  receiving,   \* the session is STATUS_RUNNING
  filling,     \* the buffers the receiver has, the older one first
  begun,       \* how many files were begun
  given,       \* how much of each file was handed over
  \* each buffer, struct simplebuf and buffer_entity
  list, fileid, diff, bufoffset, ready_to_act, running, headlock, recer, asyncdiff,
  \* its thread
  pc, savedif,
  stopping,    \* how far sbuf_stop_running has come with it
  \* each recording point, struct common_io_info
  disklist, full, offset, inflight,
  disk,        \* what is in its files: pairs of a place in the file and in the buffer
  \* the file index
  status, diskid, n_files,
  backend      \* the configured write back end: never changes

receiver == <<receiving, filling, begun, given>>
buffer == <<list, fileid, diff, bufoffset, ready_to_act, running, headlock, recer, asyncdiff>>
thread == <<pc, savedif, stopping>>
points == <<disklist, full, offset, inflight, disk>>
index == <<status, diskid, n_files>>
vars == <<receiver, buffer, thread, points, index, backend>>

Places == 0..(BufSize - 1)
\* What aio was asked to write and has not written: yet, or ever when a write came back
\* short, as nobody asks for the rest of it again.
Requests == [at : 0..BufSize, from : 0..BufSize, count : 1..BufSize, lost : BOOLEAN]
\* FH_INMEM is 3, the sum of FH_ONDISK and FH_MISSING.
FH_INMEM == {"ONDISK", "MISSING"}
PCs == {"top", "lock", "check", "sleep", "asleep", "woken", "work", "acquire",
        "write", "poll", "release", "mark", "done", "freed", "exited"}

TypeOK ==
  /\ receiving \in BOOLEAN
  /\ filling \in Seq(Buffers)
  /\ begun \in 0..NFiles
  /\ given \in [Files -> 0..BufSize]
  /\ list \in [Buffers -> {"free", "busy", "removed"}]
  /\ fileid \in [Buffers -> Files \cup {-1}]
  /\ diff \in [Buffers -> 0..BufSize]
  /\ bufoffset \in [Buffers -> 0..BufSize]
  /\ ready_to_act \in [Buffers -> BOOLEAN]
  /\ running \in [Buffers -> BOOLEAN]
  /\ headlock \in [Buffers -> BOOLEAN]
  /\ recer \in [Buffers -> Disks \cup {None}]
  /\ asyncdiff \in [Buffers -> 0..(ULONG - 1)]
  /\ pc \in [Buffers -> PCs]
  /\ savedif \in [Buffers -> 0..BufSize]
  /\ stopping \in [Buffers -> {"no", "flagged", "signalled"}]
  /\ disklist \in [Disks -> {"free", "busy", "removed"}]
  /\ full \in SUBSET Disks
  /\ offset \in [Disks -> 0..BufSize]
  /\ inflight \in [Disks -> SUBSET Requests]
  /\ disk \in [Disks -> [Files -> SUBSET (Places \X Places)]]
  /\ status \in [Files -> SUBSET {"ONDISK", "MISSING", "BUSY"}]
  /\ diskid \in [Files -> Disks \cup {None}]
  /\ n_files \in 0..NFiles
  /\ backend \in Backends

Init ==
  /\ receiving = TRUE
  /\ filling = <<>>
  /\ begun = 0
  /\ given = [f \in Files |-> 0]
  /\ list = [b \in Buffers |-> "free"]
  /\ fileid = [b \in Buffers |-> -1]
  /\ diff = [b \in Buffers |-> 0]
  /\ bufoffset = [b \in Buffers |-> 0]
  /\ ready_to_act = [b \in Buffers |-> FALSE]
  /\ running = [b \in Buffers |-> TRUE]
  /\ headlock = [b \in Buffers |-> FALSE]
  /\ recer = [b \in Buffers |-> None]
  /\ asyncdiff = [b \in Buffers |-> 0]
  /\ pc = [b \in Buffers |-> "top"]
  /\ savedif = [b \in Buffers |-> 0]
  /\ stopping = [b \in Buffers |-> "no"]
  /\ disklist = [d \in Disks |-> "free"]
  /\ full = {}
  /\ offset = [d \in Disks |-> 0]
  /\ inflight = [d \in Disks |-> {}]
  /\ disk = [d \in Disks |-> [f \in Files |-> {}]]
  /\ status = [f \in Files |-> {}]
  /\ diskid = [f \in Files |-> None]
  /\ n_files = 0
  /\ backend \in Backends

-----------------------------------------------------------------------------
(* The receiver                                                             *)

On(l) == {b \in Buffers : list[b] = l}

\* Mutant: sbuf_set_ready in place of sbuf_set_ready_and_signal.
WakeNobody(b) == UNCHANGED pc

Wake(b) == pc' = [pc EXCEPT ![b] = IF @ = "asleep" THEN "woken" ELSE @]

\* get_free on membranch and sbuf_acquire: cumul numbers the files.
Take(b) ==
  /\ receiving
  /\ Len(filling) < 2
  /\ begun < NFiles
  /\ list[b] = "free"
  /\ list' = [list EXCEPT ![b] = "busy"]
  /\ fileid' = [fileid EXCEPT ![b] = begun]
  /\ diff' = [diff EXCEPT ![b] = 0]
  /\ bufoffset' = [bufoffset EXCEPT ![b] = 0]
  /\ filling' = Append(filling, b)
  /\ begun' = begun + 1
  /\ UNCHANGED <<receiving, given, ready_to_act, running, headlock, recer, asyncdiff>>
  /\ UNCHANGED <<thread, points, index, backend>>

\* get_free returns NULL: every buffer was taken out of the branch.
NoBuffer ==
  /\ receiving
  /\ On("removed") = Buffers
  /\ receiving' = FALSE
  /\ UNCHANGED <<filling, begun, given, buffer, thread, points, index, backend>>

StopReceiving ==
  /\ receiving
  /\ receiving' = FALSE
  /\ UNCHANGED <<filling, begun, given, buffer, thread, points, index, backend>>

\* *inc grows while packets arrive.
Fill(i, n) ==
  /\ i \in DOMAIN filling
  /\ diff[filling[i]] < n
  /\ diff' = [diff EXCEPT ![filling[i]] = n]
  /\ UNCHANGED <<receiver, list, fileid, bufoffset, ready_to_act, running, headlock, recer, asyncdiff>>
  /\ UNCHANGED <<thread, points, index, backend>>

\* Only the last buffer of a recording may be short.
MayHandOver(n) == n = BufSize \/ (~receiving /\ Len(filling) = 1 /\ n \in LastSizes)

\* sbuf_set_ready_and_signal
HandOver ==
  /\ filling # <<>>
  /\ LET b == Head(filling) IN
       /\ MayHandOver(diff[b])
       /\ ~headlock[b]
       /\ given' = [given EXCEPT ![fileid[b]] = diff[b]]
       /\ ready_to_act' = [ready_to_act EXCEPT ![b] = TRUE]
       /\ Wake(b)
  /\ filling' = Tail(filling)
  /\ UNCHANGED <<receiving, begun, list, fileid, diff, bufoffset, running, headlock, recer, asyncdiff>>
  /\ UNCHANGED <<savedif, stopping, points, index, backend>>

\* sbuf_cancel_writebuf: nothing came for the last buffer.
CancelWritebuf ==
  /\ ~receiving
  /\ Len(filling) = 1
  /\ LET b == Head(filling) IN
       /\ diff[b] = 0
       /\ ~headlock[b]
       /\ ready_to_act' = [ready_to_act EXCEPT ![b] = FALSE]
       /\ list' = [list EXCEPT ![b] = "free"]
  /\ filling' = <<>>
  /\ UNCHANGED <<receiving, begun, given, fileid, diff, bufoffset, running, headlock, recer, asyncdiff>>
  /\ UNCHANGED <<thread, points, index, backend>>

-----------------------------------------------------------------------------
(* sbuf_simple_write_loop: asleep and awake                                 *)

Goes(b, from, to) == pc[b] = from /\ pc' = [pc EXCEPT ![b] = to]

KeepsBuffer == UNCHANGED <<list, fileid, diff, bufoffset, ready_to_act, running, recer, asyncdiff>>
KeepsRest == UNCHANGED <<receiver, savedif, stopping, points, index, backend>>

LoopTop(b) ==
  /\ Goes(b, "top", IF running[b] THEN "lock" ELSE "exited")
  /\ KeepsBuffer /\ KeepsRest /\ UNCHANGED headlock

LockHead(b) ==
  /\ Goes(b, "lock", "check")
  /\ ~headlock[b]
  /\ headlock' = [headlock EXCEPT ![b] = TRUE]
  /\ KeepsBuffer /\ KeepsRest

\* Mutant: the inner loop does not look at running.
CheckReadyOnly(b) ==
  /\ Goes(b, "check", IF ~ready_to_act[b] THEN "sleep" ELSE "work")
  /\ KeepsBuffer /\ KeepsRest /\ UNCHANGED headlock

\* The condition of the inner loop.  The thread has the mutex the first time and
\* not after it has slept.
CheckReady(b) ==
  /\ Goes(b, "check", IF ~ready_to_act[b] /\ running[b] THEN "sleep" ELSE "work")
  /\ KeepsBuffer /\ KeepsRest /\ UNCHANGED headlock

\* pthread_cond_wait.  Waiting for a mutex one does not have is undefined, but
\* here nobody else can have it between two steps.
Sleep(b) ==
  /\ Goes(b, "sleep", "asleep")
  /\ headlock' = [headlock EXCEPT ![b] = FALSE]
  /\ KeepsBuffer /\ KeepsRest

SpuriousWakeup(b) ==
  /\ "spurious" \in Faults
  /\ Goes(b, "asleep", "woken")
  /\ KeepsBuffer /\ KeepsRest /\ UNCHANGED headlock

\* The wait returns with the mutex, which the loop gives up at once.
WokeUp(b) ==
  /\ Goes(b, "woken", "check")
  /\ ~headlock[b]
  /\ KeepsBuffer /\ KeepsRest /\ UNCHANGED headlock

\* savedif is an int, diff an unsigned long.
AsInt(x) == IF 2 * (x % INT) < INT THEN x % INT ELSE (x % INT) - INT

StartWork(b) ==
  /\ pc[b] = "work"
  /\ IF diff[b] > 0 /\ running[b]
     THEN /\ savedif' = [savedif EXCEPT ![b] = AsInt(diff[b])]
          /\ pc' = [pc EXCEPT ![b] = "acquire"]
     ELSE /\ pc' = [pc EXCEPT ![b] = "top"]
          /\ UNCHANGED savedif
  /\ KeepsBuffer
  /\ UNCHANGED <<receiver, headlock, stopping, points, index, backend>>

-----------------------------------------------------------------------------
(* write_buffer: taking a recording point                                   *)

\* get_free on diskbranch: check_if_suitable refuses full recording points.
Fit(d) == disklist[d] = "free" /\ d \notin full

\* Mutant: the next recording point is given the rest only.
RetryWhereItStopped(b) ==
  /\ diff' = [diff EXCEPT ![b] = savedif[b] % ULONG]
  /\ pc' = [pc EXCEPT ![b] = IF running'[b] THEN "acquire" ELSE "top"]
  /\ UNCHANGED bufoffset

\* The write failed: the loop sets diff and bufoffset back and tries again
\* unless the thread was stopped.
Retry(b) ==
  /\ diff' = [diff EXCEPT ![b] = savedif[b] % ULONG]
  /\ bufoffset' = [bufoffset EXCEPT ![b] = 0]
  /\ pc' = [pc EXCEPT ![b] = IF running'[b] THEN "acquire" ELSE "top"]

\* add_file_mutexfree: n_files moves by one, whatever the number of the file.
AddFile(f, d) ==
  /\ n_files' = IF n_files > f THEN n_files ELSE n_files + 1
  /\ diskid' = [diskid EXCEPT ![f] = d]
  /\ status' = [status EXCEPT ![f] = FH_INMEM \cup {"BUSY"}]

\* common_open_new_file, afi_add_file and the start of the write loop.
OpenFile(b, d) ==
  /\ Goes(b, "acquire", "write")
  /\ Fit(d)
  /\ disklist' = [disklist EXCEPT ![d] = "busy"]
  /\ offset' = [offset EXCEPT ![d] = 0]
  /\ recer' = [recer EXCEPT ![b] = d]
  /\ asyncdiff' = [asyncdiff EXCEPT ![b] = IF backend = "aio" THEN diff[b] ELSE @]
  /\ AddFile(fileid[b], d)
  /\ UNCHANGED <<receiver, list, fileid, diff, bufoffset, ready_to_act, running, headlock>>
  /\ UNCHANGED <<savedif, stopping, full, inflight, disk, backend>>

\* Mutant: a broken recording point stays in the branch.
HandleErrorKeeps(d, isFull) ==
  /\ full' = IF isFull THEN full \cup {d} ELSE full
  /\ inflight' = [inflight EXCEPT ![d] = {}]
  /\ UNCHANGED disklist

\* handle_error: a full disk is set aside and comes back to the branch, any other
\* error takes the recording point out of it.
HandleError(d, isFull) ==
  IF isFull
  THEN /\ full' = full \cup {d}
       /\ disklist' = [disklist EXCEPT ![d] = "free"]
       /\ UNCHANGED inflight
  ELSE /\ disklist' = [disklist EXCEPT ![d] = "removed"]
       /\ inflight' = [inflight EXCEPT ![d] = {}]
       /\ UNCHANGED full

\* The file cannot be opened, or its directory not be made for want of space.
OpenFails(b, d) ==
  /\ pc[b] = "acquire"
  /\ Fit(d)
  /\ \/ "open" \in Faults /\ HandleError(d, FALSE)
     \/ "mkdir" \in Faults /\ HandleError(d, TRUE)
  /\ UNCHANGED running
  /\ Retry(b)
  /\ UNCHANGED <<receiver, list, fileid, ready_to_act, headlock, recer, asyncdiff>>
  /\ UNCHANGED <<savedif, stopping, offset, disk, index, backend>>

\* Mutant: busylist is not looked at.
NoRecPointFree(b) ==
  /\ pc[b] = "acquire"
  /\ \A d \in Disks : ~Fit(d)
  /\ running' = [running EXCEPT ![b] = FALSE]
  /\ list' = [list EXCEPT ![b] = "removed"]
  /\ Retry(b)
  /\ UNCHANGED <<receiver, fileid, ready_to_act, headlock, recer, asyncdiff>>
  /\ UNCHANGED <<savedif, stopping, points, index, backend>>

\* get_free returns NULL: nothing fits and nobody will bring one back.
NoRecPoint(b) ==
  /\ pc[b] = "acquire"
  /\ \A d \in Disks : ~Fit(d) /\ disklist[d] # "busy"
  /\ running' = [running EXCEPT ![b] = FALSE]
  /\ list' = [list EXCEPT ![b] = "removed"]
  /\ Retry(b)
  /\ UNCHANGED <<receiver, fileid, ready_to_act, headlock, recer, asyncdiff>>
  /\ UNCHANGED <<savedif, stopping, points, index, backend>>

-----------------------------------------------------------------------------
(* simple_write_bytes and simple_end_transaction                            *)

\* Mutant: a last, shorter write is not told from the others.
CountLimit(b) == Limit

Count(b) == IF diff[b] < Limit THEN diff[b] ELSE Limit

\* A last, shorter write is padded to whole blocks.
Padded(n) == ((n + BLOCK_ALIGN - 1) \div BLOCK_ALIGN) * BLOCK_ALIGN

\* n units of the buffer are in the file.
Lands(d, f, at, from, n) ==
  disk' = [disk EXCEPT ![d][f] = @ \cup {<<at + i, from + i>> : i \in 0..(n - 1)}]

\* What the write loop does next: the synchronous one is done once diff is zero.
AfterWrite(left) ==
  CASE backend = "aio" -> "poll"
    [] backend = "def" /\ left = 0 -> "release"
    [] OTHER -> "write"

\* def_write writes it all; aio_write submits it.
WriteBytes(b) ==
  LET d == recer[b]
      n == Padded(Count(b))
  IN /\ pc[b] = "write"
     /\ IF backend = "aio"
        THEN /\ inflight' = [inflight EXCEPT ![d] =
                  @ \cup {[at |-> offset[d], from |-> bufoffset[b], count |-> n, lost |-> FALSE]}]
             /\ UNCHANGED disk
        ELSE /\ Lands(d, fileid[b], offset[d], bufoffset[b], n)
             /\ UNCHANGED inflight
     /\ offset' = [offset EXCEPT ![d] = @ + n]
     /\ diff' = [diff EXCEPT ![b] = @ - Count(b)]
     /\ bufoffset' = [bufoffset EXCEPT ![b] = @ + Count(b)]
     /\ pc' = [pc EXCEPT ![b] = AfterWrite(diff[b] - Count(b))]
     /\ UNCHANGED <<receiver, list, fileid, ready_to_act, running, headlock, recer, asyncdiff>>
     /\ UNCHANGED <<savedif, stopping, disklist, full, index, backend>>

\* def_write gives up after i units, aiow_write cannot submit: both return -1, which
\* is EOF, and diff becomes zero.
WriteError(b) ==
  /\ "write" \in Faults
  /\ pc[b] = "write"
  /\ \E i \in 0..(IF backend = "aio" THEN 0 ELSE Count(b) - 1) :
       /\ Lands(recer[b], fileid[b], offset[recer[b]], bufoffset[b], i)
       /\ offset' = [offset EXCEPT ![recer[b]] = @ + i]
  /\ diff' = [diff EXCEPT ![b] = 0]
  /\ pc' = [pc EXCEPT ![b] = AfterWrite(0)]
  /\ UNCHANGED <<receiver, list, fileid, bufoffset, ready_to_act, running, headlock, recer, asyncdiff>>
  /\ UNCHANGED <<savedif, stopping, disklist, full, inflight, index, backend>>

\* sbuf_async_loop after sbuf_check: it ends only when asyncdiff is exactly zero.
AfterPoll(b) ==
  CASE asyncdiff'[b] = 0 -> "release"
    [] asyncdiff'[b] # 0 /\ diff[b] > 0 -> "write"
    [] OTHER -> "poll"

\* The writes that io_getevents may still report.
Pending(d) == {r \in inflight[d] : ~r.lost}

\* What a write that wrote m units leaves out.
Rest(r, m) ==
  IF m = r.count THEN {}
  ELSE {[at |-> r.at + m, from |-> r.from + m, count |-> r.count - m, lost |-> TRUE]}

\* sbuf_check finds that r wrote m units, and counts those.
Reported(b, r, m) ==
  /\ inflight' = [inflight EXCEPT ![recer[b]] = (@ \ {r}) \cup Rest(r, m)]
  /\ Lands(recer[b], fileid[b], r.at, r.from, m)
  /\ asyncdiff' = [asyncdiff EXCEPT ![b] = (@ - m) % ULONG]
  /\ pc' = [pc EXCEPT ![b] = AfterPoll(b)]
  /\ UNCHANGED <<receiver, list, fileid, diff, bufoffset, ready_to_act, running, headlock, recer>>
  /\ UNCHANGED <<savedif, stopping, disklist, full, offset, index, backend>>

\* A write is complete.
EventDone(b) ==
  /\ pc[b] = "poll"
  /\ \E r \in Pending(recer[b]) : Reported(b, r, r.count)

\* A write came back short, by whole blocks, as the file is open for direct writes.
EventShort(b) ==
  /\ "short" \in Faults
  /\ pc[b] = "poll"
  /\ \E r \in Pending(recer[b]) : \E m \in 1..(r.count - 1) :
       m % BLOCK_ALIGN = 0 /\ Reported(b, r, m)

\* sbuf_check finds nothing: the loop goes on writing, or looks again.
NoEvent(b) ==
  /\ Goes(b, "poll", "write")
  /\ diff[b] > 0
  /\ KeepsBuffer /\ KeepsRest /\ UNCHANGED headlock

\* sbuf_check finds a write that failed: close_recer, and the file is begun anew.
EventError(b) ==
  /\ "event" \in Faults
  /\ pc[b] = "poll"
  /\ Pending(recer[b]) # {}
  /\ HandleError(recer[b], FALSE)
  /\ recer' = [recer EXCEPT ![b] = None]
  /\ UNCHANGED running
  /\ Retry(b)
  /\ UNCHANGED <<receiver, list, fileid, ready_to_act, headlock, asyncdiff>>
  /\ UNCHANGED <<savedif, stopping, offset, disk, index, backend>>

-----------------------------------------------------------------------------
(* The end of write_buffer and of the write loop                            *)

\* set_free on diskbranch and common_finish_file.
ReleaseRec(b) ==
  /\ Goes(b, "release", "mark")
  /\ disklist' = [disklist EXCEPT ![recer[b]] = "free"]
  /\ recer' = [recer EXCEPT ![b] = None]
  /\ UNCHANGED <<receiver, list, fileid, diff, bufoffset, ready_to_act, running, headlock, asyncdiff>>
  /\ UNCHANGED <<savedif, stopping, full, offset, inflight, disk, index, backend>>

\* afi_update_fh, twice.
MarkWritten(b) ==
  /\ Goes(b, "mark", "done")
  /\ status' = [status EXCEPT ![fileid[b]] = (@ \ {"BUSY"}) \cup {"ONDISK"}]
  /\ KeepsBuffer
  /\ UNCHANGED <<receiver, headlock, savedif, stopping, points, diskid, n_files, backend>>

\* set_free on membranch with sbuf_release, under headlock.
FreeBuffer(b) ==
  /\ Goes(b, "done", "freed")
  /\ ~headlock[b]
  /\ headlock' = [headlock EXCEPT ![b] = TRUE]
  /\ list' = [list EXCEPT ![b] = "free"]
  /\ diff' = [diff EXCEPT ![b] = 0]
  /\ UNCHANGED <<receiver, fileid, bufoffset, ready_to_act, running, recer, asyncdiff>>
  /\ UNCHANGED <<savedif, stopping, points, index, backend>>

\* Mutant: ready_to_act is left as it was.
ClearReadyForgotten(b) ==
  /\ Goes(b, "freed", "top")
  /\ headlock' = [headlock EXCEPT ![b] = FALSE]
  /\ UNCHANGED <<receiver, list, fileid, diff, bufoffset, ready_to_act, running, recer, asyncdiff>>
  /\ UNCHANGED <<savedif, stopping, points, index, backend>>

ClearReady(b) ==
  /\ Goes(b, "freed", "top")
  /\ ready_to_act' = [ready_to_act EXCEPT ![b] = FALSE]
  /\ headlock' = [headlock EXCEPT ![b] = FALSE]
  /\ UNCHANGED <<receiver, list, fileid, diff, bufoffset, running, recer, asyncdiff>>
  /\ UNCHANGED <<savedif, stopping, points, index, backend>>

-----------------------------------------------------------------------------
(* close_rbufs: the threads are stopped once no session uses the buffers    *)

Ended == ~receiving /\ filling = <<>> /\ On("busy") = {}

\* sbuf_stop_running, one buffer after another: the flag is set without the mutex.
FlagStop(b) ==
  /\ Ended
  /\ list[b] # "removed"
  /\ stopping[b] = "no"
  /\ \A c \in Buffers : stopping[c] # "flagged"
  /\ stopping' = [stopping EXCEPT ![b] = "flagged"]
  /\ running' = [running EXCEPT ![b] = FALSE]
  /\ UNCHANGED <<receiver, list, fileid, diff, bufoffset, ready_to_act, headlock, recer, asyncdiff>>
  /\ UNCHANGED <<pc, savedif, points, index, backend>>

SignalStop(b) ==
  /\ stopping[b] = "flagged"
  /\ ~headlock[b]
  /\ stopping' = [stopping EXCEPT ![b] = "signalled"]
  /\ Wake(b)
  /\ KeepsBuffer
  /\ UNCHANGED <<receiver, headlock, savedif, points, index, backend>>

-----------------------------------------------------------------------------

\* A thread's own code, with what its recording point answers.
Continue(b) ==
  \/ LoopTop(b) \/ LockHead(b) \/ CheckReady(b) \/ Sleep(b) \/ WokeUp(b) \/ StartWork(b)
  \/ \E d \in Disks : OpenFile(b, d) \/ OpenFails(b, d)
  \/ NoRecPoint(b)
  \/ WriteBytes(b) \/ WriteError(b)
  \/ EventDone(b) \/ EventShort(b) \/ NoEvent(b) \/ EventError(b)
  \/ ReleaseRec(b) \/ MarkWritten(b) \/ FreeBuffer(b) \/ ClearReady(b)

Receive ==
  \/ \E b \in Buffers : Take(b)
  \/ NoBuffer
  \/ StopReceiving

PassOn ==
  \/ \E i \in 1..2, n \in LastSizes \cup {BufSize} : Fill(i, n)
  \/ HandOver
  \/ CancelWritebuf

Stop == \E b \in Buffers : FlagStop(b) \/ SignalStop(b)

Next ==
  \/ Receive
  \/ PassOn
  \/ Stop
  \/ \E b \in Buffers : Continue(b) \/ SpuriousWakeup(b)

\* Threads keep running; a recording ends, by its time or by shutdown_thread; its
\* receiver then passes on what it has; and the daemon is shut down at last.
Fairness ==
  /\ \A b \in Buffers : WF_vars(Continue(b))
  /\ WF_vars(StopReceiving)
  /\ WF_vars(~receiving /\ PassOn)
  /\ WF_vars(Stop)

Spec == Init /\ [][Next]_vars /\ Fairness

-----------------------------------------------------------------------------
(* Properties                                                               *)

Working == {"acquire", "write", "poll", "release", "mark", "done"}

\* The bytes that were handed over are in the file, each at its place.
Whole(d, f) == \A i \in 0..(given[f] - 1) : <<i, i>> \in disk[d][f]

SaysWritten(f) == "ONDISK" \in status[f] /\ "BUSY" \notin status[f]

\* The loop frees a buffer and reports its file on disk only once every byte is
\* there, at its place, on the recording point the index names: also when earlier
\* attempts at it failed (simplebuffer.c:842-890).
WrittenWhole ==
  \A f \in Files : SaysWritten(f) => diskid[f] \in Disks /\ Whole(diskid[f], f)

\* While a thread writes its buffer nobody else has it, and it was handed over with
\* something in it; a receiver never fills what is still being written.
WriterAlone ==
  \A b \in Buffers :
    pc[b] \in Working =>
      /\ list[b] = "busy"
      /\ ready_to_act[b]
      /\ \A i \in DOMAIN filling : filling[i] # b

\* A recording point is busy exactly while one thread has it as its recer
\* (get_free at simplebuffer.c:729, set_free at 796, close_recer at 419).
RecerAccounted ==
  \A d \in Disks :
    /\ disklist[d] = "busy" <=> \E b \in Buffers : recer[b] = d
    /\ \A b, c \in Buffers : recer[b] = d /\ recer[c] = d => b = c

\* What the loop leaves behind: a file stored whole, or no recording point to
\* take it (simplebuffer.c:633-890).
Fate(f) ==
  IF SaysWritten(f) /\ Whole(diskid[f], f) THEN "stored"
  ELSE IF \E b \in On("removed") : fileid[b] = f THEN "lost"
  ELSE IF given[f] > 0 THEN "pending" ELSE "none"

Promise == INSTANCE Archive WITH
  Points <- Disks,
  fate <- [f \in Files |-> Fate(f)],
  usable <- {d \in Disks : disklist[d] # "removed" /\ d \notin full}

StoresFiles == Promise!Spec

\* The ways a thread hangs: it went to work without having slept, so it still has
\* the headlock it now wants, or it ended with it; or it polls for writes although
\* none is under way, as one was not submitted or came back short or the padding of the
\* last took asyncdiff past zero.
Hung(b) ==
  \/ headlock[b] /\ pc[b] \in {"lock", "done", "exited"}
  \/ pc[b] = "poll" /\ diff[b] = 0 /\ Pending(recer[b]) = {}

\* A buffer that was handed over is given back or taken out of the branch, unless a
\* thread hangs in one of these ways.
HandedOverIsFinished ==
  \A b \in Buffers :
    ready_to_act[b] ~> (list[b] # "busy" \/ \E c \in Buffers : Hung(c))

\* sbuf_stop_running ends every thread (simplebuffer.c:911-919), unless one hangs.
ThreadsEnd ==
  <>((\A b \in Buffers : pc[b] = "exited") \/ (\E c \in Buffers : Hung(c)))
=============================================================================
