----------------------------- MODULE TcpStream ------------------------------
(***************************************************************************)
(* The TCP receivers of src/src/tcp_stream.c.  One stream is received by   *)
(* the session's own thread (loop_with_recv, loop_with_splice); a          *)
(* multistream recording is striped over Mult connections, each with a     *)
(* thread of its own, and its packet n travels on stream n % Mult.  The    *)
(* threads fill the same buffer together and meet the session's thread at  *)
(* a barrier before it changes the buffer.                                 *)
(*                                                                         *)
(* A byte is a pair of its stream and its place in that stream.  Buffers   *)
(* are numbered as get_free (ResourceTree) hands them out.  A thread holds *)
(* recv_mutex and mainthread_mutex only inside one step, except where it   *)
(* sleeps.                                                                 *)
(***************************************************************************)
EXTENDS Integers, FiniteSets, Functions, Sequences

CONSTANTS
  Mult,        \* stream_multiply
  Elems,       \* buf_num_elems
  PacketSize,  \* packet_size
  Loops,       \* the optbits' LOCKER_CAPTURE: "recv", "splice", "multi"
  Sendings,    \* how many bytes each stream may carry: functions over Streams
  Endings,     \* what follows its last byte: "close", "error", "stall"
  Faults       \* what may fail: "setup", "accept", "create"

Streams == 0..(Mult - 1)
BufSize == Elems * PacketSize
Places == 0..(BufSize - 1)

ASSUME ConstantsAssumption ==
  /\ Mult \in Nat \ {0} /\ Elems \in Nat \ {0} /\ PacketSize \in Nat \ {0}
  /\ Loops \subseteq {"recv", "splice", "multi"}
  /\ Sendings \subseteq [Streams -> Nat]
  /\ Endings \subseteq {"close", "error", "stall"}
  /\ Faults \subseteq {"setup", "accept", "create"}

\* With fewer packets in a buffer than streams max_packets wraps around.
ASSUME StripeAssumption == Elems >= Mult

VARIABLES
  loop, sent, ending,       \* which loop runs, and what its senders do
  taken,                    \* bytes received of each stream
  status, stopped,          \* of the session, and whether stop_streamer was called
  listening, fd,            \* spec_ops->fd is open; td[i].fd, or tcp_fd
  \* the session's thread
  pc, be, inc,              \* se->be (0 is NULL) and *buf_incrementer
  total_packets, n_packets, \* opt->total_packets and fi->n_packets
  \* struct multistream_currentbufdata
  start_remainder, end_remainder, threads_ready, active_threads,
  \* struct multistream_recv_data and the locals of its thread
  tpc, tstatus, tbuf, bytes_received, spot, max_packets, packets_ready, offset, read,
  \* the buffers
  content, handed           \* what each holds, and how much of it was handed over

environment == <<loop, sent, ending>>
session == <<status, stopped, listening>>
counts == <<total_packets, n_packets>>
barrier == <<start_remainder, end_remainder, threads_ready, active_threads>>
locals == <<spot, max_packets, packets_ready, offset, read>>
thread == <<tpc, tstatus, tbuf, bytes_received, locals>>
buffers == <<content, handed>>
vars == <<environment, taken, session, fd, pc, be, inc, counts, barrier, thread, buffers>>

Running == status = "RUNNING"
KEEP == "KEEP_RUNNING"
FULL == "ALL_FULL"
FromStreams(v) == [s \in Streams |-> v]

\* memset and the defaults of setup_tcp_socket; the daemon has set RUNNING.
Init ==
  /\ loop \in Loops /\ sent \in Sendings /\ ending \in [Streams -> Endings]
  /\ taken = FromStreams(0)
  /\ status = "RUNNING" /\ stopped = FALSE
  /\ listening = FALSE /\ fd = FromStreams("none")
  /\ pc = "setup" /\ be = 0 /\ inc = 0
  /\ total_packets = 0 /\ n_packets = 0
  /\ start_remainder = 0 /\ end_remainder = 0 /\ threads_ready = 0 /\ active_threads = Mult
  /\ tpc = FromStreams("none") /\ tstatus = FromStreams({}) /\ tbuf = FromStreams(0)
  /\ bytes_received = FromStreams(0)
  /\ spot = FromStreams(0) /\ max_packets = FromStreams(0) /\ packets_ready = FromStreams(0)
  /\ offset = FromStreams(0) /\ read = FromStreams({})
  /\ content = <<>> /\ handed = <<>>

-----------------------------------------------------------------------------
(* Sockets and buffers                                                       *)

\* create_socket: the first address that gives a socket and can be bound wins; an
\* address that fails leaves -1 for the next one to replace.
create_socket(addresses) ==
  IF "bound" \in Range(addresses) THEN "open" ELSE "none"

\* setup_tcp_socket: without a bound socket or listen the session never starts.
Setup ==
  /\ pc = "setup"
  /\ \E addresses \in {<<"bound">>, <<"refused", "bound">>}
                        \cup (IF "setup" \in Faults THEN {<<"refused">>} ELSE {}) :
       IF create_socket(addresses) = "open"
       THEN listening' = TRUE /\ pc' = IF loop = "splice" THEN "get_first" ELSE "accept"
       ELSE listening' = FALSE /\ pc' = "exited"
  /\ UNCHANGED <<environment, taken, status, stopped, fd, be, inc, counts, barrier, thread,
                 buffers>>

Connections == IF loop = "multi" THEN Streams ELSE {0}

\* tcp_preloop: the connections are accepted one after the other until the
\* listening socket is closed; a splice session accepts none.
Accept ==
  /\ pc = "accept"
  /\ \E s \in Connections :
       /\ \A r \in Connections : fd[r] = "none" <=> r >= s
       /\ listening
       /\ fd' = [fd EXCEPT ![s] = "open"]
       /\ pc' = IF s + 1 \in Connections THEN "accept" ELSE "get_first"
  /\ UNCHANGED <<environment, taken, session, be, inc, counts, barrier, thread, buffers>>

AcceptFails ==
  /\ pc = "accept"
  /\ ~listening \/ "accept" \in Faults
  /\ listening' = FALSE /\ status' = "ERROR" /\ pc' = "exited"
  /\ UNCHANGED <<environment, taken, stopped, fd, be, inc, counts, barrier, thread, buffers>>

\* The multistream loop tests spec_ops->fd before it accepts again, and goes on.
AcceptedEnough ==
  /\ pc = "accept" /\ loop = "multi" /\ ~listening
  /\ pc' = "get_first"
  /\ UNCHANGED <<environment, taken, session, fd, be, inc, counts, barrier, thread, buffers>>

\* stop_streamer, called by the daemon or at the end of the recording time.
stop_streamer ==
  /\ Running /\ pc \notin {"setup", "exited", "done", "crashed"}
  /\ status' = "STOPPED" /\ stopped' = TRUE /\ listening' = FALSE
  /\ UNCHANGED <<environment, taken, fd, pc, be, inc, counts, barrier, thread, buffers>>

\* get_free and simple_get_writebuf: a buffer whose bytes mean nothing yet.
TakeBuffer ==
  /\ content' = Append(content, [p \in Places |-> <<>>])
  /\ handed' = Append(handed, 0)
  /\ be' = Len(content) + 1
  /\ inc' = 0

\* get_free wakes up after the session was stopped, and returns NULL.
Refused == ~Running /\ be' = 0 /\ UNCHANGED <<inc, buffers>>

GetFirst ==
  /\ pc = "get_first"
  /\ \/ TakeBuffer /\ pc' = IF loop = "multi" THEN "create" ELSE "single"
     \/ Refused /\ pc' = IF loop = "multi" THEN "join" ELSE "exited"
  /\ UNCHANGED <<environment, taken, session, fd, counts, barrier, thread>>

\* change_buffer, up to its get_free: the buffer goes to its writer.
ChangeBuffer ==
  /\ pc = "change"
  /\ handed' = [handed EXCEPT ![be] = inc]
  /\ total_packets' = total_packets + Elems
  /\ n_packets' = n_packets + Elems
  /\ pc' = "regain"
  /\ UNCHANGED <<environment, taken, session, fd, be, inc, barrier, thread, content>>

\* change_buffer from its get_free on.  Refused a buffer, buf_incrementer still
\* points into the one that was handed over.
Regain ==
  /\ pc = "regain"
  /\ \/ TakeBuffer /\ pc' = IF loop = "multi" THEN "release" ELSE "single"
     \/ Refused /\ pc' = IF loop = "multi" THEN "rundown" ELSE "finish"
  /\ UNCHANGED <<environment, taken, session, fd, counts, barrier, thread>>

-----------------------------------------------------------------------------
(* Receiving                                                                 *)

\* What recv may return for a stream with room for so many bytes: a part of what
\* was sent, 0 at its end or after a shutdown, or -1.
recv(s, room) ==
  IF fd[s] = "none" THEN {-1}
  ELSE LET left == sent[s] - taken[s] IN
       (IF left > 0 THEN {1, IF left < room THEN left ELSE room} ELSE {})
         \cup (IF left = 0 /\ ending[s] = "close" THEN {0} ELSE {})
         \cup (IF left = 0 /\ ending[s] = "error" THEN {-1} ELSE {})
         \cup (IF fd[s] = "closed" THEN {0, -1} ELSE {})

\* The next n bytes of a stream are written into a buffer from a place on.
Store(s, n, b, place) ==
  /\ taken' = [taken EXCEPT ![s] = @ + n]
  /\ content' = [content EXCEPT ![b] =
       [p \in Places |-> IF p \in place..(place + n - 1)
                         THEN <<s, taken[s] + p - place>> ELSE @[p]]]

\* The loop of loop_with_recv and loop_with_splice, up to the call.
Single ==
  /\ pc = "single"
  /\ pc' = IF Running THEN "recv" ELSE "finish"
  /\ UNCHANGED <<environment, taken, session, fd, be, inc, counts, barrier, thread, buffers>>

SingleRecv ==
  /\ pc = "recv"
  /\ \E n \in recv(0, BufSize - inc) :
       IF n > 0
       THEN /\ Store(0, n, be, inc)
            /\ inc' = inc + n
            /\ pc' = IF inc' = BufSize THEN "change" ELSE "single"
       ELSE pc' = "finish" /\ UNCHANGED <<taken, inc, content>>
  /\ UNCHANGED <<environment, session, fd, be, counts, barrier, thread, handed>>

\* threaded_multistream, at the top of its loop.
Top(s) ==
  /\ tpc[s] = "top"
  /\ tpc' = [tpc EXCEPT ![s] = IF KEEP \in tstatus[s] THEN "lock" ELSE "exit"]
  /\ UNCHANGED <<environment, taken, session, fd, pc, be, inc, counts, barrier, tstatus, tbuf,
                 bytes_received, locals, buffers>>

\* Under recv_mutex: it sleeps on recv_cond as long as it is full.
Lock(s) ==
  /\ tpc[s] = "lock"
  /\ tpc' = [tpc EXCEPT ![s] = IF FULL \in tstatus[s] THEN "sleep"
                               ELSE IF KEEP \in tstatus[s] THEN "begin" ELSE "exit"]
  /\ UNCHANGED <<environment, taken, session, fd, pc, be, inc, counts, barrier, tstatus, tbuf,
                 bytes_received, locals, buffers>>

\* Mutant: the streams keep their places in every buffer.
SameSpot(s, start) == s

\* correct_bufspot: the first place of the stream, counted in packets.
correct_bufspot(s, start) == IF s >= start THEN s - start ELSE s + (Mult - start)

\* Mutant: the streams in the row that ends the buffer get no packet more.
PacketsWithoutRemainder(s, start, end) ==
  ((Elems - ((Mult - start) + end)) \div Mult) + (IF s >= start THEN 1 ELSE 0)

\* max_packets: the whole rows of Mult packets, and one more in the rows that
\* begin and end the buffer for the streams that are in them.
packets_of(s, start, end) ==
  ((Elems - ((Mult - start) + end)) \div Mult)
    + (IF s >= start THEN 1 ELSE 0) + (IF s < end THEN 1 ELSE 0)

\* The remainders are read without a lock.
Begin(s) ==
  /\ tpc[s] = "begin"
  /\ spot' = [spot EXCEPT ![s] = correct_bufspot(s, start_remainder)]
  /\ max_packets' = [max_packets EXCEPT ![s] = packets_of(s, start_remainder, end_remainder)]
  /\ packets_ready' = [packets_ready EXCEPT ![s] = 0]
  /\ offset' = [offset EXCEPT ![s] = 0]
  /\ tpc' = [tpc EXCEPT ![s] = "check"]
  /\ UNCHANGED <<environment, taken, session, fd, pc, be, inc, counts, barrier, tstatus, tbuf,
                 bytes_received, read, buffers>>

\* The condition of its inner loop, and bytes_received after it.
Check(s) ==
  /\ tpc[s] = "check"
  /\ IF packets_ready[s] < max_packets[s] /\ KEEP \in tstatus[s]
     THEN tpc' = [tpc EXCEPT ![s] = "recv"] /\ UNCHANGED bytes_received
     ELSE /\ tpc' = [tpc EXCEPT ![s] = "report"]
          /\ bytes_received' = [bytes_received EXCEPT ![s] = PacketSize * packets_ready[s]]
  /\ UNCHANGED <<environment, taken, session, fd, pc, be, inc, counts, barrier, tstatus, tbuf,
                 locals, buffers>>

\* recv returned bytes: the next packet of the stream is Mult places further on.
Recv(s) ==
  /\ tpc[s] = "recv"
  /\ \E n \in recv(s, PacketSize - offset[s]) :
       /\ n > 0
       /\ Store(s, n, tbuf[s], spot[s] * PacketSize + offset[s])
       /\ IF offset[s] + n >= PacketSize
          THEN /\ packets_ready' = [packets_ready EXCEPT ![s] = @ + 1]
               /\ spot' = [spot EXCEPT ![s] = @ + Mult]
               /\ offset' = [offset EXCEPT ![s] = 0]
          ELSE /\ offset' = [offset EXCEPT ![s] = @ + n]
               /\ UNCHANGED <<packets_ready, spot>>
  /\ tpc' = [tpc EXCEPT ![s] = "check"]
  /\ UNCHANGED <<environment, session, fd, pc, be, inc, counts, barrier, tstatus, tbuf,
                 bytes_received, max_packets, read, handed>>

\* recv returned 0 or -1: whatever the status was, it is replaced.
RecvEnds(s) ==
  /\ tpc[s] = "recv"
  /\ \E n \in recv(s, PacketSize - offset[s]) :
       /\ n <= 0
       /\ tstatus' = [tstatus EXCEPT ![s] = IF n = 0 THEN {"CLEAN_EXIT"} ELSE {"ERROR"}]
  /\ bytes_received' = [bytes_received EXCEPT ![s] = PacketSize * packets_ready[s]]
  /\ tpc' = [tpc EXCEPT ![s] = "report"]
  /\ UNCHANGED <<environment, taken, session, fd, pc, be, inc, counts, barrier, tbuf, locals,
                 buffers>>

\* Under mainthread_mutex, which the rundown does not take: status |= ALL_FULL
\* reads the status ...
Report(s) ==
  /\ tpc[s] = "report"
  /\ read' = [read EXCEPT ![s] = tstatus[s]]
  /\ tpc' = [tpc EXCEPT ![s] = "signal"]
  /\ UNCHANGED <<environment, taken, session, fd, pc, be, inc, counts, barrier, tstatus, tbuf,
                 bytes_received, spot, max_packets, packets_ready, offset, buffers>>

\* ... and writes it back, before the thread counts itself.
Signal(s) ==
  /\ tpc[s] = "signal"
  /\ tstatus' = [tstatus EXCEPT ![s] =
       IF packets_ready[s] = max_packets[s] THEN read[s] \cup {FULL} ELSE @]
  /\ threads_ready' = threads_ready + 1
  /\ read' = [read EXCEPT ![s] = {}]
  /\ tpc' = [tpc EXCEPT ![s] = "top"]
  /\ UNCHANGED <<environment, taken, session, fd, pc, be, inc, counts, start_remainder,
                 end_remainder, active_threads, tbuf, bytes_received, spot, max_packets,
                 packets_ready, offset, buffers>>

-----------------------------------------------------------------------------
(* The session's thread of a multistream recording                           *)

\* loop_with_threaded_multistream_recv, up to its main loop: as many threads as
\* pthread_create makes; if one is missing it returns -1, and the others stay.
CreateThreads ==
  /\ pc = "create"
  /\ end_remainder' = Elems % Mult /\ start_remainder' = 0
  /\ \E n \in IF "create" \in Faults THEN 0..Mult ELSE {Mult} :
       /\ tpc' = [s \in Streams |-> IF s < n THEN "top" ELSE "none"]
       /\ tstatus' = [s \in Streams |-> IF s < n THEN {KEEP} ELSE {}]
       /\ tbuf' = [s \in Streams |-> IF s < n THEN be ELSE 0]
       /\ pc' = IF n = Mult THEN "loop" ELSE "join"
  /\ UNCHANGED <<environment, taken, session, fd, be, inc, counts, threads_ready,
                 active_threads, bytes_received, locals, buffers>>

MainLoop ==
  /\ pc = "loop"
  /\ pc' = IF Running /\ active_threads > 0 THEN "await" ELSE "rundown"
  /\ UNCHANGED <<environment, taken, session, fd, be, inc, counts, barrier, thread, buffers>>

\* The streams the for loop comes to: all, or those up to the first error.
Visited == {s \in Streams : \A r \in 0..(s - 1) : "ERROR" \notin tstatus[r]}
Ended(flag) == {s \in Visited : flag \in tstatus[s]}

\* The sum of what the streams report, counted byte by byte.
Reported(streams) ==
  Cardinality({byte \in streams \X (1..BufSize) : byte[2] <= bytes_received[byte[1]]})

\* Mutant: the buffer is collected when one thread may still be receiving.
CollectEarly ==
  /\ pc = "await"
  /\ threads_ready >= active_threads - 1
  /\ \A s \in Ended("CLEAN_EXIT") \cup Ended("ERROR") : tpc[s] = "exit"
  /\ inc' = BufSize /\ pc' = "change"
  /\ start_remainder' = end_remainder
  /\ end_remainder' = (Elems - (Mult - end_remainder)) % Mult
  /\ UNCHANGED <<environment, taken, session, fd, be, counts, threads_ready, active_threads,
                 thread, buffers>>

\* All active threads are ready: their bytes are counted and those that ended
\* are joined.  Only a full buffer leads on to the next.
Collect ==
  /\ pc = "await"
  /\ threads_ready >= active_threads
  /\ \A s \in Ended("CLEAN_EXIT") \cup Ended("ERROR") : tpc[s] = "exit"
  /\ inc' = inc + Reported(Visited)
  /\ bytes_received' = [s \in Streams |-> IF s \in Visited THEN 0 ELSE bytes_received[s]]
  /\ active_threads' = IF Ended("ERROR") # {} THEN 0
                       ELSE active_threads - Cardinality(Ended("CLEAN_EXIT"))
  /\ IF active_threads' = 0 \/ inc' # BufSize
     THEN pc' = "rundown" /\ UNCHANGED <<start_remainder, end_remainder>>
     ELSE /\ pc' = "change"
          /\ start_remainder' = end_remainder
          /\ end_remainder' = (Elems - (Mult - end_remainder)) % Mult
  /\ UNCHANGED <<environment, taken, session, fd, be, counts, threads_ready, tpc, tstatus,
                 tbuf, locals, buffers>>

\* Mutant: recv_cond is not signalled.
BroadcastForgotten == tpc

Broadcast == [s \in Streams |-> IF tpc[s] = "sleep" THEN "lock" ELSE tpc[s]]

\* Mutant: threads_ready_or_err is not reset.
ReleaseWithoutReset ==
  /\ pc = "release"
  /\ tbuf' = FromStreams(be)
  /\ tstatus' = [s \in Streams |-> IF KEEP \in tstatus[s] THEN {KEEP} ELSE tstatus[s]]
  /\ tpc' = Broadcast
  /\ pc' = "loop"
  /\ UNCHANGED <<environment, taken, session, fd, be, inc, counts, barrier, bytes_received,
                 locals, buffers>>

\* Under recv_mutex: the threads get the new buffer and lose ALL_FULL.
Release ==
  /\ pc = "release"
  /\ tbuf' = FromStreams(be)
  /\ tstatus' = [s \in Streams |-> IF KEEP \in tstatus[s] THEN {KEEP} ELSE tstatus[s]]
  /\ tpc' = Broadcast
  /\ threads_ready' = 0
  /\ pc' = "loop"
  /\ UNCHANGED <<environment, taken, session, fd, be, inc, counts, start_remainder,
                 end_remainder, active_threads, bytes_received, locals, buffers>>

\* Under recv_mutex: the threads are told to stop and lose their connections.
Rundown ==
  /\ pc = "rundown"
  /\ inc' = inc + Reported(Streams)
  /\ tstatus' = FromStreams({})
  /\ fd' = [s \in Streams |-> IF fd[s] = "open" THEN "closed" ELSE fd[s]]
  /\ tpc' = Broadcast
  /\ pc' = "finish"
  /\ UNCHANGED <<environment, taken, session, be, counts, barrier, tbuf, bytes_received,
                 locals, buffers>>

\* What all three loops end with.  A buffer without a whole packet (for splice,
\* without a byte) is cancelled; splice neither counts total_packets nor stops.
Finish ==
  /\ pc = "finish"
  /\ IF be = 0
     THEN pc' = "crashed" /\ UNCHANGED <<be, inc, counts, status, handed>>
     ELSE /\ IF inc < (IF loop = "splice" THEN 1 ELSE PacketSize)
             THEN be' = 0 /\ inc' = 0 /\ UNCHANGED <<counts, handed>>
             ELSE /\ handed' = [handed EXCEPT ![be] = inc]
                  /\ n_packets' = n_packets + inc \div PacketSize
                  /\ total_packets' = total_packets
                                        + IF loop = "splice" THEN 0 ELSE inc \div PacketSize
                  /\ UNCHANGED <<be, inc>>
          /\ status' = IF loop = "splice" \/ status = "ERROR" THEN status ELSE "STOPPED"
          /\ pc' = IF loop = "multi" THEN "join" ELSE "close"
  /\ UNCHANGED <<environment, taken, stopped, listening, fd, barrier, thread, content>>

\* tcp_preloop waits for the threads that were created and are not joined yet.
Join ==
  /\ pc = "join"
  /\ \A s \in Streams : tpc[s] \in {"none", "exit"}
  /\ pc' = "close"
  /\ UNCHANGED <<environment, taken, session, fd, be, inc, counts, barrier, thread, buffers>>

CloseSocket ==
  /\ pc = "close"
  /\ listening' = FALSE
  /\ pc' = "done"
  /\ UNCHANGED <<environment, taken, status, stopped, fd, be, inc, counts, barrier, thread,
                 buffers>>

-----------------------------------------------------------------------------
Main ==
  \/ Setup \/ Accept \/ AcceptFails \/ AcceptedEnough \/ GetFirst \/ ChangeBuffer \/ Regain
  \/ Single \/ SingleRecv \/ CreateThreads \/ MainLoop \/ Collect \/ Release \/ Rundown
  \/ Finish \/ Join \/ CloseSocket

threaded_multistream(s) ==
  Top(s) \/ Lock(s) \/ Begin(s) \/ Check(s) \/ Recv(s) \/ RecvEnds(s) \/ Report(s) \/ Signal(s)

Next == Main \/ stop_streamer \/ \E s \in Streams : threaded_multistream(s)

\* Threads run; the senders send what they have and connect.
Spec == Init /\ [][Next]_vars /\ WF_vars(Main)
          /\ \A s \in Streams : WF_vars(threaded_multistream(s))

-----------------------------------------------------------------------------
MainPlaces == {"setup", "accept", "get_first", "create", "loop", "await", "change", "regain",
               "release", "single", "recv", "rundown", "finish", "join", "close", "done",
               "exited", "crashed"}
ThreadPlaces == {"none", "top", "lock", "sleep", "begin", "check", "recv", "report", "signal",
                 "exit"}
Flags == {KEEP, FULL, "CLEAN_EXIT", "ERROR"}
Bytes == Streams \X Nat

TypeOK ==
  /\ loop \in Loops /\ sent \in Sendings /\ ending \in [Streams -> Endings]
  /\ taken \in [Streams -> Nat]
  /\ status \in {"RUNNING", "STOPPED", "ERROR"} /\ stopped \in BOOLEAN
  /\ listening \in BOOLEAN /\ fd \in [Streams -> {"none", "open", "closed"}]
  /\ pc \in MainPlaces
  /\ Len(content) = Len(handed) /\ be \in 0..Len(content)
  /\ inc \in Nat /\ total_packets \in Nat /\ n_packets \in Nat
  /\ start_remainder \in Streams /\ end_remainder \in Streams
  /\ threads_ready \in 0..Mult /\ active_threads \in 0..Mult
  /\ tpc \in [Streams -> ThreadPlaces] /\ tstatus \in [Streams -> SUBSET Flags]
  /\ tbuf \in [Streams -> 0..Len(content)]
  /\ bytes_received \in [Streams -> Nat] /\ spot \in [Streams -> Nat]
  /\ max_packets \in [Streams -> Nat] /\ packets_ready \in [Streams -> Nat]
  /\ offset \in [Streams -> 0..(PacketSize - 1)] /\ read \in [Streams -> SUBSET Flags]
  /\ content \in Seq([Places -> Bytes \cup {<<>>}]) /\ handed \in Seq(0..BufSize)

\* Where the byte at a place of buffer b belongs: the recording's packets go
\* round the streams, and the buffers follow one another.
Original(b, p) ==
  LET byte == (b - 1) * BufSize + p
      packet == byte \div PacketSize
  IN  IF loop = "multi"
      THEN <<packet % Mult, (packet \div Mult) * PacketSize + (byte % PacketSize)>>
      ELSE <<0, byte>>

\* A buffer handed over full holds the recording's bytes in their order, whatever
\* the streams' relative speed was: the streams' places are disjoint, fill the
\* buffer, and go on in the next one where they were (the remainders).
FullBuffersInOrder ==
  \A b \in 1..Len(handed) :
    handed[b] = BufSize => \A p \in Places : content[b][p] = Original(b, p)

\* The bytes of a recording whose packets were all sent, each on its stream.
PacketsOn(s, total) == Cardinality({n \in 0..(total - 1) : n % Mult = s})
Striped(total) ==
  IF loop = "multi" THEN \A s \in Streams : sent[s] = PacketSize * PacketsOn(s, total)
  ELSE sent[0] = PacketSize * total

\* If its senders send all of a recording and close, it is stored to the last
\* packet, and only the last file is shorter: every session not stopped ends so.
AllIsStored ==
  pc = "done" /\ ~stopped /\ loop # "splice" /\ (\A s \in Connections : ending[s] = "close")
    /\ (\A s \in Streams : loop = "multi" => tpc[s] # "none") =>
    \A total \in 0..(Elems * (Len(handed) + 1)) : Striped(total) =>
      /\ SumFunction(handed) = total * PacketSize
      /\ n_packets = total /\ total_packets = total
      /\ \A b \in 1..Len(handed) : \A p \in 0..(handed[b] - 1) :
           content[b][p] = Original(b, p)

\* The barrier: no thread writes into a buffer that the session's thread has given
\* away, except while a session that was stopped or lost a thread ends.
WritesHeldBuffer ==
  [][\A b \in DOMAIN content :
       content'[b] # content[b] =>
         \/ b = be /\ pc \notin {"change", "regain", "release"}
         \/ stopped /\ pc \in {"finish", "join"}]_vars

\* A session whose streams all end, with all its threads and not stopped, ends.
SessionEnds ==
  (\A s \in Streams : ending[s] # "stall") ~>
    \/ pc \in {"done", "exited"} \/ stopped
    \/ loop = "multi" /\ pc = "join" /\ \E s \in Streams : tpc[s] = "none"

=============================================================================
