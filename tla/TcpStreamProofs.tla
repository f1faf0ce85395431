-------------------------- MODULE TcpStreamProofs ---------------------------
(***************************************************************************)
(* That the receivers of tcp_stream.c put every byte where it belongs, for *)
(* any number of streams and any sizes of packets and buffers (as long as  *)
(* a buffer has a packet for each stream):                                 *)
(*                                                                         *)
(*   - a buffer that is handed over full holds the recording's bytes in    *)
(*     their order (BuffersInOrder);                                       *)
(*   - a thread writes only into the buffer that the session's thread      *)
(*     holds, unless a stopped or incomplete session ends (WritesHeld);    *)
(*   - a recording that its senders send to the end is stored to its last  *)
(*     packet (StoredToTheLastPacket).                                     *)
(*                                                                         *)
(* The argument has five parts.  Places: packet j of a stream is at place  *)
(* First + Mult * j, no two streams have a place in common, and where a    *)
(* stream leaves a buffer it goes on in the next one (StripeFits).  Bytes: *)
(* the place a thread writes is the place where its next byte belongs      *)
(* (ReceiveEffect).  Counting: the bytes that the threads report lie at    *)
(* different places, so if they are as many as the buffer has, each place  *)
(* was written (Counted, FullIsFilled).  The barrier: threads_ready counts *)
(* no thread twice, so when it reaches active_threads all of them are done *)
(* (Counting, CollectEffect), and none begins before it is released.  The  *)
(* end: in the round where a stream ends, what the threads report are the  *)
(* packets between the full buffers and the end of the recording           *)
(* (LastRound), because a stream's packets of it are its first ones        *)
(* (PacketsAre) and each place belongs to one stream (Owner).              *)
(***************************************************************************)
EXTENDS TcpStream, FiniteSetTheorems, FunctionTheorems, SequenceTheorems, Inductions, TLAPS

-----------------------------------------------------------------------------
(* Where a thread of a multistream recording is in its buffer                *)

\* The packets of the recording before buffer b.
Base(b) == (b - 1) * Elems

\* The place of its first packet in the buffer, and how many it puts there.
First(s) == correct_bufspot(s, start_remainder)

Quota(s) == packets_of(s, start_remainder, end_remainder)

\* The place of byte o of the stream's packet j in the buffer.
PlaceOf(s, j, o) == (First(s) + Mult * j) * PacketSize + o

\* The stream's next byte is byte o of the packet at place k.
At(s, k, o) ==
  \E row \in Nat : /\ taken[s] = row * PacketSize + o
                   /\ Base(tbuf[s]) + k = row * Mult + s

\* Before its first packet in a buffer; filling it; waiting for the next one or ended.
Fresh(s) ==
  \/ tpc[s] = "begin"
  \/ tpc[s] \in {"top", "lock"} /\ KEEP \in tstatus[s] /\ FULL \notin tstatus[s]
InRound(s) == tpc[s] \in {"check", "recv", "report", "signal"}
Done(s) == tpc[s] # "none" /\ ~Fresh(s) /\ ~InRound(s)

\* Waiting for the next buffer with this one full; ended by its stream.
Parked(s) == tpc[s] \in {"top", "lock", "sleep"} /\ tstatus[s] = {KEEP, FULL}
Broken(s) == tstatus[s] \in {{"CLEAN_EXIT"}, {"ERROR"}}

\* What of a buffer was written.
Written(b, p) == content[b][p] # <<>>
Filled(b) == \A p \in Places : Written(b, p)

\* A thread that began this buffer has so many packets, and a part of the next one.
Progress(s) ==
  /\ tbuf[s] \in 1..Len(content)
  /\ max_packets[s] = Quota(s) /\ packets_ready[s] \in 0..max_packets[s]
  /\ spot[s] = First(s) + Mult * packets_ready[s]
  /\ offset[s] > 0 => packets_ready[s] < max_packets[s]
  /\ At(s, spot[s], offset[s])
  /\ \A j \in 0..packets_ready[s], o \in 0..(PacketSize - 1) :
       (j < packets_ready[s] \/ o < offset[s]) => Written(tbuf[s], PlaceOf(s, j, o))

\* What each thread knows of itself, wherever the others are.
Local(s) ==
  /\ Fresh(s) => tbuf[s] \in 1..Len(content) /\ At(s, First(s), 0)
  /\ InRound(s) => Progress(s)
  /\ tpc[s] = "recv" => packets_ready[s] < max_packets[s]
  /\ (tpc[s] \in {"report", "signal"} /\ packets_ready[s] < max_packets[s])
       => KEEP \notin tstatus[s]

ThreadInv == \A s \in Streams : Local(s)

\* While the session's thread waits for the others, each thread is in the buffer.
Waiting(s) ==
  /\ tbuf[s] = be
  /\ Fresh(s) => tstatus[s] = {KEEP} /\ bytes_received[s] = 0
  /\ (InRound(s) \/ Done(s)) => Progress(s)
  /\ tpc[s] \in {"check", "recv"} => tstatus[s] = {KEEP} /\ bytes_received[s] = 0
  /\ (tpc[s] \in {"report", "signal"} \/ Done(s)) =>
       bytes_received[s] = PacketSize * packets_ready[s]
  /\ tpc[s] \in {"report", "signal"} =>
       \/ tstatus[s] = {KEEP} /\ packets_ready[s] = max_packets[s]
       \/ Broken(s) /\ packets_ready[s] < max_packets[s]
  /\ tpc[s] = "signal" => read[s] = tstatus[s]
  /\ Done(s) => \/ Parked(s) /\ packets_ready[s] = max_packets[s]
                \/ tpc[s] \in {"top", "exit"} /\ Broken(s) /\ packets_ready[s] < max_packets[s]
  /\ tpc[s] # "none"

\* The row of packets that ends one buffer goes on in the next one.
Rows == \E rows \in Nat : Elems = (Mult - start_remainder) + rows * Mult + end_remainder

Remainders == start_remainder \in Streams /\ end_remainder \in Streams /\ Rows

\* The session's thread gives its buffer away and takes the next one.
Changing == {"change", "regain", "release"}

\* No more threads count as ready than are.
Counting == threads_ready <= Cardinality({s \in Streams : Done(s)})

\* While the session's thread waits for the others.
Gathering ==
  pc \in {"loop", "await"} =>
    /\ active_threads = Mult /\ inc = 0
    /\ \A s \in Streams : Waiting(s)

\* While it changes the buffer, all of them are parked with their whole quota.
Turning ==
  (loop = "multi" /\ pc \in Changing) =>
    /\ active_threads = Mult /\ inc = (IF pc = "release" THEN 0 ELSE BufSize)
    /\ \A s \in Streams :
         /\ Parked(s) /\ bytes_received[s] = 0
         /\ tbuf[s] = IF pc = "release" THEN be - 1 ELSE be
         /\ At(s, Elems + First(s), 0)

\* When it ends, either the session was stopped while they receive, or all are done.
Ending ==
  pc = "rundown" =>
    \/ /\ stopped /\ inc = 0 /\ be # 0
       /\ \A s \in Streams : Waiting(s)
    \/ /\ \A s \in Streams : Done(s)
       /\ inc + Reported(Streams) <= BufSize
       /\ (be # 0 /\ inc + Reported(Streams) = BufSize) => Filled(be)

\* A thread still receives after the end only in a stopped session, or one that
\* could not create all of them.
Lasting ==
  \A s \in Streams : (Fresh(s) \/ InRound(s)) =>
    /\ pc = "finish" => stopped /\ be # 0
    /\ pc = "join" => stopped \/ tbuf[s] = be
    /\ pc \notin {"close", "done", "crashed"}

\* What the threads and the session's thread know of each other.
BarrierInv == Counting /\ Gathering /\ Turning /\ Ending /\ Lasting

\* The receivers of one stream, and where the session's thread is with its buffer.
SingleInv ==
  loop # "multi" =>
    /\ (pc \in {"single", "recv", "change"} \/ (pc = "finish" /\ be # 0)) =>
         /\ taken[0] = (be - 1) * BufSize + inc
         /\ \A p \in 0..(inc - 1) : Written(be, p)
    /\ pc \in {"single", "recv"} => inc < BufSize
    /\ pc = "change" => inc = BufSize
    /\ pc = "regain" => taken[0] = be * BufSize

\* Before the loops begin, and before there are threads.
Early == {"setup", "accept", "get_first", "exited"}
Starting == {"setup", "accept", "get_first", "create"}

\* Where the session's thread is, and what it has set up by then.
MainInv ==
  /\ pc \in {"create", "loop", "await", "release", "rundown", "join"} => loop = "multi"
  /\ pc \in {"single", "recv"} => loop # "multi"
  /\ (pc \in Starting \/ loop # "multi") =>
       \A s \in Streams : tpc[s] = "none"
  /\ pc = "exited" => \A s \in Streams : tpc[s] = "none"
  /\ pc \in Starting =>
       /\ Len(content) = (IF pc = "create" THEN 1 ELSE 0)
       /\ \A s \in Streams : taken[s] = 0 /\ bytes_received[s] = 0
       /\ threads_ready = 0 /\ active_threads = Mult
       /\ inc = 0
  /\ pc \in {"create", "loop", "await", "single", "recv"} \cup Changing =>
       be # 0
  /\ be \in {0, Len(content)}
  /\ (pc \in Starting \cup {"loop", "await", "single", "recv"} \cup Changing /\ ~Running) => stopped
  /\ (loop = "multi" /\ pc \notin Early \cup {"create"}) =>
       Rows \/ \A s \in Streams : tpc[s] = "none"
  /\ (pc = "finish" /\ be # 0) => inc <= BufSize /\ (inc = BufSize => Filled(be))

\* Whatever was written into a buffer is the recording's byte of that place.
Rightly ==
  \A b \in 1..Len(content), p \in Places : Written(b, p) => content[b][p] = Original(b, p)

\* And what was handed over as full, was written throughout.
ContentInv ==
  /\ Rightly
  /\ \A b \in 1..Len(handed) : handed[b] = BufSize => Filled(b)
  /\ pc = "change" => Filled(be)

\* The inductive invariant.
IInv == TypeOK /\ MainInv /\ ThreadInv /\ BarrierInv /\ SingleInv /\ ContentInv

-----------------------------------------------------------------------------
(* Numbers                                                                   *)

\* A number with a given quotient and remainder.
LEMMA DivMod ==
  ASSUME NEW d \in Nat \ {0}, NEW q \in Nat, NEW r \in 0..(d - 1)
  PROVE  (q * d + r) \div d = q /\ (q * d + r) % d = r
  OBVIOUS

\* Every number has one of each.
LEMMA Division ==
  ASSUME NEW d \in Nat \ {0}, NEW n \in Nat
  PROVE  n \div d \in Nat /\ n % d \in 0..(d - 1) /\ n = (n \div d) * d + (n % d)
  OBVIOUS

LEMMA Product ==
  ASSUME NEW m \in Nat, NEW n \in Nat
  PROVE  m * n \in Nat
  OBVIOUS

\* The laws of the ring, for terms that stay whole in later steps.
LEMMA Distributes ==
  ASSUME NEW a \in Int, NEW b \in Int, NEW c \in Int
  PROVE  (a + b) * c = a * c + b * c /\ (a - b) * c = a * c - b * c
          /\ a * b = b * a /\ (a * b) * c = a * (b * c)
  OBVIOUS

\* Rows of c items: the row of a ends before the row of b begins.
LEMMA Ordered ==
  ASSUME NEW a \in Nat, NEW b \in Nat, NEW c \in Nat, a < b
  PROVE  a * c + c <= b * c
<1>1. b - a - 1 \in Nat
  OBVIOUS
<1>2. (b - a - 1) * c \in Nat
  BY <1>1
<1> QED
  BY <1>2

\* Byte o of the packet at place k of buffer b, packet row of stream s.
LEMMA OriginalAt ==
  ASSUME loop = "multi", NEW b \in Nat \ {0}, NEW k \in Nat, NEW o \in 0..(PacketSize - 1),
         NEW s \in Streams, NEW row \in Nat, Base(b) + k = row * Mult + s
  PROVE  Original(b, k * PacketSize + o) = <<s, row * PacketSize + o>>
<1>1. Mult \in Nat \ {0} /\ Elems \in Nat \ {0} /\ PacketSize \in Nat \ {0}
  BY ConstantsAssumption
<1>2. s \in 0..(Mult - 1)
  BY DEF Streams
<1> DEFINE byte == (b - 1) * BufSize + (k * PacketSize + o)
           packet == row * Mult + s
<1>3. byte = packet * PacketSize + o
  <2>1. (b - 1) * BufSize = Base(b) * PacketSize
    BY <1>1, Distributes DEF BufSize, Base
  <2>2. (Base(b) + k) * PacketSize = Base(b) * PacketSize + k * PacketSize
    BY <1>1, Distributes DEF Base
  <2>3. Base(b) * PacketSize \in Int /\ k * PacketSize \in Int
    BY <1>1 DEF Base
  <2> QED
    BY <2>1, <2>2, <2>3
<1>4. packet \in Nat
  BY <1>1, <1>2
<1>5. byte \div PacketSize = packet /\ byte % PacketSize = o
  <2> HIDE DEF byte, packet
  <2> QED
    BY <1>1, <1>3, <1>4, DivMod
<1>6. packet \div Mult = row /\ packet % Mult = s
  BY <1>1, <1>2, DivMod
<1> QED
  BY <1>5, <1>6 DEF Original

\* The stream's packets of a buffer end where its first packet of the next one is.
LEMMA StripeFits ==
  ASSUME Remainders, NEW s \in Streams
  PROVE  /\ Quota(s) \in Nat
         /\ First(s) \in 0..(Mult - 1)
         /\ First(s) + Mult * Quota(s) = Elems + correct_bufspot(s, end_remainder)
         /\ correct_bufspot(s, end_remainder) \in 0..(Mult - 1)
<1>1. Mult \in Nat \ {0} /\ Elems \in Nat \ {0} /\ s \in 0..(Mult - 1)
        /\ start_remainder \in 0..(Mult - 1) /\ end_remainder \in 0..(Mult - 1)
  BY ConstantsAssumption DEF Streams, Remainders
<1>2. PICK rows \in Nat : Elems = (Mult - start_remainder) + rows * Mult + end_remainder
  BY DEF Remainders, Rows
<1>3. rows * Mult \in Nat
  BY <1>1
<1>4. (Elems - ((Mult - start_remainder) + end_remainder)) \div Mult = rows
  <2>1. Elems - ((Mult - start_remainder) + end_remainder) = rows * Mult + 0
    BY <1>1, <1>2, <1>3
  <2> QED
    BY <2>1, <1>1, DivMod
<1>5. Quota(s) = rows + (IF s >= start_remainder THEN 1 ELSE 0)
                     + (IF s < end_remainder THEN 1 ELSE 0)
  BY <1>4 DEF Quota, packets_of
<1>6. /\ Mult * rows = rows * Mult /\ Mult * (rows + 1) = rows * Mult + Mult
      /\ Mult * (rows + 2) = rows * Mult + Mult + Mult
  BY <1>1
<1>7. /\ First(s) \in 0..(Mult - 1) /\ correct_bufspot(s, end_remainder) \in 0..(Mult - 1)
      /\ Quota(s) \in Nat
  BY <1>1, <1>5 DEF First, correct_bufspot
<1>8. First(s) + Mult * Quota(s) = Elems + correct_bufspot(s, end_remainder)
  <2>1. CASE s >= start_remainder /\ s < end_remainder
    <3>1. Quota(s) = rows + 2
      BY <2>1, <1>1, <1>5
    <3> QED
      BY <3>1, <2>1, <1>1, <1>2, <1>3, <1>6 DEF First, correct_bufspot
  <2>2. CASE s >= start_remainder /\ ~(s < end_remainder)
    <3>1. Quota(s) = rows + 1
      BY <2>2, <1>1, <1>5
    <3> QED
      BY <3>1, <2>2, <1>1, <1>2, <1>3, <1>6 DEF First, correct_bufspot
  <2>3. CASE ~(s >= start_remainder) /\ s < end_remainder
    <3>1. Quota(s) = rows + 1
      BY <2>3, <1>1, <1>5
    <3> QED
      BY <3>1, <2>3, <1>1, <1>2, <1>3, <1>6 DEF First, correct_bufspot
  <2>4. CASE ~(s >= start_remainder) /\ ~(s < end_remainder)
    <3>1. Quota(s) = rows
      BY <2>4, <1>1, <1>5
    <3> QED
      BY <3>1, <2>4, <1>1, <1>2, <1>3, <1>6 DEF First, correct_bufspot
  <2> QED
    BY <2>1, <2>2, <2>3, <2>4
<1> QED
  BY <1>7, <1>8

\* The places of a stream's packets are places of the buffer.
LEMMA PlaceInBuffer ==
  ASSUME Remainders, NEW s \in Streams, NEW j \in Nat, j < Quota(s),
         NEW o \in 0..(PacketSize - 1)
  PROVE  /\ PlaceOf(s, j, o) \in Places
         /\ First(s) + Mult * j \in 0..(Elems - 1)
         /\ PlaceOf(s, j, 0) + PacketSize <= BufSize
<1>1. Mult \in Nat \ {0} /\ Elems \in Nat \ {0} /\ PacketSize \in Nat \ {0}
  BY ConstantsAssumption
<1> DEFINE k == First(s) + Mult * j
<1>2. k \in Nat /\ k < Elems
  <2>1. Mult * j + Mult <= Mult * Quota(s)
    <3>1. j * Mult + Mult <= Quota(s) * Mult
      BY <1>1, StripeFits, Ordered
    <3> QED
      BY <3>1, <1>1, StripeFits, Distributes
  <2>2. Mult * j \in Nat /\ Mult * Quota(s) \in Nat
    BY <1>1, StripeFits
  <2> QED
    BY <2>1, <2>2, <1>1, StripeFits
<1>3. k * PacketSize + PacketSize <= Elems * PacketSize
  BY <1>1, <1>2, Ordered
<1>4. k * PacketSize \in Nat /\ BufSize \in Nat
  BY <1>1, <1>2 DEF BufSize
<1>5. PlaceOf(s, j, o) = k * PacketSize + o /\ PlaceOf(s, j, 0) = k * PacketSize + 0
  BY DEF PlaceOf
<1>6. k * PacketSize + o < BufSize
  BY <1>1, <1>3, <1>4 DEF BufSize
<1> HIDE DEF k
<1>7. PlaceOf(s, j, o) \in Places
  BY <1>1, <1>4, <1>5, <1>6 DEF Places
<1>8. PlaceOf(s, j, 0) + PacketSize <= BufSize
  BY <1>1, <1>3, <1>4, <1>5 DEF BufSize
<1>9. k \in 0..(Elems - 1)
  BY <1>1, <1>2
<1> QED
  BY <1>7, <1>8, <1>9 DEF k

\* Two bytes of a buffer have different places.
LEMMA PlacesDiffer ==
  ASSUME Remainders, NEW s \in Streams, NEW j \in Nat, NEW o \in 0..(PacketSize - 1),
         NEW r \in Streams, NEW i \in Nat, NEW q \in 0..(PacketSize - 1),
         PlaceOf(s, j, o) = PlaceOf(r, i, q)
  PROVE  s = r /\ j = i /\ o = q
<1>1. Mult \in Nat \ {0} /\ Elems \in Nat \ {0} /\ PacketSize \in Nat \ {0}
        /\ s \in 0..(Mult - 1) /\ r \in 0..(Mult - 1) /\ start_remainder \in 0..(Mult - 1)
  BY ConstantsAssumption DEF Remainders, Streams
<1> DEFINE k == First(s) + Mult * j
           m == First(r) + Mult * i
<1>2. k \in Nat /\ m \in Nat
  BY <1>1, StripeFits
<1>3. k = m /\ o = q
  <2>1. k * PacketSize + o = m * PacketSize + q
    BY DEF PlaceOf
  <2>2. (k * PacketSize + o) \div PacketSize = k /\ (k * PacketSize + o) % PacketSize = o
    BY <1>1, <1>2, DivMod
  <2>3. (m * PacketSize + q) \div PacketSize = m /\ (m * PacketSize + q) % PacketSize = q
    BY <1>1, <1>2, DivMod
  <2> HIDE DEF k, m
  <2> QED
    BY <2>1, <2>2, <2>3
<1> DEFINE row(t, l) == IF t >= start_remainder THEN l ELSE l + 1
<1>4. row(s, j) \in Nat /\ row(r, i) \in Nat
  OBVIOUS
<1>5. k + start_remainder = row(s, j) * Mult + s /\ m + start_remainder = row(r, i) * Mult + r
  <2>1. /\ Mult * j = j * Mult /\ (j + 1) * Mult = j * Mult + Mult /\ j * Mult \in Nat
        /\ Mult * i = i * Mult /\ (i + 1) * Mult = i * Mult + Mult /\ i * Mult \in Nat
    BY <1>1
  <2> QED
    BY <2>1, <1>1 DEF First, correct_bufspot
<1>6. /\ (row(s, j) * Mult + s) \div Mult = row(s, j) /\ (row(s, j) * Mult + s) % Mult = s
      /\ (row(r, i) * Mult + r) \div Mult = row(r, i) /\ (row(r, i) * Mult + r) % Mult = r
  <2>1. /\ Mult \in Nat \ {0} /\ s \in 0..(Mult - 1) /\ r \in 0..(Mult - 1)
        /\ row(s, j) \in Nat /\ row(r, i) \in Nat
    BY <1>1, <1>4
  <2> HIDE DEF k, m, row
  <2>2. (row(s, j) * Mult + s) \div Mult = row(s, j) /\ (row(s, j) * Mult + s) % Mult = s
    BY <2>1, DivMod
  <2>3. (row(r, i) * Mult + r) \div Mult = row(r, i) /\ (row(r, i) * Mult + r) % Mult = r
    BY <2>1, DivMod
  <2> QED
    BY <2>2, <2>3
<1>7. s = r /\ row(s, j) = row(r, i)
  <2> HIDE DEF k, m, row
  <2> QED
    BY <1>3, <1>5, <1>6
<1> QED
  BY <1>3, <1>7

-----------------------------------------------------------------------------
(* Counting the bytes of a buffer                                            *)

\* The set that Reported counts.
ReportedBytes(streams) ==
  {byte \in streams \X (1..BufSize) : byte[2] <= bytes_received[byte[1]]}

\* A buffer has BufSize places, a recording Mult streams.
LEMMA PlacesFinite ==
  /\ BufSize \in Nat \ {0} /\ PacketSize <= BufSize
  /\ IsFiniteSet(Places) /\ Cardinality(Places) = BufSize
  /\ IsFiniteSet(Streams) /\ Cardinality(Streams) = Mult
<1>1. Mult \in Nat \ {0} /\ Elems \in Nat \ {0} /\ PacketSize \in Nat \ {0}
  BY ConstantsAssumption
<1>2. BufSize \in Nat \ {0} /\ PacketSize <= BufSize
  <2>1. Elems = (Elems - 1) + 1 /\ Elems - 1 \in Nat
    BY <1>1
  <2>2. Elems * PacketSize = (Elems - 1) * PacketSize + PacketSize
    BY <1>1
  <2>3. (Elems - 1) * PacketSize \in Nat
    BY <1>1, <2>1
  <2> QED
    BY <1>1, <2>2, <2>3 DEF BufSize
<1>3. IsFiniteSet(Places) /\ Cardinality(Places) = BufSize
  <2>1. 0 \in Int /\ BufSize - 1 \in Int /\ ~(0 > BufSize - 1) /\ (BufSize - 1) - 0 + 1 = BufSize
    BY <1>2
  <2> QED
    BY <2>1, FS_Interval DEF Places
<1>4. IsFiniteSet(Streams) /\ Cardinality(Streams) = Mult
  <2>1. 0 \in Int /\ Mult - 1 \in Int /\ ~(0 > Mult - 1) /\ (Mult - 1) - 0 + 1 = Mult
    BY <1>1
  <2> QED
    BY <2>1, FS_Interval DEF Streams
<1> QED
  BY <1>2, <1>3, <1>4

\* What the streams report is a number.
LEMMA ReportedFinite ==
  ASSUME NEW streams \in SUBSET Streams
  PROVE  IsFiniteSet(ReportedBytes(streams)) /\ Reported(streams) \in Nat
<1>1. IsFiniteSet(streams)
  BY PlacesFinite, FS_Subset
<1>2. IsFiniteSet(1..BufSize)
  BY PlacesFinite, FS_Interval
<1>3. IsFiniteSet(streams \X (1..BufSize))
  BY <1>1, <1>2, FS_Product
<1>4. ReportedBytes(streams) \in SUBSET (streams \X (1..BufSize))
  BY DEF ReportedBytes
<1>5. IsFiniteSet(ReportedBytes(streams))
  BY <1>3, <1>4, FS_Subset
<1> QED
  BY <1>5, FS_CardinalityType DEF Reported, ReportedBytes

\* Every stream reports whole packets of this buffer, or nothing.
Whole == \A s \in Streams : \E j \in 0..Quota(s) : bytes_received[s] = PacketSize * j

\* A byte lies before the end of packet n exactly if its packet does.
LEMMA InAPacket ==
  ASSUME NEW m \in Nat, NEW j \in Nat, NEW o \in 0..(PacketSize - 1), m = j * PacketSize + o,
         NEW n \in Nat
  PROVE  m < PacketSize * n <=> j < n
<1>1. PacketSize \in Nat \ {0} /\ j * PacketSize \in Nat /\ n * PacketSize \in Nat
        /\ PacketSize * n = n * PacketSize
  BY ConstantsAssumption
<1>2. CASE j < n
  <2>1. j * PacketSize + PacketSize <= n * PacketSize
    BY <1>1, <1>2, Ordered
  <2> QED
    BY <1>1, <1>2, <2>1
<1>3. CASE ~(j < n)
  <2>1. (j - n) * PacketSize \in Nat
    BY <1>1, <1>3
  <2>2. (j - n) * PacketSize = j * PacketSize - n * PacketSize
    BY <1>1, Distributes
  <2> QED
    BY <1>1, <1>3, <2>1, <2>2
<1> QED
  BY <1>2, <1>3

\* The streams report no more than a buffer, and if they report one, every place of
\* it is in one of their packets.
LEMMA Counted ==
  ASSUME Remainders, Whole
  PROVE  /\ Reported(Streams) \in Nat /\ Reported(Streams) <= BufSize
         /\ Reported(Streams) = BufSize =>
              \A p \in Places : \E s \in Streams, j \in Nat, o \in 0..(PacketSize - 1) :
                /\ p = PlaceOf(s, j, o)
                /\ \A n \in Nat : bytes_received[s] = PacketSize * n => j < n
<1> DEFINE Bytes_ == ReportedBytes(Streams)
           J(byte) == (byte[2] - 1) \div PacketSize
           O(byte) == (byte[2] - 1) % PacketSize
           f == [byte \in Bytes_ |-> PlaceOf(byte[1], J(byte), O(byte))]
<1>1. PacketSize \in Nat \ {0}
  BY ConstantsAssumption
<1>2. ASSUME NEW byte \in Bytes_
      PROVE  /\ byte[1] \in Streams /\ byte[2] \in Nat /\ byte = <<byte[1], byte[2]>>
             /\ J(byte) \in Nat /\ O(byte) \in 0..(PacketSize - 1)
             /\ byte[2] - 1 = J(byte) * PacketSize + O(byte)
             /\ \A n \in Nat : bytes_received[byte[1]] = PacketSize * n => J(byte) < n
             /\ J(byte) < Quota(byte[1])
  <2>1. byte \in Streams \X (1..BufSize) /\ byte[2] <= bytes_received[byte[1]]
    BY DEF ReportedBytes
  <2>2. byte[1] \in Streams /\ byte[2] \in 1..BufSize /\ byte = <<byte[1], byte[2]>>
    BY <2>1
  <2>3. byte[2] \in Nat /\ byte[2] - 1 \in Nat
    BY <2>2, PlacesFinite
  <2>4. /\ J(byte) \in Nat /\ O(byte) \in 0..(PacketSize - 1)
        /\ byte[2] - 1 = J(byte) * PacketSize + O(byte)
    BY <1>1, <2>3, Division
  <2>5. ASSUME NEW n \in Nat, bytes_received[byte[1]] = PacketSize * n
        PROVE  J(byte) < n
    <3>1. PacketSize * n \in Nat
      BY <1>1
    <3>2. byte[2] - 1 < PacketSize * n
      BY <2>1, <2>3, <2>5, <3>1
    <3> HIDE DEF J, O
    <3> QED
      BY <2>3, <2>4, <3>2, InAPacket
  <2>6. PICK j \in 0..Quota(byte[1]) : bytes_received[byte[1]] = PacketSize * j
    BY <2>2 DEF Whole
  <2>7. Quota(byte[1]) \in Nat
    BY <2>2, StripeFits
  <2>8. J(byte) < j
    BY <2>5, <2>6, <2>7
  <2> HIDE DEF J, O
  <2> QED
    BY <2>2, <2>3, <2>4, <2>5, <2>6, <2>7, <2>8
<1>3. f \in Injection(Bytes_, Places)
  <2>1. f \in [Bytes_ -> Places]
    <3>1. ASSUME NEW byte \in Bytes_ PROVE PlaceOf(byte[1], J(byte), O(byte)) \in Places
      <4> HIDE DEF J, O, Bytes_
      <4> QED
        BY <1>2, PlaceInBuffer
    <3> QED
      BY <3>1
  <2>2. ASSUME NEW a \in Bytes_, NEW b \in Bytes_, f[a] = f[b]
        PROVE  a = b
    <3>1. PlaceOf(a[1], J(a), O(a)) = PlaceOf(b[1], J(b), O(b))
      BY <2>2
    <3> HIDE DEF J, O, Bytes_, f
    <3>2. a[1] = b[1] /\ J(a) = J(b) /\ O(a) = O(b)
      BY <1>2, <3>1, PlacesDiffer
    <3>3. a[2] - 1 = b[2] - 1
      BY <1>2, <3>2
    <3>4. a[2] = b[2]
      BY <1>2, <3>3
    <3> QED
      BY <1>2, <3>2, <3>4
  <2> HIDE DEF f, Bytes_
  <2> QED
    BY <2>1, <2>2, Fun_IsInj
<1>4. /\ Cardinality(Bytes_) <= Cardinality(Places)
      /\ Cardinality(Bytes_) = Cardinality(Places) => f \in Surjection(Bytes_, Places)
  <2> HIDE DEF f, Bytes_
  <2> QED
    BY <1>3, PlacesFinite, FS_Injection
<1>5. Reported(Streams) = Cardinality(Bytes_)
  BY DEF Reported, ReportedBytes
<1>6. ASSUME Reported(Streams) = BufSize, NEW p \in Places
      PROVE  \E s \in Streams, j \in Nat, o \in 0..(PacketSize - 1) :
               /\ p = PlaceOf(s, j, o)
               /\ \A n \in Nat : bytes_received[s] = PacketSize * n => j < n
  <2>1. PICK byte \in Bytes_ : f[byte] = p
    <3> HIDE DEF f, Bytes_
    <3> QED
      BY <1>4, <1>5, <1>6, PlacesFinite, Fun_SurjectionProperties
  <2>2. p = PlaceOf(byte[1], J(byte), O(byte))
    BY <2>1
  <2> HIDE DEF J, O, Bytes_, f
  <2> QED
    BY <1>2, <2>2
<1>7. Reported(Streams) \in Nat
  BY ReportedFinite
<1> HIDE DEF f, Bytes_
<1> QED
  BY <1>4, <1>5, <1>6, <1>7, PlacesFinite

-----------------------------------------------------------------------------
(* What the steps do to buffers and sockets                                  *)

\* What a buffer may hold.
Buffers == [Places -> Bytes \cup {<<>>}]

\* A byte is not the mark of a place that was never written.
LEMMA NotEmpty ==
  \A s \in Streams, n \in Nat : <<s, n>> \in Bytes /\ <<s, n>> # <<>>
BY DEF Bytes

\* recv returns no more than the room it was given.
LEMMA RecvBounds ==
  ASSUME TypeOK, NEW s \in Streams, NEW room \in Nat \ {0}, NEW n \in recv(s, room)
  PROVE  n \in Int /\ n <= room
<1>1. sent[s] \in Nat /\ taken[s] \in Nat
  BY ConstantsAssumption DEF TypeOK
<1> QED
  BY <1>1 DEF recv

\* Store moves one stream on and changes places of one buffer.
LEMMA StoreEffect ==
  ASSUME TypeOK, NEW s \in Streams, NEW n \in Nat, NEW b \in 1..Len(content), NEW place \in Nat,
         Store(s, n, b, place)
  PROVE  /\ taken' \in [Streams -> Nat]
         /\ taken'[s] = taken[s] + n /\ \A r \in Streams \ {s} : taken'[r] = taken[r]
         /\ content' \in Seq(Buffers) /\ Len(content') = Len(content)
         /\ \A c \in 1..Len(content) : c # b => content'[c] = content[c]
         /\ \A p \in Places : content'[b][p] =
              IF p \in place..(place + n - 1) THEN <<s, taken[s] + p - place>>
              ELSE content[b][p]
<1>1. taken \in [Streams -> Nat] /\ content \in Seq(Buffers)
  BY DEF TypeOK, Buffers
<1>2. content[b] \in Buffers
  BY <1>1, ElementOfSeq
<1> DEFINE new == [p \in Places |-> IF p \in place..(place + n - 1)
                                    THEN <<s, taken[s] + p - place>> ELSE content[b][p]]
<1>3. new \in Buffers
  <2>1. ASSUME NEW p \in Places
        PROVE  new[p] \in Bytes \cup {<<>>}
    <3>1. CASE p \in place..(place + n - 1)
      <4>1. taken[s] + p - place \in Nat
        BY <1>1, <3>1, PlacesFinite DEF Places
      <4> QED
        BY <3>1, <4>1, NotEmpty
    <3>2. CASE ~(p \in place..(place + n - 1))
      BY <1>2, <3>2 DEF Buffers
    <3> QED
      BY <3>1, <3>2
  <2> QED
    BY <2>1 DEF Buffers
<1>4. content' = [content EXCEPT ![b] = new]
  BY DEF Store
<1>5. /\ content' \in Seq(Buffers) /\ Len(content') = Len(content)
      /\ \A c \in 1..Len(content) : content'[c] = IF c = b THEN new ELSE content[c]
  <2> HIDE DEF new
  <2> QED
    BY <1>1, <1>3, <1>4, ExceptSeq
<1>6. taken' = [taken EXCEPT ![s] = @ + n]
  BY DEF Store
<1>7. \A p \in Places : content'[b][p] =
        IF p \in place..(place + n - 1) THEN <<s, taken[s] + p - place>> ELSE content[b][p]
  BY <1>5
<1> HIDE DEF new
<1> QED
  BY <1>1, <1>5, <1>6, <1>7

\* A new buffer is empty and comes after the others.
LEMMA TakeBufferEffect ==
  ASSUME TypeOK, TakeBuffer
  PROVE  /\ content' \in Seq(Buffers) /\ handed' \in Seq(0..BufSize)
         /\ Len(content') = Len(content) + 1 /\ Len(handed') = Len(content) + 1
         /\ be' = Len(content) + 1 /\ inc' = 0
         /\ \A c \in 1..Len(content) : content'[c] = content[c] /\ handed'[c] = handed[c]
         /\ \A p \in Places : content'[Len(content) + 1][p] = <<>>
         /\ handed'[Len(content) + 1] = 0
<1>1. content \in Seq(Buffers) /\ handed \in Seq(0..BufSize) /\ Len(content) = Len(handed)
  BY DEF TypeOK, Buffers
<1> DEFINE new == [p \in Places |-> <<>>]
<1>2. new \in Buffers /\ \A p \in Places : new[p] = <<>>
  BY DEF Buffers
<1>3. 0 \in 0..BufSize
  BY PlacesFinite
<1>4. content' = Append(content, new) /\ handed' = Append(handed, 0)
        /\ be' = Len(content) + 1 /\ inc' = 0
  BY DEF TakeBuffer
<1> HIDE DEF new
<1>5. /\ content' \in Seq(Buffers) /\ Len(content') = Len(content) + 1
      /\ \A c \in 1..Len(content) : content'[c] = content[c]
      /\ content'[Len(content) + 1] = new
  BY <1>1, <1>2, <1>4, AppendProperties
<1>6. /\ handed' \in Seq(0..BufSize) /\ Len(handed') = Len(handed) + 1
      /\ \A c \in 1..Len(handed) : handed'[c] = handed[c]
      /\ handed'[Len(handed) + 1] = 0
  BY <1>1, <1>3, <1>4, AppendProperties
<1> QED
  BY <1>1, <1>2, <1>4, <1>5, <1>6

\* Handing a buffer over leaves the others as they were.
LEMMA HandOverEffect ==
  ASSUME TypeOK, NEW b \in 1..Len(content), NEW n \in 0..BufSize,
         handed' = [handed EXCEPT ![b] = n]
  PROVE  /\ handed' \in Seq(0..BufSize) /\ Len(handed') = Len(handed)
         /\ \A c \in 1..Len(handed) : handed'[c] = IF c = b THEN n ELSE handed[c]
<1>1. handed \in Seq(0..BufSize) /\ b \in 1..Len(handed)
  BY DEF TypeOK
<1> QED
  BY <1>1, ExceptSeq

\* A thread runs once the remainders of the first buffer are set.
LEMMA ThreadRuns ==
  ASSUME IInv, NEW s \in Streams, tpc[s] # "none"
  PROVE  loop = "multi" /\ pc \notin Early \cup {"create"} /\ Remainders
BY DEF IInv, MainInv, Remainders, TypeOK, Early, Starting

\* A thread that counts itself was not counted before.
LEMMA SignalCounts ==
  ASSUME IInv, NEW s \in Streams, tpc[s] = "signal"
  PROVE  threads_ready + 1 <= Cardinality({r \in Streams : Done(r)} \cup {s})
         /\ threads_ready + 1 \in 0..Mult
<1> DEFINE D == {r \in Streams : Done(r)}
<1>1. IsFiniteSet(D) /\ D \in SUBSET Streams /\ D \cup {s} \in SUBSET Streams
  BY PlacesFinite, FS_Subset
<1>2. s \notin D
  BY DEF Done, InRound
<1>3. Cardinality(D \cup {s}) = Cardinality(D) + 1
  BY <1>1, <1>2, FS_AddElement
<1>4. Cardinality(D \cup {s}) <= Mult
  BY <1>1, PlacesFinite, FS_Subset
<1>5. threads_ready <= Cardinality(D) /\ threads_ready \in Nat /\ Mult \in Nat
  BY ConstantsAssumption DEF IInv, BarrierInv, Counting, TypeOK
<1>6. Cardinality(D) \in Nat
  BY <1>1, FS_CardinalityType
<1> HIDE DEF D
<1>7. threads_ready + 1 <= Cardinality(D \cup {s}) /\ threads_ready + 1 \in 0..Mult
  BY <1>3, <1>4, <1>5, <1>6
<1> QED
  BY <1>7 DEF D

-----------------------------------------------------------------------------
(* Types                                                                     *)

\* The constants, as the steps below need them.
LEMMA Sizes ==
  /\ Mult \in Nat \ {0} /\ Elems \in Nat \ {0} /\ PacketSize \in Nat \ {0}
  /\ BufSize \in Nat \ {0} /\ PacketSize <= BufSize /\ Elems >= Mult
  /\ Streams = 0..(Mult - 1) /\ Places = 0..(BufSize - 1) /\ 0 \in Streams
BY ConstantsAssumption, StripeAssumption, PlacesFinite DEF Streams, Places

\* end_remainder, as CreateThreads and Collect compute it, completes the rows.
LEMMA NextRemainder ==
  ASSUME TypeOK
  PROVE  /\ (Elems - (Mult - end_remainder)) % Mult \in Streams
         /\ Elems % Mult \in Streams
         /\ \E rows \in Nat : Elems = (Mult - end_remainder) + rows * Mult
                                       + ((Elems - (Mult - end_remainder)) % Mult)
         /\ \E rows \in Nat : Elems = (Mult - 0) + rows * Mult + (Elems % Mult)
<1>1. end_remainder \in 0..(Mult - 1)
  BY Sizes DEF TypeOK
<1> DEFINE m == Elems - (Mult - end_remainder)
<1>2. m \in Nat /\ Elems \in Nat /\ Elems - Mult \in Nat
  BY <1>1, Sizes
<1> HIDE DEF m
<1>3. m = (m \div Mult) * Mult + (m % Mult) /\ m \div Mult \in Nat /\ m % Mult \in 0..(Mult - 1)
  BY <1>2, Sizes, Division
<1>4. /\ Elems - Mult = ((Elems - Mult) \div Mult) * Mult + ((Elems - Mult) % Mult)
      /\ (Elems - Mult) \div Mult \in Nat
      /\ (Elems - Mult) % Mult \in 0..(Mult - 1)
  BY <1>2, Sizes, Division
<1>5. (Elems - Mult) % Mult = Elems % Mult
  <2> DEFINE q == (Elems - Mult) \div Mult
             r == (Elems - Mult) % Mult
  <2>1. (q + 1) * Mult = q * Mult + Mult
    BY <1>4, Sizes
  <2>2. Elems = (q + 1) * Mult + r /\ q + 1 \in Nat
    BY <1>4, <2>1, Sizes
  <2> HIDE DEF q, r
  <2>3. r \in 0..(Mult - 1)
    BY <1>4 DEF r
  <2>4. Elems % Mult = r
    BY <2>2, <2>3, Sizes, DivMod
  <2> QED
    BY <2>4 DEF r
<1>6. Elems = (Mult - end_remainder) + (m \div Mult) * Mult + (m % Mult)
  <2>1. Elems = (Mult - end_remainder) + m
    BY <1>1, Sizes DEF m
  <2>2. (m \div Mult) * Mult \in Nat
    BY <1>3, Sizes, Product
  <2> QED
    BY <1>1, <1>3, <2>1, <2>2, Sizes
<1>7. Elems = (Mult - 0) + ((Elems - Mult) \div Mult) * Mult + (Elems % Mult)
  <2>1. ((Elems - Mult) \div Mult) * Mult \in Nat
    BY <1>4, Sizes
  <2> QED
    BY <1>4, <1>5, <2>1, Sizes
<1>8. m % Mult \in Streams /\ Elems % Mult \in Streams
  BY <1>3, <1>4, <1>5, Sizes
<1> QED
  BY <1>3, <1>4, <1>6, <1>7, <1>8 DEF m

\* Every step keeps the types; where a step counts or stores, the invariant bounds it.
LEMMA TypeStep ==
  ASSUME IInv, [Next]_vars
  PROVE  TypeOK'
<1> USE DEF environment, session, counts, barrier, locals, thread, buffers
<1>t. TypeOK /\ Len(content) \in Nat /\ Len(handed) \in Nat
  <2>1. TypeOK
    BY DEF IInv
  <2>2. content \in Seq(Buffers) /\ handed \in Seq(0..BufSize)
    BY <2>1 DEF TypeOK, Buffers
  <2> QED
    BY <2>1, <2>2, LenProperties
<1>1. CASE Setup
  BY <1>1, <1>t DEF Setup, TypeOK, MainPlaces
<1>2. CASE Accept
  <2>1. Connections \subseteq Streams
    BY Sizes DEF Connections
  <2> QED
    BY <1>2, <1>t, <2>1 DEF Accept, TypeOK, MainPlaces
<1>3. CASE AcceptFails
  BY <1>3, <1>t DEF AcceptFails, TypeOK, MainPlaces
<1>4. CASE AcceptedEnough
  BY <1>4, <1>t DEF AcceptedEnough, TypeOK, MainPlaces
<1>5. CASE GetFirst
  <2>1. CASE Refused
    <3>1. be' = 0 /\ be' \in 0..Len(content) /\ UNCHANGED <<inc, buffers>>
      BY <1>t, <2>1 DEF Refused
    <3> QED
      BY <1>5, <1>t, <3>1 DEF GetFirst, TypeOK, MainPlaces
  <2>2. CASE TakeBuffer
    <3>1. /\ content' \in Seq(Buffers) /\ handed' \in Seq(0..BufSize)
          /\ Len(content') = Len(content) + 1 /\ Len(handed') = Len(content) + 1
          /\ be' = Len(content) + 1 /\ inc' = 0
      BY <1>t, <2>2, TakeBufferEffect
    <3>2. be' \in 0..Len(content') /\ tbuf \in [Streams -> 0..Len(content')]
      <4>1. tbuf \in [Streams -> 0..Len(content)]
        BY <1>t DEF TypeOK
      <4>2. 0..Len(content) \subseteq 0..Len(content') /\ be' \in 0..Len(content')
        BY <1>t, <3>1
      <4> QED
        BY <4>1, <4>2
    <3> QED
      BY <1>5, <1>t, <3>1, <3>2 DEF GetFirst, TypeOK, MainPlaces, Buffers
  <2> QED
    BY <1>5, <2>1, <2>2 DEF GetFirst
<1>6. CASE ChangeBuffer
  <2>1. inc = BufSize /\ be \in 1..Len(content)
    <3>1. be \in 0..Len(content) /\ be # 0
      BY <1>6, <1>t DEF ChangeBuffer, IInv, MainInv, Changing, TypeOK
    <3>2. CASE loop = "multi"
      BY <1>6, <1>t, <3>1, <3>2 DEF ChangeBuffer, IInv, BarrierInv, Turning, Changing
    <3>3. CASE loop # "multi"
      BY <1>6, <1>t, <3>1, <3>3 DEF ChangeBuffer, IInv, SingleInv
    <3> QED
      BY <3>2, <3>3
  <2>2. handed' \in Seq(0..BufSize) /\ Len(handed') = Len(handed)
    <3>1. inc \in 0..BufSize /\ handed' = [handed EXCEPT ![be] = inc]
      BY <1>6, <2>1, Sizes DEF ChangeBuffer
    <3> QED
      BY <1>t, <2>1, <3>1, HandOverEffect
  <2>3. total_packets' \in Nat /\ n_packets' \in Nat
    BY <1>6, <1>t, Sizes DEF ChangeBuffer, TypeOK
  <2> QED
    BY <1>6, <1>t, <2>2, <2>3 DEF ChangeBuffer, TypeOK, MainPlaces
<1>7. CASE Regain
  <2>1. CASE Refused
    <3>1. be' = 0 /\ be' \in 0..Len(content) /\ UNCHANGED <<inc, buffers>>
      BY <1>t, <2>1 DEF Refused
    <3> QED
      BY <1>7, <1>t, <3>1 DEF Regain, TypeOK, MainPlaces
  <2>2. CASE TakeBuffer
    <3>1. /\ content' \in Seq(Buffers) /\ handed' \in Seq(0..BufSize)
          /\ Len(content') = Len(content) + 1 /\ Len(handed') = Len(content) + 1
          /\ be' = Len(content) + 1 /\ inc' = 0
      BY <1>t, <2>2, TakeBufferEffect
    <3>2. be' \in 0..Len(content') /\ tbuf \in [Streams -> 0..Len(content')]
      <4>1. tbuf \in [Streams -> 0..Len(content)]
        BY <1>t DEF TypeOK
      <4>2. 0..Len(content) \subseteq 0..Len(content') /\ be' \in 0..Len(content')
        BY <1>t, <3>1
      <4> QED
        BY <4>1, <4>2
    <3> QED
      BY <1>7, <1>t, <3>1, <3>2 DEF Regain, TypeOK, MainPlaces, Buffers
  <2> QED
    BY <1>7, <2>1, <2>2 DEF Regain
<1>8. CASE Single
  BY <1>8, <1>t DEF Single, TypeOK, MainPlaces
<1>9. CASE SingleRecv
  <2>1. PICK n \in recv(0, BufSize - inc) :
          IF n > 0
          THEN /\ Store(0, n, be, inc) /\ inc' = inc + n
               /\ pc' = IF inc' = BufSize THEN "change" ELSE "single"
          ELSE pc' = "finish" /\ UNCHANGED <<taken, inc, content>>
    BY <1>9 DEF SingleRecv
  <2>2. n \in Int
    <3>1. BufSize - inc \in Nat \ {0}
      BY <1>9, <1>t, Sizes DEF SingleRecv, IInv, MainInv, SingleInv, TypeOK
    <3> QED
      BY <1>t, <2>1, <3>1, Sizes, RecvBounds
  <2>3. be \in 1..Len(content)
    BY <1>9, <1>t DEF SingleRecv, IInv, MainInv, TypeOK
  <2>4. CASE n > 0
    <3>1. n \in Nat /\ inc \in Nat
      BY <1>t, <2>2, <2>4 DEF TypeOK
    <3>2. taken' \in [Streams -> Nat] /\ content' \in Seq(Buffers) /\ Len(content') = Len(content)
      BY <1>t, <2>1, <2>3, <2>4, <3>1, Sizes, StoreEffect
    <3> QED
      <4>1. inc' \in Nat /\ pc' \in {"change", "single"}
        BY <2>1, <2>4, <3>1
      <4> QED
        BY <1>9, <1>t, <3>2, <4>1 DEF SingleRecv, TypeOK, MainPlaces, Buffers
  <2>5. CASE ~(n > 0)
    BY <1>9, <1>t, <2>1, <2>5 DEF SingleRecv, TypeOK, MainPlaces
  <2> QED
    BY <2>4, <2>5
<1>10. CASE CreateThreads
  <2>1. be \in 0..Len(content)
    BY <1>t DEF TypeOK
  <2>2. PICK n \in 0..Mult :
          /\ tpc' = [s \in Streams |-> IF s < n THEN "top" ELSE "none"]
          /\ tstatus' = [s \in Streams |-> IF s < n THEN {KEEP} ELSE {}]
          /\ tbuf' = [s \in Streams |-> IF s < n THEN be ELSE 0]
          /\ pc' = IF n = Mult THEN "loop" ELSE "join"
    <3>1. (IF "create" \in Faults THEN 0..Mult ELSE {Mult}) \subseteq 0..Mult
      BY Sizes
    <3> QED
      BY <1>10, <3>1 DEF CreateThreads
  <2>3. /\ tpc' \in [Streams -> ThreadPlaces] /\ tstatus' \in [Streams -> SUBSET Flags]
        /\ tbuf' \in [Streams -> 0..Len(content)] /\ pc' \in MainPlaces
    BY <1>t, <2>1, <2>2 DEF MainPlaces, ThreadPlaces, Flags
  <2>4. start_remainder' \in Streams /\ end_remainder' \in Streams
    BY <1>10, <1>t, NextRemainder, Sizes DEF CreateThreads
  <2> QED
    BY <1>10, <1>t, <2>3, <2>4 DEF CreateThreads, TypeOK
<1>11. CASE MainLoop
  BY <1>11, <1>t DEF MainLoop, TypeOK, MainPlaces
<1>12. CASE Collect
  <2>1. Visited \in SUBSET Streams /\ Ended("CLEAN_EXIT") \in SUBSET Streams
    BY DEF Visited, Ended
  <2>2. /\ Cardinality(Ended("CLEAN_EXIT")) \in Nat
        /\ Cardinality(Ended("CLEAN_EXIT")) <= Mult /\ active_threads = Mult
    BY <1>12, <2>1, PlacesFinite, FS_Subset, FS_CardinalityType DEF Collect, IInv, BarrierInv, Gathering
  <2>3. active_threads' \in 0..Mult
    BY <1>12, <2>2, Sizes DEF Collect
  <2>4. inc' \in Nat
    <3>1. inc \in Nat /\ inc' = inc + Reported(Visited)
      BY <1>12, <1>t DEF Collect, TypeOK
    <3> QED
      BY <2>1, <3>1, ReportedFinite
  <2>5. bytes_received' \in [Streams -> Nat]
    BY <1>12, <1>t DEF Collect, TypeOK
  <2>6. start_remainder' \in Streams /\ end_remainder' \in Streams
    BY <1>12, <1>t, NextRemainder DEF Collect, TypeOK
  <2> QED
    BY <1>12, <1>t, <2>3, <2>4, <2>5, <2>6 DEF Collect, TypeOK, MainPlaces
<1>13. CASE Release
  <2>1. be \in 0..Len(content)
    BY <1>t DEF TypeOK
  <2>2. /\ tbuf' \in [Streams -> 0..Len(content)] /\ tstatus' \in [Streams -> SUBSET Flags]
        /\ tpc' \in [Streams -> ThreadPlaces] /\ threads_ready' \in 0..Mult
    <3>1. /\ tbuf \in [Streams -> 0..Len(content)] /\ tstatus \in [Streams -> SUBSET Flags]
          /\ tpc \in [Streams -> ThreadPlaces] /\ {KEEP} \in SUBSET Flags
      BY <1>t DEF TypeOK, Flags
    <3>2. tbuf' \in [Streams -> 0..Len(content)]
      BY <1>13, <2>1 DEF Release, FromStreams
    <3>3. tstatus' \in [Streams -> SUBSET Flags]
      BY <1>13, <3>1 DEF Release
    <3>4. tpc' \in [Streams -> ThreadPlaces]
      BY <1>13, <3>1 DEF Release, Broadcast, ThreadPlaces
    <3>5. threads_ready' \in 0..Mult
      BY <1>13, Sizes DEF Release
    <3> QED
      BY <3>2, <3>3, <3>4, <3>5
  <2> QED
    BY <1>13, <1>t, <2>2 DEF Release, TypeOK, MainPlaces
<1>14. CASE Rundown
  <2>1. inc' \in Nat
    <3>1. inc \in Nat /\ inc' = inc + Reported(Streams)
      BY <1>14, <1>t DEF Rundown, TypeOK
    <3> QED
      BY <3>1, ReportedFinite
  <2> QED
    BY <1>14, <1>t, <2>1 DEF Rundown, TypeOK, MainPlaces, ThreadPlaces, FromStreams, Broadcast
<1>15. CASE Finish
  <2>1. CASE handed' = handed
    <3>1. inc \div PacketSize \in Nat
      BY <1>t, Sizes, Division DEF TypeOK
    <3>2. /\ be' \in 0..Len(content) /\ inc' \in Nat /\ n_packets' \in Nat /\ total_packets' \in Nat
          /\ status' \in {"RUNNING", "STOPPED", "ERROR"} /\ pc' \in MainPlaces
      <4>1. /\ be \in 0..Len(content) /\ 0 \in 0..Len(content) /\ inc \in Nat
            /\ n_packets \in Nat /\ total_packets \in Nat
            /\ status \in {"RUNNING", "STOPPED", "ERROR"}
        BY <1>t DEF TypeOK
      <4>2. CASE be = 0
        BY <1>15, <4>1, <4>2 DEF Finish, MainPlaces
      <4>3. CASE be # 0
        BY <1>15, <3>1, <4>1, <4>3 DEF Finish, MainPlaces
      <4> QED
        BY <4>2, <4>3
    <3> QED
      BY <1>15, <1>t, <2>1, <3>2 DEF Finish, TypeOK
  <2>2. CASE handed' # handed
    <3>1. be # 0 /\ inc \in 0..BufSize /\ handed' = [handed EXCEPT ![be] = inc]
      BY <1>15, <1>t, <2>2 DEF Finish, IInv, MainInv, TypeOK
    <3>2. be \in 1..Len(content)
      BY <1>t, <3>1 DEF TypeOK
    <3>3. handed' \in Seq(0..BufSize) /\ Len(handed') = Len(handed)
      BY <1>t, <3>1, <3>2, HandOverEffect
    <3>4. inc \div PacketSize \in Nat
      BY <1>t, Sizes, Division DEF TypeOK
    <3>5. /\ be' \in 0..Len(content) /\ inc' \in Nat /\ n_packets' \in Nat /\ total_packets' \in Nat
          /\ status' \in {"RUNNING", "STOPPED", "ERROR"} /\ pc' \in MainPlaces
      <4>1. /\ be \in 0..Len(content) /\ 0 \in 0..Len(content) /\ inc \in Nat
            /\ n_packets \in Nat /\ total_packets \in Nat
            /\ status \in {"RUNNING", "STOPPED", "ERROR"}
        BY <1>t DEF TypeOK
      <4> QED
        BY <1>15, <3>1, <3>4, <4>1 DEF Finish, MainPlaces
    <3> QED
      BY <1>15, <1>t, <3>3, <3>5 DEF Finish, TypeOK
  <2> QED
    BY <2>1, <2>2
<1>16. CASE Join
  BY <1>16, <1>t DEF Join, TypeOK, MainPlaces
<1>17. CASE CloseSocket
  BY <1>17, <1>t DEF CloseSocket, TypeOK, MainPlaces
<1>18. CASE stop_streamer
  BY <1>18, <1>t DEF stop_streamer, TypeOK, MainPlaces
<1>19. ASSUME NEW s \in Streams, Top(s) PROVE TypeOK'
  BY <1>19, <1>t DEF Top, TypeOK, ThreadPlaces
<1>20. ASSUME NEW s \in Streams, Lock(s) PROVE TypeOK'
  BY <1>20, <1>t DEF Lock, TypeOK, ThreadPlaces
<1>21. ASSUME NEW s \in Streams, Begin(s) PROVE TypeOK'
  <2>1. Quota(s) \in Nat /\ First(s) \in Nat /\ 0 \in 0..(PacketSize - 1)
    <3>1. Remainders
      BY <1>21, ThreadRuns DEF Begin
    <3>2. Quota(s) \in Nat /\ First(s) \in 0..(Mult - 1)
      BY <3>1, StripeFits
    <3> QED
      BY <3>2, Sizes
  <2> QED
    BY <1>21, <1>t, <2>1 DEF Begin, TypeOK, ThreadPlaces, Quota, First
<1>22. ASSUME NEW s \in Streams, Check(s) PROVE TypeOK'
  <2>1. PacketSize * packets_ready[s] \in Nat
    BY <1>t, Sizes, Product DEF TypeOK
  <2>2. /\ tpc' \in [Streams -> ThreadPlaces]
        /\ bytes_received' \in [Streams -> Nat]
    <3>1. tpc \in [Streams -> ThreadPlaces] /\ bytes_received \in [Streams -> Nat]
      BY <1>t DEF TypeOK
    <3>2. tpc' = [tpc EXCEPT ![s] = "recv"] \/ tpc' = [tpc EXCEPT ![s] = "report"]
      BY <1>22 DEF Check
    <3>3. \/ bytes_received' = bytes_received
          \/ bytes_received' = [bytes_received EXCEPT ![s] = PacketSize * packets_ready[s]]
      BY <1>22 DEF Check
    <3>4. tpc' \in [Streams -> ThreadPlaces]
      BY <3>1, <3>2 DEF ThreadPlaces
    <3>5. bytes_received' \in [Streams -> Nat]
      BY <2>1, <3>1, <3>3
    <3> QED
      BY <3>4, <3>5
  <2>3. UNCHANGED <<environment, taken, session, fd, pc, be, inc, counts, barrier, tstatus, tbuf,
                    locals, buffers>>
    BY <1>22 DEF Check
  <2> QED
    BY <1>t, <2>2, <2>3 DEF TypeOK, environment, session, counts, barrier, locals, buffers
<1>23. ASSUME NEW s \in Streams, Recv(s) PROVE TypeOK'
  <2>1. offset[s] \in 0..(PacketSize - 1) /\ spot[s] \in Nat /\ packets_ready[s] \in Nat
    BY <1>t DEF TypeOK
  <2>2. PICK n \in recv(s, PacketSize - offset[s]) :
       /\ n > 0
       /\ Store(s, n, tbuf[s], spot[s] * PacketSize + offset[s])
       /\ IF offset[s] + n >= PacketSize
          THEN /\ packets_ready' = [packets_ready EXCEPT ![s] = @ + 1]
               /\ spot' = [spot EXCEPT ![s] = @ + Mult]
               /\ offset' = [offset EXCEPT ![s] = 0]
          ELSE /\ offset' = [offset EXCEPT ![s] = @ + n]
               /\ UNCHANGED <<packets_ready, spot>>
    BY <1>23 DEF Recv
  <2>3. n \in Nat
    <3>1. PacketSize - offset[s] \in Nat \ {0}
      BY <2>1, Sizes
    <3> QED
      BY <1>t, <2>2, <3>1, RecvBounds
  <2>4. tbuf[s] \in 1..Len(content) /\ spot[s] * PacketSize + offset[s] \in Nat
    <3>1. Progress(s)
      BY <1>23 DEF Recv, IInv, ThreadInv, Local, InRound
    <3>2. spot[s] * PacketSize \in Nat
      BY <2>1, Sizes, Product
    <3>3. spot[s] * PacketSize + offset[s] \in Nat
      <4> DEFINE start == spot[s] * PacketSize
      <4>1. start \in Nat /\ offset[s] \in Nat
        BY <2>1, <3>2
      <4> HIDE DEF start
      <4>2. start + offset[s] \in Nat
        BY <4>1
      <4> QED
        BY <4>2 DEF start
    <3> QED
      BY <3>1, <3>3 DEF Progress
  <2>5. taken' \in [Streams -> Nat] /\ content' \in Seq(Buffers) /\ Len(content') = Len(content)
    BY <1>t, <2>2, <2>3, <2>4, StoreEffect
  <2>6. /\ packets_ready' \in [Streams -> Nat] /\ spot' \in [Streams -> Nat]
        /\ offset' \in [Streams -> 0..(PacketSize - 1)]
    <3>1. /\ packets_ready \in [Streams -> Nat] /\ spot \in [Streams -> Nat]
          /\ offset \in [Streams -> 0..(PacketSize - 1)]
      BY <1>t DEF TypeOK
    <3>2. CASE offset[s] + n >= PacketSize
      <4>1. packets_ready' \in [Streams -> Nat]
        BY <2>1, <2>2, <3>1, <3>2
      <4>2. spot' \in [Streams -> Nat]
        <5>1. spot[s] + Mult \in Nat
          BY <2>1, Sizes
        <5> QED
          BY <2>2, <3>1, <3>2, <5>1
      <4>3. offset' \in [Streams -> 0..(PacketSize - 1)]
        <5>1. 0 \in 0..(PacketSize - 1)
          BY <2>1, <2>2, <3>1, <3>2, Sizes
        <5> QED
          BY <2>1, <2>2, <3>1, <3>2, <5>1
      <4> QED
        BY <4>1, <4>2, <4>3
    <3>3. CASE ~(offset[s] + n >= PacketSize)
      <4>1. packets_ready' \in [Streams -> Nat]
        BY <2>1, <2>2, <2>3, <3>1, <3>3
      <4>2. spot' \in [Streams -> Nat]
        BY <2>1, <2>2, <2>3, <3>1, <3>3, Sizes
      <4>3. offset' \in [Streams -> 0..(PacketSize - 1)]
        <5>1. offset[s] + n \in 0..(PacketSize - 1)
          <6> DEFINE o == offset[s]
          <6>1. o \in Nat /\ n \in Nat /\ PacketSize \in Nat /\ ~(o + n >= PacketSize)
            BY <2>1, <2>3, <3>3, Sizes
          <6> HIDE DEF o
          <6>2. o + n \in 0..(PacketSize - 1)
            BY <6>1
          <6> QED
            BY <6>2 DEF o
        <5>2. offset' = [offset EXCEPT ![s] = @ + n]
          BY <2>2, <3>3
        <5> QED
          BY <3>1, <5>1, <5>2
      <4> QED
        BY <4>1, <4>2, <4>3
    <3> QED
      BY <3>2, <3>3
  <2> QED
    BY <1>23, <1>t, <2>5, <2>6 DEF Recv, TypeOK, ThreadPlaces, Buffers
<1>24. ASSUME NEW s \in Streams, RecvEnds(s) PROVE TypeOK'
  <2>1. PacketSize * packets_ready[s] \in Nat
    BY <1>t, Sizes, Product DEF TypeOK
  <2>2. tstatus' \in [Streams -> SUBSET Flags]
    BY <1>24, <1>t DEF RecvEnds, TypeOK, Flags
  <2> QED
    BY <1>24, <1>t, <2>1, <2>2 DEF RecvEnds, TypeOK, ThreadPlaces
<1>25. ASSUME NEW s \in Streams, Report(s) PROVE TypeOK'
  BY <1>25, <1>t DEF Report, TypeOK, ThreadPlaces
<1>26. ASSUME NEW s \in Streams, Signal(s) PROVE TypeOK'
  <2>1. threads_ready + 1 \in 0..Mult
    BY <1>26, SignalCounts DEF Signal
  <2> QED
    BY <1>26, <1>t, <2>1 DEF Signal, TypeOK, ThreadPlaces, Flags, FULL
<1>27. CASE UNCHANGED vars
  BY <1>27, <1>t DEF vars, TypeOK
<1> QED
  BY <1>1, <1>2, <1>3, <1>4, <1>5, <1>6, <1>7, <1>8, <1>9, <1>10, <1>11, <1>12, <1>13, <1>14, <1>15, <1>16, <1>17, <1>18, <1>19, <1>20, <1>21, <1>22, <1>23, <1>24, <1>25, <1>26, <1>27
  DEF Next, Main, threaded_multistream

-----------------------------------------------------------------------------
(* What a step changes                                                       *)

\* Nothing that was written is lost.
Grows ==
  /\ Len(content') >= Len(content)
  /\ \A b \in 1..Len(content), p \in Places : Written(b, p) => Written(b, p)'

\* Only buffer b is written, and with the bytes that belong there.
Writes(b) ==
  /\ Len(content') = Len(content)
  /\ \A c \in 1..Len(content) : c # b => content'[c] = content[c]
  /\ \A p \in Places : \/ content'[b][p] = content[b][p]
                       \/ content'[b][p] = Original(b, p) /\ content'[b][p] # <<>>

\* A step that leaves a thread in its place of the buffer, and all of it, alone.
SameWork(r) ==
  /\ tbuf'[r] = tbuf[r] /\ taken'[r] = taken[r]
  /\ max_packets'[r] = max_packets[r] /\ packets_ready'[r] = packets_ready[r]
  /\ spot'[r] = spot[r] /\ offset'[r] = offset[r]

SameThread(r) ==
  /\ SameWork(r)
  /\ tpc'[r] = tpc[r] /\ tstatus'[r] = tstatus[r] /\ read'[r] = read[r]
  /\ bytes_received'[r] = bytes_received[r]

\* The remainders stay.
Row == UNCHANGED <<start_remainder, end_remainder>>

\* Bytes are only added to a buffer: by a write,
LEMMA WritesGrows ==
  ASSUME TypeOK, NEW b \in 1..Len(content), Writes(b)
  PROVE  Grows
<1>1. Len(content) \in Nat
  <2>1. content \in Seq(Buffers)
    BY DEF TypeOK, Buffers
  <2> QED
    BY <2>1, LenProperties
<1>2. ASSUME NEW c \in 1..Len(content), NEW p \in Places, Written(c, p)
      PROVE  Written(c, p)'
  BY <1>2 DEF Writes, Written
<1> QED
  BY <1>1, <1>2 DEF Writes, Grows

\* by a step that touches no buffer,
LEMMA SameGrows ==
  ASSUME TypeOK, UNCHANGED content
  PROVE  Grows
<1>1. content \in Seq(Buffers)
  BY DEF TypeOK, Buffers
<1>2. Len(content) \in Nat
  BY <1>1, LenProperties
<1> QED
  BY <1>2 DEF Grows, Written

\* and by one that takes a new one.
LEMMA TakeGrows ==
  ASSUME TypeOK, TakeBuffer
  PROVE  Grows
<1>1. content \in Seq(Buffers)
  BY DEF TypeOK, Buffers
<1>2. Len(content) \in Nat
  BY <1>1, LenProperties
<1>3. Len(content') = Len(content) + 1 /\ \A c \in 1..Len(content) : content'[c] = content[c]
  BY TakeBufferEffect
<1> QED
  BY <1>2, <1>3 DEF Grows, Written

\* What a thread is in the middle of does not depend on the other threads:
LEMMA SameBytes ==
  ASSUME NEW r \in Streams, SameWork(r), NEW k, NEW o
  PROVE  At(r, k, o)' <=> At(r, k, o)
BY DEF SameWork, At, Base

\* where it is,
LEMMA SamePlaces ==
  ASSUME NEW r \in Streams, SameThread(r)
  PROVE  /\ Fresh(r)' <=> Fresh(r)
         /\ InRound(r)' <=> InRound(r)
         /\ Done(r)' <=> Done(r)
         /\ Parked(r)' <=> Parked(r)
         /\ Broken(r)' <=> Broken(r)
BY DEF SameThread, Fresh, InRound, Done, Parked, Broken

\* which places it wrote,
LEMMA ProgressPlaces ==
  ASSUME TypeOK, Remainders, NEW s \in Streams, Progress(s),
         NEW j \in 0..packets_ready[s], NEW o \in 0..(PacketSize - 1),
         j < packets_ready[s] \/ o < offset[s]
  PROVE  PlaceOf(s, j, o) \in Places
<1>1. /\ packets_ready[s] \in Nat /\ packets_ready[s] <= Quota(s) /\ Quota(s) \in Nat
      /\ offset[s] > 0 => packets_ready[s] < Quota(s)
  <2>1. Quota(s) \in Nat
    BY StripeFits
  <2> QED
    BY <2>1 DEF TypeOK, Progress
<1>2. offset[s] \in Nat
  BY Sizes DEF TypeOK
<1>3. j \in Nat /\ j < Quota(s)
  BY <1>1, <1>2, Sizes
<1> QED
  BY <1>3, PlaceInBuffer

\* how far it is,
LEMMA SameProgress ==
  ASSUME NEW r \in Streams, SameWork(r), Grows, Row, TypeOK, Remainders, Progress(r)
  PROVE  Progress(r)'
<1>1. First(r)' = First(r) /\ Quota(r)' = Quota(r)
  BY DEF Row, First, Quota
<1>2. At(r, spot[r], offset[r])'
  BY DEF Progress, SameWork, At, Base
<1>3. spot'[r] = spot[r] /\ offset'[r] = offset[r] /\ tbuf'[r] = tbuf[r]
        /\ packets_ready'[r] = packets_ready[r] /\ max_packets'[r] = max_packets[r]
  BY DEF SameWork
<1>4. tbuf[r] \in 1..Len(content) /\ Len(content') >= Len(content)
  BY DEF Progress, Grows
<1>5. ASSUME NEW j \in 0..packets_ready[r], NEW o \in 0..(PacketSize - 1),
             j < packets_ready[r] \/ o < offset[r]
      PROVE  content'[tbuf'[r]][PlaceOf(r, j, o)'] # <<>>
  <2>1. PlaceOf(r, j, o) \in Places /\ PlaceOf(r, j, o)' = PlaceOf(r, j, o)
    BY <1>1, <1>5, ProgressPlaces DEF PlaceOf
  <2>2. Written(tbuf[r], PlaceOf(r, j, o))
    BY <1>5 DEF Progress
  <2> QED
    BY <1>3, <1>4, <2>1, <2>2 DEF Grows, Written
<1>6. tbuf'[r] \in 1..Len(content')
  <2>1. content \in Seq(Buffers)
    BY DEF TypeOK, Buffers
  <2>2. Len(content) \in Nat
    BY <2>1, LenProperties
  <2>3. Len(content') \in Int
    BY DEF Grows
  <2> QED
    BY <1>3, <1>4, <2>2
<1> QED
  BY <1>1, <1>2, <1>3, <1>5, <1>6 DEF Progress, Written

\* what it tells the session's thread,
LEMMA SameWaiting ==
  ASSUME NEW r \in Streams, SameThread(r), Grows, Row, TypeOK, Remainders, be' = be, Waiting(r)
  PROVE  Waiting(r)'
<1>1. Progress(r) => Progress(r)'
  BY SameProgress DEF SameThread
<1>2. /\ Fresh(r)' <=> Fresh(r)
      /\ InRound(r)' <=> InRound(r)
      /\ Done(r)' <=> Done(r)
      /\ Parked(r)' <=> Parked(r)
      /\ Broken(r)' <=> Broken(r)
  BY SamePlaces
<1> QED
  BY <1>1, <1>2 DEF Waiting, SameThread, SameWork

\* and what it knows of itself.
LEMMA SameLocal ==
  ASSUME NEW r \in Streams, SameThread(r), Grows, Row, TypeOK,
         tpc[r] # "none" => Remainders, Local(r)
  PROVE  Local(r)'
<1>1. InRound(r) => Progress(r)'
  BY SameProgress DEF Local, InRound, SameThread
<1>2. /\ Fresh(r)' <=> Fresh(r)
      /\ InRound(r)' <=> InRound(r)
  BY SamePlaces
<1>3. Fresh(r) => tbuf'[r] \in 1..Len(content') /\ At(r, First(r), 0)'
  <2>1. content \in Seq(Buffers)
    BY DEF TypeOK, Buffers
  <2>2. Len(content) \in Nat /\ Len(content') \in Int /\ Len(content') >= Len(content)
    BY <2>1, LenProperties DEF Grows
  <2>3. At(r, First(r), 0) => At(r, First(r), 0)'
    BY DEF SameThread, SameWork, At, Base, First, Row
  <2> QED
    BY <2>2, <2>3 DEF Local, SameThread, SameWork
<1> QED
  BY <1>1, <1>2, <1>3 DEF Local, SameThread, SameWork

\* The only step that writes while it changes a thread: the bytes go where the
\* recording has them, and the thread keeps its place.
LEMMA ReceiveEffect ==
  ASSUME IInv, NEW s \in Streams, Recv(s)
  PROVE  tbuf[s] \in 1..Len(content) /\ Writes(tbuf[s]) /\ Progress(s)'
<1>1. TypeOK /\ tpc[s] = "recv" /\ Progress(s) /\ packets_ready[s] < max_packets[s]
  BY DEF Recv, IInv, ThreadInv, Local, InRound
<1>2. loop = "multi" /\ Remainders
  BY <1>1, ThreadRuns
<1> DEFINE b == tbuf[s]
           j == packets_ready[s]
           k == spot[s]
           o == offset[s]
           start == k * PacketSize
           place == start + o
<1>3. /\ j \in Nat /\ k \in Nat /\ o \in Nat /\ o < PacketSize
      /\ b \in 1..Len(content) /\ b \in Nat \ {0} /\ j < Quota(s) /\ Quota(s) \in Nat
  <2>1. j \in Nat /\ k \in Nat /\ o \in Nat /\ o < PacketSize
    <3>1. packets_ready[s] \in Nat /\ spot[s] \in Nat /\ offset[s] \in 0..(PacketSize - 1)
      BY <1>1 DEF TypeOK
    <3> QED
      BY <3>1, Sizes
  <2>2. Quota(s) \in Nat
    BY <1>2, StripeFits
  <2>3. b \in 1..Len(content) /\ j < Quota(s)
    BY <1>1 DEF Progress
  <2>4. b \in Nat \ {0}
    BY <2>3
  <2> QED
    BY <2>1, <2>2, <2>3, <2>4
<1>a. k = First(s) + Mult * j
  BY <1>1 DEF Progress
<1>b. start \in Nat /\ place \in Nat
  <2> HIDE DEF k, o
  <2>1. start \in Nat
    BY <1>3, Sizes, Product
  <2> HIDE DEF start
  <2> QED
    BY <1>3, <2>1
<1>4. PICK row \in Nat : taken[s] = row * PacketSize + o /\ Base(b) + k = row * Mult + s
  BY <1>1 DEF Progress, At
<1>5. PICK n \in recv(s, PacketSize - o) :
       /\ n > 0
       /\ Store(s, n, b, place)
       /\ IF o + n >= PacketSize
          THEN /\ packets_ready' = [packets_ready EXCEPT ![s] = @ + 1]
               /\ spot' = [spot EXCEPT ![s] = @ + Mult]
               /\ offset' = [offset EXCEPT ![s] = 0]
          ELSE /\ offset' = [offset EXCEPT ![s] = @ + n]
               /\ UNCHANGED <<packets_ready, spot>>
  BY DEF Recv
<1> HIDE DEF b, j, k, o, start, place
<1>6. n \in Nat \ {0} /\ o + n <= PacketSize
  <2>1. PacketSize - o \in Nat \ {0}
    BY <1>3, Sizes
  <2>2. n \in Int /\ n <= PacketSize - o
    BY <1>1, <1>5, <2>1, RecvBounds
  <2> QED
    BY <1>3, <1>5, <2>2, Sizes
<1>7. /\ taken'[s] = taken[s] + n
      /\ Len(content') = Len(content)
      /\ \A c \in 1..Len(content) : c # b => content'[c] = content[c]
      /\ \A p \in Places : content'[b][p] =
           IF p \in place..(place + n - 1) THEN <<s, taken[s] + p - place>> ELSE content[b][p]
  BY <1>1, <1>3, <1>b, <1>5, <1>6, StoreEffect
<1>8. row * PacketSize \in Nat
  BY Sizes, Product
<1>9. ASSUME NEW p \in Places, p \in place..(place + n - 1)
      PROVE  content'[b][p] = Original(b, p) /\ content'[b][p] # <<>>
  <2> DEFINE i == p - place
  <2>1. i \in Nat /\ o + i \in 0..(PacketSize - 1) /\ p = start + (o + i)
    <3>1. p \in Nat
      BY Sizes
    <3>2. i \in Nat /\ i < n /\ p = place + i
      BY <1>b, <1>6, <1>9, <3>1
    <3> HIDE DEF i
    <3>3. p = start + (o + i)
      BY <1>3, <1>b, <3>2 DEF place
    <3>4. o + i \in 0..(PacketSize - 1)
      BY <1>3, <1>6, <3>2, Sizes
    <3> QED
      BY <3>2, <3>3, <3>4
  <2>2. Original(b, p) = <<s, row * PacketSize + (o + i)>>
    <3> HIDE DEF i
    <3>1. p = k * PacketSize + (o + i)
      BY <2>1 DEF start
    <3> QED
      BY <1>2, <1>3, <1>4, <2>1, <3>1, OriginalAt
  <2>3. taken[s] + p - place = row * PacketSize + (o + i) /\ row * PacketSize + (o + i) \in Nat
    <3> DEFINE begin == row * PacketSize
    <3>1. taken[s] = begin + o /\ begin \in Nat
      BY <1>4, <1>8
    <3> HIDE DEF begin
    <3>2. p = place + i
      BY <1>b, Sizes
    <3> HIDE DEF i
    <3>3. taken[s] + p - place = begin + (o + i) /\ begin + (o + i) \in Nat
      BY <1>3, <1>b, <2>1, <3>1, <3>2
    <3> QED
      BY <3>3 DEF begin
  <2>4. content'[b][p] = <<s, row * PacketSize + (o + i)>>
    BY <1>7, <1>9, <2>3
  <2> QED
    BY <2>2, <2>3, <2>4, NotEmpty
<1>10. Writes(b)
  BY <1>7, <1>9 DEF Writes
<1>11. /\ tbuf' = tbuf /\ max_packets' = max_packets
       /\ First(s)' = First(s) /\ Quota(s)' = Quota(s)
  BY DEF Recv, First, Quota, barrier
<1>12. ASSUME NEW i \in Nat, NEW q \in 0..(PacketSize - 1), i < j \/ (i = j /\ q < o + n)
       PROVE  content'[b][PlaceOf(s, i, q)] # <<>>
  <2>1. PlaceOf(s, i, q) \in Places
    <3>1. i < Quota(s)
      BY <1>3, <1>12
    <3> QED
      BY <1>2, <3>1, PlaceInBuffer
  <2>2. CASE i < j \/ q < o
    <3>1. i \in 0..j
      BY <1>3, <1>12
    <3>2. Written(b, PlaceOf(s, i, q))
      BY <1>1, <2>2, <3>1 DEF Progress, b, j, o
    <3>3. Grows
      BY <1>1, <1>3, <1>10, WritesGrows
    <3> QED
      BY <1>3, <2>1, <3>2, <3>3 DEF Grows, Written
  <2>3. CASE ~(i < j \/ q < o)
    <3>1. i = j /\ q \in Nat /\ q >= o /\ q < o + n
      BY <1>3, <1>12, <2>3, Sizes
    <3>2. PlaceOf(s, i, q) = start + q
      BY <1>a, <3>1 DEF PlaceOf, start
    <3>3. PlaceOf(s, i, q) \in place..(place + n - 1)
      BY <1>3, <1>b, <1>6, <3>1, <3>2, Sizes DEF place
    <3> QED
      BY <1>9, <2>1, <3>3
  <2> QED
    BY <2>2, <2>3
<1>13. ASSUME o + n >= PacketSize PROVE Progress(s)'
  <2>1. /\ packets_ready'[s] = j + 1 /\ spot'[s] = k + Mult /\ offset'[s] = 0
    BY <1>1, <1>5, <1>13 DEF TypeOK, j, k
  <2>2. taken'[s] = (row + 1) * PacketSize + 0
    <3> DEFINE begin == row * PacketSize
    <3>1. (row + 1) * PacketSize = begin + PacketSize
      BY Sizes
    <3>2. taken[s] = begin + o /\ begin \in Nat
      BY <1>4, <1>8
    <3> HIDE DEF begin
    <3>3. taken'[s] = begin + PacketSize
      <4>1. o + n = PacketSize
        BY <1>3, <1>6, <1>13, Sizes
      <4>2. taken'[s] = (begin + o) + n
        BY <1>7, <3>2
      <4> QED
        BY <1>3, <1>6, <3>2, <4>1, <4>2, Sizes
    <3> QED
      BY <3>1, <3>2, <3>3, Sizes
  <2>3. Base(b) + (k + Mult) = (row + 1) * Mult + s
    <3> DEFINE rows == row * Mult
               base == Base(b)
    <3>1. (row + 1) * Mult = rows + Mult /\ rows \in Nat /\ s \in Nat
      BY Sizes
    <3>2. base \in Int /\ base + k = rows + s
      BY <1>3, <1>4, Sizes DEF Base
    <3> HIDE DEF rows, base
    <3>3. base + (k + Mult) = (rows + Mult) + s
      BY <1>3, <3>1, <3>2, Sizes
    <3> QED
      BY <3>1, <3>3 DEF base
  <2>4. At(s, spot[s], offset[s])'
    BY <1>11, <2>1, <2>2, <2>3 DEF At, Base, b
  <2>5. k + Mult = First(s) + Mult * (j + 1)
    <3> DEFINE done == Mult * j
    <3>1. Mult * (j + 1) = done + Mult /\ done \in Nat
      BY <1>3, Sizes
    <3>2. First(s) \in Nat
      BY <1>2, StripeFits, Sizes
    <3>3. k = First(s) + done
      BY <1>a
    <3> HIDE DEF done
    <3>4. k + Mult = First(s) + (done + Mult)
      BY <1>3, <3>1, <3>2, <3>3, Sizes
    <3> QED
      BY <3>1, <3>4
  <2>6. ASSUME NEW i \in 0..packets_ready'[s], NEW q \in 0..(PacketSize - 1),
               i < packets_ready'[s] \/ q < offset'[s]
        PROVE  content'[tbuf'[s]][PlaceOf(s, i, q)'] # <<>>
    <3>0. i \in 0..(j + 1) /\ (i < j + 1 \/ q < 0)
      BY <2>1, <2>6
    <3>1. i \in Nat /\ (i < j \/ (i = j /\ q < o + n))
      BY <1>3, <1>6, <1>13, <3>0, Sizes
    <3>2. PlaceOf(s, i, q)' = PlaceOf(s, i, q) /\ tbuf'[s] = b
      BY <1>11 DEF PlaceOf, b
    <3> QED
      BY <1>12, <3>1, <3>2
  <2>7. max_packets[s] = Quota(s)
    BY <1>1 DEF Progress
  <2>9. Len(content') = Len(content) /\ b \in 1..Len(content) /\ tbuf'[s] = b
    BY <1>3, <1>7, <1>11 DEF b
  <2>10. j + 1 \in 0..Quota(s)
    BY <1>3
  <2>11. /\ tbuf'[s] \in 1..Len(content') /\ max_packets'[s] = Quota(s)'
         /\ packets_ready'[s] \in 0..max_packets'[s] /\ ~(offset'[s] > 0)
    BY <1>11, <2>1, <2>7, <2>9, <2>10
  <2>12. spot'[s] = First(s)' + Mult * packets_ready'[s]
    BY <1>11, <2>1, <2>5
  <2> QED
    BY <2>4, <2>6, <2>11, <2>12 DEF Progress, Written
<1>14. ASSUME ~(o + n >= PacketSize) PROVE Progress(s)'
  <2>1. /\ packets_ready'[s] = j /\ spot'[s] = k /\ offset'[s] = o + n
    BY <1>1, <1>5, <1>14 DEF TypeOK, j, k, o
  <2>2. taken'[s] = row * PacketSize + (o + n)
    <3> DEFINE begin == row * PacketSize
    <3>1. taken[s] = begin + o /\ begin \in Nat
      BY <1>4, <1>8
    <3> HIDE DEF begin
    <3>2. taken'[s] = begin + (o + n)
      BY <1>3, <1>6, <1>7, <3>1
    <3> QED
      BY <3>2 DEF begin
  <2>4. At(s, spot[s], offset[s])'
    BY <1>4, <1>11, <2>1, <2>2 DEF At, Base, b
  <2>6. ASSUME NEW i \in 0..packets_ready'[s], NEW q \in 0..(PacketSize - 1),
               i < packets_ready'[s] \/ q < offset'[s]
        PROVE  content'[tbuf'[s]][PlaceOf(s, i, q)'] # <<>>
    <3>1. i \in Nat /\ (i < j \/ (i = j /\ q < o + n))
      BY <1>3, <2>1, <2>6
    <3>2. PlaceOf(s, i, q)' = PlaceOf(s, i, q) /\ tbuf'[s] = b
      BY <1>11 DEF PlaceOf, b
    <3> QED
      BY <1>12, <3>1, <3>2
  <2>7. max_packets[s] = Quota(s)
    BY <1>1 DEF Progress
  <2>9. Len(content') = Len(content) /\ b \in 1..Len(content) /\ tbuf'[s] = b
    BY <1>3, <1>7, <1>11 DEF b
  <2>10. j \in 0..Quota(s)
    BY <1>3
  <2>11. /\ tbuf'[s] \in 1..Len(content') /\ max_packets'[s] = Quota(s)'
         /\ packets_ready'[s] \in 0..max_packets'[s] /\ packets_ready'[s] < max_packets'[s]
    BY <1>3, <1>11, <2>1, <2>7, <2>9, <2>10
  <2>12. spot'[s] = First(s)' + Mult * packets_ready'[s]
    BY <1>a, <1>11, <2>1
  <2> QED
    BY <2>4, <2>6, <2>11, <2>12 DEF Progress, Written
<1> QED
  BY <1>3, <1>10, <1>13, <1>14 DEF b

\* The same for the loop of one stream.
LEMMA SingleEffect ==
  ASSUME IInv, NEW n \in recv(0, BufSize - inc), n > 0, pc = "recv",
         Store(0, n, be, inc), inc' = inc + n, UNCHANGED be
  PROVE  /\ be \in 1..Len(content) /\ Writes(be) /\ inc' <= BufSize
         /\ taken'[0] = (be - 1) * BufSize + inc'
         /\ \A p \in 0..(inc' - 1) : content'[be][p] # <<>>
<1>1. TypeOK /\ loop # "multi" /\ inc \in Nat /\ inc < BufSize /\ be \in 1..Len(content)
  <2>1. TypeOK /\ loop # "multi" /\ be # 0 /\ inc < BufSize
    BY DEF IInv, MainInv, SingleInv
  <2>2. be \in 0..Len(content) /\ inc \in Nat
    BY <2>1 DEF TypeOK
  <2> QED
    BY <2>1, <2>2
<1>2. taken[0] = (be - 1) * BufSize + inc /\ \A p \in 0..(inc - 1) : Written(be, p)
  BY <1>1 DEF IInv, SingleInv
<1>3. n \in Nat /\ inc + n <= BufSize
  <2>1. BufSize - inc \in Nat \ {0}
    BY <1>1, Sizes
  <2>2. n \in Int /\ n <= BufSize - inc
    BY <1>1, <2>1, Sizes, RecvBounds
  <2> QED
    BY <1>1, <2>2, Sizes
<1>4. /\ taken'[0] = taken[0] + n
      /\ Len(content') = Len(content)
      /\ \A c \in 1..Len(content) : c # be => content'[c] = content[c]
      /\ \A p \in Places : content'[be][p] =
           IF p \in inc..(inc + n - 1) THEN <<0, taken[0] + p - inc>> ELSE content[be][p]
  <2>1. 0 \in Streams
    BY Sizes
  <2> QED
    BY <1>1, <1>3, <2>1, StoreEffect
<1> DEFINE base == (be - 1) * BufSize
<1>5. base \in Nat
  <2>1. be - 1 \in Nat
    BY <1>1
  <2> QED
    BY <2>1, Sizes, Product
<1>6. ASSUME NEW p \in Places, p \in inc..(inc + n - 1)
      PROVE  content'[be][p] = Original(be, p) /\ content'[be][p] # <<>>
  <2>1. taken[0] = base + inc
    BY <1>2
  <2>2. Original(be, p) = <<0, base + p>>
    BY <1>1 DEF Original
  <2>3. p \in Nat
    BY Sizes
  <2> HIDE DEF base
  <2>4. taken[0] + p - inc = base + p /\ base + p \in Nat
    BY <1>1, <1>5, <2>1, <2>3
  <2>5. content'[be][p] = <<0, base + p>>
    BY <1>4, <1>6, <2>4
  <2> QED
    BY <2>2, <2>4, <2>5, NotEmpty, Sizes
<1>7. ASSUME NEW p \in 0..(inc' - 1)
      PROVE  content'[be][p] # <<>>
  <2>1. p \in Places
    BY <1>1, <1>3, Sizes
  <2>2. CASE p < inc
    <3>1. p \in 0..(inc - 1) /\ p \notin inc..(inc + n - 1)
      BY <1>1, <1>7, <2>2
    <3>2. content'[be][p] = content[be][p]
      BY <1>4, <2>1, <3>1
    <3> QED
      BY <1>2, <3>1, <3>2 DEF Written
  <2>3. CASE ~(p < inc)
    BY <1>1, <1>3, <1>6, <2>1, <2>3
  <2> QED
    BY <2>2, <2>3
<1>8. Writes(be)
  BY <1>4, <1>6 DEF Writes
<1>9. taken'[0] = (be - 1) * BufSize + inc'
  <2>1. taken[0] = base + inc
    BY <1>2
  <2> HIDE DEF base
  <2>2. taken'[0] = base + (inc + n)
    BY <1>1, <1>3, <1>4, <1>5, <2>1
  <2> QED
    BY <2>2 DEF base
<1> QED
  BY <1>1, <1>3, <1>7, <1>8, <1>9

-----------------------------------------------------------------------------
(* The barrier                                                               *)

\* A waiting thread reports the packets it has, or nothing yet.
LEMMA WaitingReports ==
  ASSUME TypeOK, Remainders, NEW s \in Streams, Waiting(s)
  PROVE  \/ bytes_received[s] = PacketSize * 0
         \/ /\ Progress(s) /\ packets_ready[s] \in 0..Quota(s)
            /\ bytes_received[s] = PacketSize * packets_ready[s]
<1>1. PacketSize * 0 = 0
  BY Sizes
<1>2. InRound(s) \/ Done(s) => Progress(s)
  BY DEF Waiting
<1>3. Progress(s) => packets_ready[s] \in 0..Quota(s)
  BY DEF Progress
<1>4. tpc[s] # "none"
  BY DEF Waiting
<1> QED
  BY <1>1, <1>2, <1>3, <1>4 DEF Waiting, InRound, Done

\* If a whole buffer was reported, every byte of it was written, and the threads
\* that are done all have their whole quota.
LEMMA FullIsFilled ==
  ASSUME TypeOK, Remainders, \A s \in Streams : Waiting(s)
  PROVE  /\ Reported(Streams) \in Nat /\ Reported(Streams) <= BufSize
         /\ Reported(Streams) = BufSize =>
              Filled(be) /\ \A s \in Streams : Done(s) => Parked(s)
<1>1. Whole
  <2> SUFFICES ASSUME NEW s \in Streams
               PROVE  \E j \in 0..Quota(s) : bytes_received[s] = PacketSize * j
    BY DEF Whole
  <2>1. 0 \in 0..Quota(s)
    BY StripeFits
  <2> QED
    BY <2>1, WaitingReports
<1>2. ASSUME Reported(Streams) = BufSize, NEW p \in Places
      PROVE  \E s \in Streams, j \in Nat, o \in 0..(PacketSize - 1) :
               /\ p = PlaceOf(s, j, o)
               /\ Progress(s) /\ Waiting(s) /\ j < packets_ready[s]
               /\ bytes_received[s] = PacketSize * packets_ready[s]
  <2>1. PICK s \in Streams, j \in Nat, o \in 0..(PacketSize - 1) :
          /\ p = PlaceOf(s, j, o)
          /\ \A n \in Nat : bytes_received[s] = PacketSize * n => j < n
    BY <1>1, <1>2, Counted
  <2>2. bytes_received[s] # PacketSize * 0
    BY <2>1
  <2>3. /\ Progress(s) /\ bytes_received[s] = PacketSize * packets_ready[s]
    BY <2>2, WaitingReports
  <2>4. packets_ready[s] \in Nat
    BY DEF TypeOK
  <2> QED
    BY <2>1, <2>3, <2>4
<1>3. ASSUME Reported(Streams) = BufSize, NEW p \in Places
      PROVE  Written(be, p)
  <2>1. PICK s \in Streams, j \in Nat, o \in 0..(PacketSize - 1) :
          /\ p = PlaceOf(s, j, o)
          /\ Progress(s) /\ Waiting(s) /\ j < packets_ready[s]
    BY <1>2, <1>3
  <2>2. packets_ready[s] \in Nat
    BY DEF TypeOK
  <2>3. j \in 0..packets_ready[s] /\ tbuf[s] = be
    BY <2>1, <2>2 DEF Waiting
  <2> QED
    BY <2>1, <2>3 DEF Progress
<1>4. ASSUME Reported(Streams) = BufSize, NEW s \in Streams, Done(s), ~Parked(s)
      PROVE  FALSE
  <2>1. /\ Progress(s) /\ packets_ready[s] < max_packets[s] /\ packets_ready[s] \in Nat
    BY <1>4 DEF Waiting, TypeOK
  <2>2. packets_ready[s] < Quota(s) /\ 0 \in 0..(PacketSize - 1)
    BY <2>1, Sizes DEF Progress
  <2>3. PlaceOf(s, packets_ready[s], 0) \in Places
    BY <2>1, <2>2, PlaceInBuffer
  <2>4. PICK r \in Streams, j \in Nat, o \in 0..(PacketSize - 1) :
          /\ PlaceOf(s, packets_ready[s], 0) = PlaceOf(r, j, o)
          /\ j < packets_ready[r]
    BY <1>2, <1>4, <2>3
  <2>5. s = r /\ packets_ready[s] = j
    BY <2>1, <2>2, <2>4, PlacesDiffer
  <2> QED
    BY <2>1, <2>4, <2>5
<1> QED
  BY <1>1, <1>3, <1>4, Counted DEF Filled

\* When threads_ready reaches active_threads, every thread is done, so that the sum
\* that Collect adds up is BufSize only if each of them filled its part.
LEMMA CollectEffect ==
  ASSUME IInv, Collect
  PROVE  /\ loop = "multi" /\ Remainders /\ be # 0
         /\ \A s \in Streams : Done(s) /\ Waiting(s)
         /\ inc' + Reported(Streams)' <= BufSize
         /\ inc' + Reported(Streams)' = BufSize => Filled(be)
         /\ pc' = "change" => /\ inc' = BufSize /\ Filled(be) /\ active_threads' = Mult
                              /\ \A s \in Streams : Parked(s) /\ bytes_received'[s] = 0
<1>1. /\ TypeOK /\ pc = "await" /\ loop = "multi" /\ be # 0 /\ active_threads = Mult /\ inc = 0
      /\ \A s \in Streams : Waiting(s)
      /\ threads_ready >= active_threads
      /\ threads_ready <= Cardinality({s \in Streams : Done(s)})
  BY DEF Collect, IInv, MainInv, BarrierInv, Counting, Gathering
<1>2. Remainders
  <2>1. 0 \in Streams
    BY Sizes
  <2>2. tpc[0] # "none"
    BY <1>1, <2>1 DEF Waiting
  <2> QED
    BY <2>1, <2>2, ThreadRuns
<1>3. \A s \in Streams : Done(s)
  <2> DEFINE D == {s \in Streams : Done(s)}
  <2>1. D \in SUBSET Streams
    OBVIOUS
  <2>2. Cardinality(D) <= Mult /\ (Cardinality(D) = Mult => D = Streams)
    BY <2>1, PlacesFinite, FS_Subset
  <2>3. IsFiniteSet(D)
    BY <2>1, PlacesFinite, FS_Subset
  <2>4. Cardinality(D) \in Nat
    BY <2>3, FS_CardinalityType
  <2>5. threads_ready \in Nat /\ Cardinality(D) >= Mult
    BY <1>1, <2>4, Sizes DEF TypeOK
  <2>6. Cardinality(D) = Mult
    BY <2>2, <2>4, <2>5, Sizes
  <2> QED
    BY <2>2, <2>6
<1>4. /\ Reported(Streams) \in Nat /\ Reported(Streams) <= BufSize
      /\ Reported(Streams) = BufSize => Filled(be) /\ \A s \in Streams : Parked(s)
  BY <1>1, <1>2, <1>3, FullIsFilled
<1> DEFINE All_ == ReportedBytes(Streams)
           Seen == ReportedBytes(Visited)
           Rest == {byte \in Streams \X (1..BufSize) : byte[2] <= bytes_received'[byte[1]]}
<1>5. Visited \in SUBSET Streams
  BY DEF Visited
<1>6. /\ \A s \in Streams : bytes_received'[s] = IF s \in Visited THEN 0 ELSE bytes_received[s]
      /\ inc' = inc + Reported(Visited)
  BY DEF Collect
<1>7. Seen \cup Rest = All_ /\ Seen \cap Rest = {}
  <2>1. ASSUME NEW byte \in Streams \X (1..BufSize)
        PROVE  /\ byte \in Rest <=> byte[1] \notin Visited /\ byte \in All_
               /\ byte \in Seen <=> byte[1] \in Visited /\ byte \in All_
    <3>1. byte[1] \in Streams /\ byte[2] \in 1..BufSize
      OBVIOUS
    <3>2. byte[2] \in Nat /\ ~(byte[2] <= 0)
      BY <3>1, Sizes
    <3>3. byte \in Seen <=> byte[1] \in Visited /\ byte \in All_
      BY <1>5, <3>1 DEF ReportedBytes
    <3>4. byte \in Rest <=> byte[1] \notin Visited /\ byte \in All_
      BY <1>6, <3>1, <3>2 DEF ReportedBytes
    <3> QED
      BY <3>3, <3>4
  <2>2. All_ \subseteq Streams \X (1..BufSize) /\ Seen \subseteq Streams \X (1..BufSize)
          /\ Rest \subseteq Streams \X (1..BufSize)
    BY <1>5 DEF ReportedBytes
  <2> HIDE DEF All_, Seen, Rest
  <2> QED
    BY <2>1, <2>2
<1>8. /\ Reported(Streams) = Cardinality(All_) /\ Reported(Visited) = Cardinality(Seen)
      /\ Reported(Streams)' = Cardinality(Rest)
  BY DEF Reported, ReportedBytes
<1>9. IsFiniteSet(All_) /\ IsFiniteSet(Seen) /\ Cardinality(Seen) \in Nat
  BY <1>5, <1>8, ReportedFinite
<1> HIDE DEF All_, Seen, Rest
<1>10. Cardinality(All_) = Cardinality(Seen) + Cardinality(Rest) /\ Cardinality(Rest) \in Nat
  <2>1. IsFiniteSet(Rest)
    BY <1>7, <1>9, FS_Subset
  <2>2. Cardinality(Seen \cup Rest) = Cardinality(Seen) + Cardinality(Rest) - Cardinality({})
    BY <1>7, <1>9, <2>1, FS_Union
  <2>3. Cardinality(Rest) \in Nat
    BY <2>1, FS_CardinalityType
  <2> QED
    BY <1>7, <1>9, <2>2, <2>3, FS_EmptySet
<1>11. inc' + Reported(Streams)' = Reported(Streams)
  BY <1>1, <1>6, <1>8, <1>9, <1>10
<1>12. ASSUME pc' = "change"
       PROVE  /\ inc' = BufSize /\ Filled(be) /\ active_threads' = Mult
              /\ \A s \in Streams : Parked(s) /\ bytes_received'[s] = 0
  <2>1. inc' = BufSize
    BY <1>12 DEF Collect
  <2>2. Reported(Streams) = BufSize
    BY <1>1, <1>4, <1>6, <1>8, <1>9, <1>10, <2>1, Sizes
  <2>3. Filled(be) /\ \A s \in Streams : Parked(s)
    BY <1>4, <2>2
  <2>4. \A s \in Streams : tstatus[s] = {KEEP, FULL}
    BY <2>3 DEF Parked
  <2>5. \A s \in Streams : "ERROR" \notin tstatus[s] /\ "CLEAN_EXIT" \notin tstatus[s]
    BY <2>4 DEF KEEP, FULL
  <2>6. Visited = Streams
    BY <2>5, Sizes DEF Visited
  <2>7. Ended("ERROR") = {} /\ Ended("CLEAN_EXIT") = {}
    BY <2>5, <2>6 DEF Ended
  <2>8. active_threads' = Mult
    <3>1. Cardinality(Ended("CLEAN_EXIT")) = 0
      BY <2>7, FS_EmptySet
    <3>2. active_threads' = active_threads - Cardinality(Ended("CLEAN_EXIT"))
      BY <2>7 DEF Collect
    <3> QED
      BY <1>1, <3>1, <3>2, Sizes
  <2> QED
    BY <1>6, <2>1, <2>3, <2>6, <2>8
<1> QED
  BY <1>1, <1>2, <1>3, <1>4, <1>11, <1>12

-----------------------------------------------------------------------------
(* What is written                                                           *)

\* Places stay right: when the bytes written belong there,
LEMMA WritesRightly ==
  ASSUME NEW b \in 1..Len(content), Writes(b), Rightly, UNCHANGED loop
  PROVE  Rightly'
<1> SUFFICES ASSUME NEW c \in 1..Len(content'), NEW p \in Places, content'[c][p] # <<>>
             PROVE  content'[c][p] = Original(c, p)
  <2>1. \A c, p : Original(c, p)' = Original(c, p)
    BY DEF Original
  <2> QED
    BY <2>1 DEF Rightly, Written
<1>1. c \in 1..Len(content)
  BY DEF Writes
<1> QED
  BY <1>1 DEF Writes, Rightly, Written

\* when nothing is written,
LEMMA SameRightly ==
  ASSUME Rightly, UNCHANGED <<loop, content>>
  PROVE  Rightly'
<1>1. \A c, p : Original(c, p)' = Original(c, p)
  BY DEF Original
<1> QED
  BY <1>1 DEF Rightly, Written

\* and when a new buffer is added.
LEMMA TakeRightly ==
  ASSUME TypeOK, Rightly, TakeBuffer, UNCHANGED loop
  PROVE  Rightly'
<1> SUFFICES ASSUME NEW c \in 1..Len(content'), NEW p \in Places, content'[c][p] # <<>>
             PROVE  content'[c][p] = Original(c, p)
  <2>1. \A c, p : Original(c, p)' = Original(c, p)
    BY DEF Original
  <2> QED
    BY <2>1 DEF Rightly, Written
<1>1. content \in Seq(Buffers)
  BY DEF TypeOK, Buffers
<1>2. Len(content) \in Nat
  BY <1>1, LenProperties
<1>3. /\ Len(content') = Len(content) + 1
      /\ \A b \in 1..Len(content) : content'[b] = content[b]
      /\ \A q \in Places : content'[Len(content) + 1][q] = <<>>
  BY TakeBufferEffect
<1>4. c \in 1..Len(content)
  BY <1>2, <1>3
<1> QED
  BY <1>3, <1>4 DEF Rightly, Written

\* Every step writes only the bytes that belong where it writes them.
LEMMA ContentStep ==
  ASSUME IInv, [Next]_vars
  PROVE  Grows /\ Rightly' /\ loop' = loop
<1> USE DEF environment, buffers
<1>t. TypeOK /\ Rightly
  BY DEF IInv, ContentInv
<1>s. ASSUME UNCHANGED <<loop, content>> PROVE Grows /\ Rightly' /\ loop' = loop
  BY <1>s, <1>t, SameGrows, SameRightly
<1>w. ASSUME TakeBuffer, UNCHANGED loop PROVE Grows /\ Rightly' /\ loop' = loop
  BY <1>w, <1>t, TakeGrows, TakeRightly
<1>1. CASE Setup
  BY <1>1, <1>s DEF Setup
<1>2. CASE Accept
  BY <1>2, <1>s DEF Accept
<1>3. CASE AcceptFails
  BY <1>3, <1>s DEF AcceptFails
<1>4. CASE AcceptedEnough
  BY <1>4, <1>s DEF AcceptedEnough
<1>5. CASE ChangeBuffer
  BY <1>5, <1>s DEF ChangeBuffer
<1>6. CASE Single
  BY <1>6, <1>s DEF Single
<1>7. CASE CreateThreads
  BY <1>7, <1>s DEF CreateThreads
<1>8. CASE MainLoop
  BY <1>8, <1>s DEF MainLoop
<1>9. CASE Collect
  BY <1>9, <1>s DEF Collect
<1>10. CASE Release
  BY <1>10, <1>s DEF Release
<1>11. CASE Rundown
  BY <1>11, <1>s DEF Rundown
<1>12. CASE Finish
  BY <1>12, <1>s DEF Finish
<1>13. CASE Join
  BY <1>13, <1>s DEF Join
<1>14. CASE CloseSocket
  BY <1>14, <1>s DEF CloseSocket
<1>15. CASE stop_streamer
  BY <1>15, <1>s DEF stop_streamer
<1>16. ASSUME NEW s \in Streams, Top(s) PROVE Grows /\ Rightly' /\ loop' = loop
  BY <1>16, <1>s DEF Top
<1>17. ASSUME NEW s \in Streams, Lock(s) PROVE Grows /\ Rightly' /\ loop' = loop
  BY <1>17, <1>s DEF Lock
<1>18. ASSUME NEW s \in Streams, Begin(s) PROVE Grows /\ Rightly' /\ loop' = loop
  BY <1>18, <1>s DEF Begin
<1>19. ASSUME NEW s \in Streams, Check(s) PROVE Grows /\ Rightly' /\ loop' = loop
  BY <1>19, <1>s DEF Check
<1>20. ASSUME NEW s \in Streams, RecvEnds(s) PROVE Grows /\ Rightly' /\ loop' = loop
  BY <1>20, <1>s DEF RecvEnds
<1>21. ASSUME NEW s \in Streams, Report(s) PROVE Grows /\ Rightly' /\ loop' = loop
  BY <1>21, <1>s DEF Report
<1>22. ASSUME NEW s \in Streams, Signal(s) PROVE Grows /\ Rightly' /\ loop' = loop
  BY <1>22, <1>s DEF Signal
<1>23. CASE GetFirst
  <2>1. UNCHANGED loop /\ (TakeBuffer \/ UNCHANGED content)
    BY <1>23 DEF GetFirst, Refused
  <2> QED
    BY <1>s, <1>w, <2>1
<1>24. CASE Regain
  <2>1. UNCHANGED loop /\ (TakeBuffer \/ UNCHANGED content)
    BY <1>24 DEF Regain, Refused
  <2> QED
    BY <1>s, <1>w, <2>1
<1>25. CASE SingleRecv
  <2>1. PICK n \in recv(0, BufSize - inc) :
          IF n > 0
          THEN /\ Store(0, n, be, inc) /\ inc' = inc + n
               /\ pc' = IF inc' = BufSize THEN "change" ELSE "single"
          ELSE pc' = "finish" /\ UNCHANGED <<taken, inc, content>>
    BY <1>25 DEF SingleRecv
  <2>2. pc = "recv" /\ UNCHANGED be /\ UNCHANGED loop
    BY <1>25 DEF SingleRecv
  <2>3. CASE n > 0
    <3>1. be \in 1..Len(content) /\ Writes(be)
      BY <2>1, <2>2, <2>3, SingleEffect
    <3> QED
      BY <1>t, <2>2, <3>1, WritesGrows, WritesRightly
  <2>4. CASE ~(n > 0)
    BY <1>s, <2>1, <2>2, <2>4
  <2> QED
    BY <2>3, <2>4
<1>26. ASSUME NEW s \in Streams, Recv(s) PROVE Grows /\ Rightly' /\ loop' = loop
  <2>1. tbuf[s] \in 1..Len(content) /\ Writes(tbuf[s])
    BY <1>26, ReceiveEffect
  <2>2. loop' = loop
    BY <1>26 DEF Recv
  <2> QED
    BY <1>t, <2>1, <2>2, WritesGrows, WritesRightly
<1>27. CASE UNCHANGED vars
  BY <1>27, <1>s DEF vars
<1> QED
  BY <1>1, <1>2, <1>3, <1>4, <1>5, <1>6, <1>7, <1>8, <1>9, <1>10, <1>11, <1>12, <1>13, <1>14, <1>15, <1>16, <1>17, <1>18, <1>19, <1>20, <1>21, <1>22, <1>23, <1>24, <1>25, <1>26, <1>27 DEF Next, Main, threaded_multistream

\* A full buffer stays full.
LEMMA FilledGrows ==
  ASSUME Grows, NEW b \in 1..Len(content), Filled(b)
  PROVE  Filled(b)'
BY DEF Grows, Filled

-----------------------------------------------------------------------------
(* The session's thread                                                      *)

\* A thread's step leaves the other threads and the session's thread alone.
LEMMA ThreadFrame ==
  ASSUME IInv, NEW s \in Streams, threaded_multistream(s)
  PROVE  /\ tpc[s] # "none" /\ tpc'[s] # "none" /\ Len(content') = Len(content)
         /\ UNCHANGED <<loop, pc, be, inc, status, stopped, handed, active_threads>> /\ Row
         /\ \A r \in Streams \ {s} : SameThread(r)
<1> USE DEF environment, session, buffers, barrier, locals, Row, SameThread, SameWork
<1>t. /\ tpc \in [Streams -> ThreadPlaces] /\ tstatus \in [Streams -> SUBSET Flags]
      /\ bytes_received \in [Streams -> Nat] /\ spot \in [Streams -> Nat]
      /\ max_packets \in [Streams -> Nat] /\ packets_ready \in [Streams -> Nat]
      /\ offset \in [Streams -> 0..(PacketSize - 1)] /\ read \in [Streams -> SUBSET Flags]
      /\ taken \in [Streams -> Nat]
  BY DEF IInv, TypeOK
<1>1. CASE Top(s)
  BY <1>1, <1>t DEF Top
<1>2. CASE Lock(s)
  BY <1>2, <1>t DEF Lock
<1>3. CASE Begin(s)
  BY <1>3, <1>t DEF Begin
<1>4. CASE Check(s)
  BY <1>4, <1>t DEF Check
<1>5. CASE RecvEnds(s)
  BY <1>5, <1>t DEF RecvEnds
<1>6. CASE Report(s)
  BY <1>6, <1>t DEF Report
<1>7. CASE Signal(s)
  BY <1>7, <1>t DEF Signal
<1>8. CASE Recv(s)
  <2>1. Len(content') = Len(content)
    BY <1>8, ReceiveEffect DEF Writes
  <2>2. \A r \in Streams \ {s} : taken'[r] = taken[r]
    BY <1>8, <1>t DEF Recv, Store
  <2>3. \A r \in Streams \ {s} : /\ packets_ready'[r] = packets_ready[r]
                                  /\ spot'[r] = spot[r] /\ offset'[r] = offset[r]
    BY <1>8, <1>t DEF Recv
  <2> QED
    BY <1>8, <1>t, <2>1, <2>2, <2>3 DEF Recv
<1> QED
  BY <1>1, <1>2, <1>3, <1>4, <1>5, <1>6, <1>7, <1>8 DEF threaded_multistream

\* Every step keeps what is known of the session's thread.
LEMMA MainStep ==
  ASSUME IInv, [Next]_vars
  PROVE  MainInv'
<1> USE DEF environment, session, counts, barrier, buffers, Row
<1>t. /\ TypeOK /\ MainInv /\ Grows /\ loop' = loop
      /\ Len(content) \in Nat /\ be \in 0..Len(content) /\ inc \in Nat
  <2>1. content \in Seq(Buffers) /\ TypeOK
    BY DEF IInv, TypeOK, Buffers
  <2> QED
    BY <2>1, ContentStep, LenProperties DEF IInv, TypeOK
<1>f. \A b \in 1..Len(content) : Filled(b) => \A p \in Places : content'[b][p] # <<>>
  BY <1>t, FilledGrows DEF Filled, Written
<1>1. CASE Setup
  BY <1>1, <1>t, <1>f DEF Setup, MainInv, Starting, Early, Changing, Running, Rows, thread
<1>2. CASE Accept
  BY <1>2, <1>t, <1>f DEF Accept, MainInv, Starting, Early, Changing, Running, Rows, thread
<1>3. CASE AcceptFails
  BY <1>3, <1>t, <1>f DEF AcceptFails, MainInv, Starting, Early, Changing, Running, Rows, thread
<1>4. CASE AcceptedEnough
  BY <1>4, <1>t, <1>f DEF AcceptedEnough, MainInv, Starting, Early, Changing, Running, Rows, thread
<1>5. CASE stop_streamer
  BY <1>5, <1>t, <1>f DEF stop_streamer, Filled, Written, MainInv, Starting, Early, Changing, Running, Rows, thread
<1>6. CASE Join
  BY <1>6, <1>t, <1>f DEF Join, MainInv, Starting, Early, Changing, Running, Rows, thread
<1>7. CASE CloseSocket
  BY <1>7, <1>t, <1>f DEF CloseSocket, MainInv, Starting, Early, Changing, Running, Rows, thread
<1>8. CASE MainLoop
  BY <1>8, <1>t, <1>f DEF MainLoop, MainInv, Starting, Early, Changing, Running, Rows, thread
<1>9. CASE Single
  <2>1. loop # "multi" /\ inc <= BufSize /\ inc # BufSize
    BY <1>9, <1>t, Sizes DEF Single, IInv, SingleInv, MainInv
  <2> QED
    BY <1>9, <1>t, <2>1 DEF Single, MainInv, Starting, Early, Changing, Running, Rows, thread
<1>10. CASE ChangeBuffer
  BY <1>10, <1>t, <1>f DEF ChangeBuffer, MainInv, Starting, Early, Changing, Running, Rows, thread
<1>11. CASE Release
  BY <1>11, <1>t, <1>f DEF Release, MainInv, Starting, Early, Changing, Running, Rows, thread, Broadcast
<1>12. CASE Finish
  BY <1>12, <1>t, <1>f DEF Finish, MainInv, Starting, Early, Changing, Running, Rows, thread
<1>13. CASE GetFirst
  <2>0. Rows' <=> Rows
    BY <1>13 DEF GetFirst, Rows
  <2>1. CASE Refused
    BY <1>13, <1>t, <2>0, <2>1 DEF GetFirst, TakeBuffer, Refused, MainInv, Starting, Early, Changing, Running, thread
  <2>2. CASE TakeBuffer
    <3>1. Len(content') = Len(content) + 1 /\ be' = Len(content) + 1 /\ inc' = 0
      BY <1>t, <2>2, TakeBufferEffect
    <3> QED
      BY <1>13, <1>t, <2>0, <3>1 DEF GetFirst, Refused, MainInv, Starting, Early, Changing, Running, thread
  <2> QED
    BY <1>13, <2>1, <2>2 DEF GetFirst
<1>14. CASE Regain
  <2>0. Rows' <=> Rows
    BY <1>14 DEF Regain, Rows
  <2>1. CASE Refused
    BY <1>14, <1>t, <2>0, <2>1 DEF Regain, TakeBuffer, Refused, MainInv, Starting, Early, Changing, Running, thread
  <2>2. CASE TakeBuffer
    <3>1. Len(content') = Len(content) + 1 /\ be' = Len(content) + 1 /\ inc' = 0
      BY <1>t, <2>2, TakeBufferEffect
    <3> QED
      BY <1>14, <1>t, <2>0, <3>1 DEF Regain, Refused, MainInv, Starting, Early, Changing, Running, thread
  <2> QED
    BY <1>14, <2>1, <2>2 DEF Regain
<1>15. CASE SingleRecv
  <2>1. PICK n \in recv(0, BufSize - inc) :
          IF n > 0
          THEN /\ Store(0, n, be, inc) /\ inc' = inc + n
               /\ pc' = IF inc' = BufSize THEN "change" ELSE "single"
          ELSE pc' = "finish" /\ UNCHANGED <<taken, inc, content>>
    BY <1>15 DEF SingleRecv
  <2>2. pc = "recv" /\ be' = be /\ loop # "multi" /\ inc < BufSize
    BY <1>15 DEF SingleRecv, IInv, MainInv, SingleInv
  <2>3. CASE n > 0
    <3>1. Len(content') = Len(content)
      BY <2>1, <2>2, <2>3, SingleEffect DEF Writes
    <3>2. pc' \in {"change", "single"}
      BY <2>1, <2>3
    <3> QED
      BY <1>15, <1>t, <2>2, <3>1, <3>2 DEF SingleRecv, MainInv, Starting, Early, Changing, Running, Rows, thread
  <2>4. CASE ~(n > 0)
    BY <1>15, <1>t, <2>1, <2>2, <2>4, Sizes DEF SingleRecv, MainInv, Starting, Early, Changing, Running, Rows, thread
  <2> QED
    BY <2>3, <2>4
<1>16. CASE CreateThreads
  <2>1. Rows'
    BY <1>16, <1>t, NextRemainder DEF CreateThreads, Rows
  <2>2. pc' \in {"loop", "join"}
    BY <1>16 DEF CreateThreads
  <2> QED
    BY <1>16, <1>t, <2>1, <2>2 DEF CreateThreads, MainInv, Starting, Early, Changing, Running
<1>17. CASE Collect
  <2>1. loop = "multi" /\ Remainders
    BY <1>17, CollectEffect
  <2>2. Rows'
    <3>1. CASE UNCHANGED <<start_remainder, end_remainder>>
      BY <2>1, <3>1 DEF Remainders, Rows
    <3>2. CASE ~UNCHANGED <<start_remainder, end_remainder>>
      BY <1>17, <1>t, <3>2, NextRemainder DEF Collect, Rows
    <3> QED
      BY <3>1, <3>2
  <2>3. pc' \in {"change", "rundown"}
    BY <1>17 DEF Collect
  <2> QED
    BY <1>17, <1>t, <2>1, <2>2, <2>3 DEF Collect, MainInv, Starting, Early, Changing, Running
<1>18. CASE Rundown
  <2>1. pc = "rundown" /\ loop = "multi" /\ pc' = "finish" /\ inc' = inc + Reported(Streams)
    BY <1>18, <1>t DEF Rundown, MainInv
  <2>2. be # 0 => inc' <= BufSize /\ (inc' = BufSize => Filled(be))
    <3>1. CASE inc = 0 /\ be # 0 /\ \A s \in Streams : Waiting(s)
      <4>1. tpc[0] # "none" /\ 0 \in Streams
        BY <3>1, Sizes DEF Waiting
      <4>2. Remainders
        BY <4>1, ThreadRuns
      <4>3. /\ Reported(Streams) \in Nat /\ Reported(Streams) <= BufSize
            /\ Reported(Streams) = BufSize => Filled(be)
        BY <1>t, <3>1, <4>2, FullIsFilled
      <4> QED
        BY <2>1, <3>1, <4>3
    <3>2. CASE /\ inc + Reported(Streams) <= BufSize
               /\ (be # 0 /\ inc + Reported(Streams) = BufSize) => Filled(be)
      BY <2>1, <3>2
    <3> QED
      BY <2>1, <3>1, <3>2 DEF IInv, BarrierInv, Ending
  <2>3. be # 0 => inc' <= BufSize /\ (inc' = BufSize => \A p \in Places : content'[be][p] # <<>>)
    BY <1>t, <1>f, <2>2
  <2> QED
    BY <1>18, <1>t, <2>1, <2>3 DEF Rundown, MainInv, Starting, Early, Changing, Running, Rows, Broadcast, Filled, Written
<1>19. ASSUME NEW s \in Streams, threaded_multistream(s) PROVE MainInv'
  <2>1. /\ tpc'[s] # "none" /\ Len(content') = Len(content) /\ Row
        /\ UNCHANGED <<loop, pc, be, inc, status, stopped>>
        /\ tpc[s] # "none"
    BY <1>19, ThreadFrame
  <2>2. loop = "multi" /\ pc \notin Early \cup {"create"} /\ Rows
    BY <2>1, ThreadRuns DEF Remainders
  <2>3. Rows'
    BY <2>1, <2>2 DEF Rows
  <2>4. (pc = "finish" /\ be # 0) => inc <= BufSize /\ (inc = BufSize => \A p \in Places : content'[be][p] # <<>>)
    BY <1>t, <1>f DEF MainInv
  <2>5. (pc' = "finish" /\ be' # 0) =>
          inc' <= BufSize /\ (inc' = BufSize => \A p \in Places : content'[be'][p] # <<>>)
    BY <2>1, <2>4
  <2> QED
    BY <1>t, <2>1, <2>2, <2>3, <2>5 DEF MainInv, Starting, Early, Changing, Running, Filled, Written
<1>20. CASE UNCHANGED vars
  BY <1>20, <1>t, <1>f DEF vars, MainInv, Starting, Early, Changing, Running, Rows, thread, Filled, Written
<1> QED
  BY <1>1, <1>2, <1>3, <1>4, <1>5, <1>6, <1>7, <1>8, <1>9, <1>10, <1>11, <1>12, <1>13, <1>14, <1>15, <1>16, <1>17, <1>18, <1>19, <1>20 DEF Next, Main

\* Only ChangeBuffer and Finish hand a buffer over.
LEMMA HandedStep ==
  ASSUME IInv, [Next]_vars
  PROVE  ContentInv'
<1> USE DEF environment, session, counts, barrier, buffers
<1>t. /\ TypeOK /\ Grows /\ loop' = loop /\ Rightly'
      /\ Len(content) \in Nat /\ Len(handed) = Len(content) /\ be \in 0..Len(content)
      /\ \A b \in 1..Len(handed) : handed[b] = BufSize => Filled(b)
      /\ pc = "change" => be \in 1..Len(content) /\ Filled(be)
  <2>1. content \in Seq(Buffers) /\ TypeOK
    BY DEF IInv, TypeOK, Buffers
  <2>2. pc = "change" => be # 0
    BY DEF IInv, MainInv, Changing
  <2>3. Len(handed) = Len(content) /\ be \in 0..Len(content)
    BY <2>1 DEF TypeOK
  <2> QED
    BY <2>1, <2>2, <2>3, ContentStep, LenProperties DEF IInv, ContentInv
<1>f. \A b \in 1..Len(content) : Filled(b) => \A p \in Places : content'[b][p] # <<>>
  BY <1>t, FilledGrows DEF Filled, Written
<1>h. ASSUME /\ Len(handed') >= Len(handed)
             /\ \A b \in 1..Len(handed') :
                  handed'[b] = BufSize => b \in 1..Len(handed) /\ Filled(b)
             /\ pc' = "change" => \A p \in Places : content'[be'][p] # <<>>
      PROVE  ContentInv'
  BY <1>t, <1>f, <1>h DEF ContentInv, Filled, Written
<1>q. ASSUME UNCHANGED handed, pc' # "change"
      PROVE  ContentInv'
  BY <1>t, <1>h, <1>q
<1>1. CASE Setup
  BY <1>1, <1>q DEF Setup
<1>2. CASE Accept
  BY <1>2, <1>q DEF Accept
<1>3. CASE AcceptFails
  BY <1>3, <1>q DEF AcceptFails
<1>4. CASE AcceptedEnough
  BY <1>4, <1>q DEF AcceptedEnough
<1>5. CASE stop_streamer
  <2>1. UNCHANGED <<handed, pc, be>>
    BY <1>5 DEF stop_streamer
  <2> QED
    BY <1>t, <1>f, <1>h, <2>1
<1>6. CASE Join
  BY <1>6, <1>q DEF Join
<1>7. CASE CloseSocket
  BY <1>7, <1>q DEF CloseSocket
<1>8. CASE MainLoop
  BY <1>8, <1>q DEF MainLoop
<1>9. CASE Single
  BY <1>9, <1>q DEF Single
<1>10. CASE CreateThreads
  BY <1>10, <1>q DEF CreateThreads
<1>11. CASE Release
  BY <1>11, <1>q DEF Release
<1>12. CASE Rundown
  BY <1>12, <1>q DEF Rundown
<1>13. CASE GetFirst
  <2>1. CASE UNCHANGED handed
    BY <1>13, <1>q, <2>1 DEF GetFirst
  <2>2. CASE TakeBuffer
    <3>1. /\ Len(handed') = Len(handed) + 1 /\ handed'[Len(handed) + 1] = 0
          /\ \A c \in 1..Len(handed) : handed'[c] = handed[c]
      BY <1>t, <2>2, TakeBufferEffect
    <3>2. pc' # "change"
      BY <1>13 DEF GetFirst
    <3> QED
      BY <1>t, <1>h, <3>1, <3>2, Sizes
  <2> QED
    BY <1>13, <2>1, <2>2 DEF GetFirst, Refused
<1>14. CASE Regain
  <2>1. CASE UNCHANGED handed
    BY <1>14, <1>q, <2>1 DEF Regain
  <2>2. CASE TakeBuffer
    <3>1. /\ Len(handed') = Len(handed) + 1 /\ handed'[Len(handed) + 1] = 0
          /\ \A c \in 1..Len(handed) : handed'[c] = handed[c]
      BY <1>t, <2>2, TakeBufferEffect
    <3>2. pc' # "change"
      BY <1>14 DEF Regain
    <3> QED
      BY <1>t, <1>h, <3>1, <3>2, Sizes
  <2> QED
    BY <1>14, <2>1, <2>2 DEF Regain, Refused
<1>15. CASE ChangeBuffer
  <2>1. pc = "change" /\ pc' # "change" /\ handed' = [handed EXCEPT ![be] = inc] /\ inc \in 0..BufSize
    <3>1. inc = BufSize
      BY <1>15 DEF ChangeBuffer, IInv, BarrierInv, Turning, SingleInv, Changing
    <3> QED
      BY <1>15, <3>1, Sizes DEF ChangeBuffer
  <2>2. Len(handed') = Len(handed) /\ \A c \in 1..Len(handed) : c # be => handed'[c] = handed[c]
    BY <1>t, <2>1, HandOverEffect
  <2> QED
    BY <1>t, <1>h, <2>1, <2>2
<1>16. CASE Finish
  <2>1. pc = "finish" /\ pc' # "change"
    BY <1>16 DEF Finish
  <2>2. CASE handed' = handed
    BY <1>q, <2>1, <2>2
  <2>3. CASE handed' # handed
    <3>1. be # 0 /\ inc \in 0..BufSize /\ handed' = [handed EXCEPT ![be] = inc]
            /\ (inc = BufSize => Filled(be))
      BY <1>16, <2>1, <2>3 DEF Finish, IInv, MainInv, TypeOK
    <3>2. be \in 1..Len(content)
      BY <1>t, <3>1
    <3>3. Len(handed') = Len(handed) /\ \A c \in 1..Len(handed) : handed'[c] = IF c = be THEN inc ELSE handed[c]
      BY <1>t, <3>1, <3>2, HandOverEffect
    <3> QED
      BY <1>t, <1>h, <2>1, <3>1, <3>2, <3>3
  <2> QED
    BY <2>2, <2>3
<1>17. CASE SingleRecv
  <2>1. PICK n \in recv(0, BufSize - inc) :
          IF n > 0
          THEN /\ Store(0, n, be, inc) /\ inc' = inc + n
               /\ pc' = IF inc' = BufSize THEN "change" ELSE "single"
          ELSE pc' = "finish" /\ UNCHANGED <<taken, inc, content>>
    BY <1>17 DEF SingleRecv
  <2>2. pc = "recv" /\ be' = be /\ UNCHANGED handed
    BY <1>17 DEF SingleRecv
  <2>3. CASE n > 0
    <3>1. \A p \in 0..(inc' - 1) : content'[be][p] # <<>>
      BY <2>1, <2>2, <2>3, SingleEffect
    <3>2. pc' = "change" => \A p \in Places : content'[be][p] # <<>>
      BY <2>1, <2>3, <3>1, Sizes
    <3> QED
      BY <1>t, <1>h, <2>2, <3>2
  <2>4. CASE ~(n > 0)
    BY <1>q, <2>1, <2>2, <2>4
  <2> QED
    BY <2>3, <2>4
<1>18. CASE Collect
  <2>1. UNCHANGED <<handed, be, content>> /\ (pc' = "change" => Filled(be))
    BY <1>18, CollectEffect DEF Collect
  <2> QED
    BY <1>t, <1>h, <2>1 DEF Filled, Written
<1>19. ASSUME NEW s \in Streams, threaded_multistream(s) PROVE ContentInv'
  <2>1. UNCHANGED <<handed, pc, be>>
    BY <1>19, ThreadFrame
  <2> QED
    BY <1>t, <1>f, <1>h, <2>1
<1>20. CASE UNCHANGED vars
  <2>1. UNCHANGED <<handed, pc, be>>
    BY <1>20 DEF vars
  <2> QED
    BY <1>t, <1>f, <1>h, <2>1
<1> QED
  BY <1>1, <1>2, <1>3, <1>4, <1>5, <1>6, <1>7, <1>8, <1>9, <1>10, <1>11, <1>12, <1>13, <1>14, <1>15, <1>16, <1>17, <1>18, <1>19, <1>20 DEF Next, Main

\* A receiver of one stream fills its buffer from the front.
LEMMA SingleStep ==
  ASSUME IInv, [Next]_vars
  PROVE  SingleInv'
<1> USE DEF environment, session, counts, barrier, buffers
<1> SUFFICES ASSUME loop' # "multi"
             PROVE  SingleInv'
  BY DEF SingleInv
<1>t. /\ TypeOK /\ Grows /\ loop' = loop /\ loop # "multi" /\ SingleInv
      /\ Len(content) \in Nat /\ be \in {0, Len(content)} /\ inc \in Nat
      /\ \A s \in Streams : tpc[s] = "none"
  <2>1. content \in Seq(Buffers) /\ TypeOK
    BY DEF IInv, TypeOK, Buffers
  <2> QED
    BY <2>1, ContentStep, LenProperties DEF IInv, TypeOK, MainInv
<1>m. pc \notin {"create", "loop", "await", "release", "rundown", "join"} /\ 0 \in Streams
  BY <1>t, Sizes DEF IInv, MainInv
<1> DEFINE Filling == /\ taken[0] = (be - 1) * BufSize + inc
                      /\ \A p \in 0..(inc - 1) : Written(be, p)
<1>s. ASSUME UNCHANGED <<taken, be, inc, content>>
      PROVE  Filling => Filling'
  BY <1>s DEF Written
<1>1. CASE Setup
  BY <1>1, <1>t, <1>m, <1>s DEF Setup, SingleInv
<1>2. CASE Accept
  BY <1>2, <1>t, <1>m, <1>s DEF Accept, SingleInv
<1>3. CASE AcceptFails
  BY <1>3, <1>t, <1>m, <1>s DEF AcceptFails, SingleInv
<1>4. CASE AcceptedEnough
  BY <1>4, <1>t, <1>m, <1>s DEF AcceptedEnough, SingleInv
<1>5. CASE stop_streamer
  BY <1>5, <1>t, <1>m, <1>s DEF stop_streamer, SingleInv
<1>6. CASE Join
  BY <1>6, <1>t, <1>m, <1>s DEF Join, SingleInv
<1>7. CASE CloseSocket
  BY <1>7, <1>t, <1>m, <1>s DEF CloseSocket, SingleInv
<1>8. CASE MainLoop
  BY <1>8, <1>t, <1>m, <1>s DEF MainLoop, SingleInv
<1>9. CASE CreateThreads
  BY <1>9, <1>t, <1>m, <1>s DEF CreateThreads, SingleInv
<1>10. CASE Release
  BY <1>10, <1>t, <1>m, <1>s DEF Release, SingleInv
<1>11. CASE Rundown
  BY <1>11, <1>t, <1>m, <1>s DEF Rundown, SingleInv
<1>12. CASE Collect
  BY <1>12, <1>t, <1>m, <1>s DEF Collect, SingleInv
<1>13. CASE Finish
  BY <1>13, <1>t, <1>m, <1>s DEF Finish, SingleInv
<1>14. CASE Single
  BY <1>14, <1>t, <1>m, <1>s DEF Single, SingleInv
<1>15. CASE ChangeBuffer
  <2>1. taken[0] = (be - 1) * BufSize + inc /\ inc = BufSize
    BY <1>15, <1>t DEF ChangeBuffer, SingleInv
  <2>2. taken[0] = be * BufSize
    <3>1. (be - 1) * BufSize = be * BufSize - BufSize /\ be * BufSize \in Int
      BY <1>t, Sizes
    <3> QED
      BY <2>1, <3>1, Sizes
  <2> QED
    BY <1>15, <2>2 DEF ChangeBuffer, SingleInv
<1>16. CASE GetFirst
  <2>1. CASE TakeBuffer
    <3>1. be' = Len(content) + 1 /\ inc' = 0 /\ Len(content) = 0 /\ taken[0] = 0
      BY <1>16, <1>t, <1>m, <2>1, TakeBufferEffect DEF GetFirst, IInv, MainInv, Starting
    <3>2. (be' - 1) * BufSize = 0
      BY <3>1, Sizes
    <3>3. taken' = taken /\ pc' \notin {"change", "regain", "finish"}
      BY <1>16 DEF GetFirst, TakeBuffer, Refused
    <3> QED
      BY <3>1, <3>2, <3>3, Sizes DEF SingleInv
  <2>2. CASE ~TakeBuffer
    BY <1>16, <1>t, <2>2 DEF GetFirst, SingleInv
  <2> QED
    BY <2>1, <2>2
<1>17. CASE Regain
  <2>0. taken[0] = be * BufSize /\ be = Len(content) /\ taken' = taken
    BY <1>17, <1>t DEF Regain, SingleInv, IInv, MainInv, Changing
  <2>1. CASE TakeBuffer
    <3>1. be' = Len(content) + 1 /\ inc' = 0
      BY <1>t, <2>1, TakeBufferEffect
    <3>2. (be' - 1) * BufSize = be * BufSize /\ be * BufSize \in Int
      BY <1>t, <2>0, <3>1, Sizes
    <3>3. pc' = "single"
      BY <1>17, <1>t, <3>1 DEF Regain, Refused
    <3>4. taken'[0] = (be' - 1) * BufSize + inc'
      BY <2>0, <3>1, <3>2
    <3> QED
      BY <3>1, <3>3, <3>4, Sizes DEF SingleInv
  <2>2. CASE ~TakeBuffer
    BY <1>17, <1>t, <2>2 DEF Regain, Refused, SingleInv
  <2> QED
    BY <2>1, <2>2
<1>18. CASE SingleRecv
  <2>1. PICK n \in recv(0, BufSize - inc) :
          IF n > 0
          THEN /\ Store(0, n, be, inc) /\ inc' = inc + n
               /\ pc' = IF inc' = BufSize THEN "change" ELSE "single"
          ELSE pc' = "finish" /\ UNCHANGED <<taken, inc, content>>
    BY <1>18 DEF SingleRecv
  <2>2. pc = "recv" /\ be' = be
    BY <1>18 DEF SingleRecv
  <2>3. CASE n > 0
    <3>1. /\ inc' <= BufSize /\ taken'[0] = (be - 1) * BufSize + inc'
          /\ \A p \in 0..(inc' - 1) : content'[be][p] # <<>>
          /\ inc' \in Int
      <4>1. BufSize - inc \in Nat \ {0}
        BY <1>t, <2>2, Sizes DEF SingleInv
      <4>2. n \in Int
        BY <1>t, <1>m, <2>1, <4>1, RecvBounds
      <4>3. inc' \in Int
        BY <1>t, <2>1, <2>3, <4>2
      <4> QED
        BY <2>1, <2>2, <2>3, <4>3, SingleEffect
    <3>2. pc' = IF inc' = BufSize THEN "change" ELSE "single"
      BY <2>1, <2>3
    <3>3. /\ pc' \in {"single", "recv"} => inc' < BufSize
          /\ pc' = "change" => inc' = BufSize
          /\ pc' # "regain"
      BY <3>1, <3>2, Sizes
    <3> QED
      BY <2>2, <3>1, <3>3 DEF SingleInv, Written
  <2>4. CASE ~(n > 0)
    BY <1>t, <1>s, <2>1, <2>2, <2>4 DEF SingleInv
  <2> QED
    BY <2>3, <2>4
<1>19. ASSUME NEW s \in Streams, threaded_multistream(s) PROVE SingleInv'
  BY <1>19, <1>t, ThreadFrame
<1>20. CASE UNCHANGED vars
  BY <1>20, <1>t, <1>s DEF vars, SingleInv
<1> QED
  BY <1>1, <1>2, <1>3, <1>4, <1>5, <1>6, <1>7, <1>8, <1>9, <1>10, <1>11, <1>12, <1>13, <1>14, <1>15, <1>16, <1>17, <1>18, <1>19, <1>20 DEF Next, Main

-----------------------------------------------------------------------------
(* The threads                                                               *)

\* What a thread's own step keeps.
Orderly(s) ==
  /\ Local(s)'
  /\ Waiting(s) => Waiting(s)'
  /\ Done(s) => Done(s)' /\ bytes_received'[s] = bytes_received[s]
  /\ (Fresh(s)' \/ InRound(s)') => Fresh(s) \/ InRound(s)
  /\ Parked(s) => Parked(s)' /\ SameWork(s)
  /\ tbuf'[s] = tbuf[s]
  /\ IF tpc[s] = "signal" THEN threads_ready' = threads_ready + 1 /\ Done(s)'
     ELSE threads_ready' = threads_ready

\* Each of the eight steps of a thread is orderly.
LEMMA OwnStep ==
  ASSUME IInv, NEW s \in Streams, threaded_multistream(s)
  PROVE  Orderly(s)
<1> USE DEF environment, session, counts, barrier, buffers, locals, Row
<1>t. /\ tpc \in [Streams -> ThreadPlaces] /\ tstatus \in [Streams -> SUBSET Flags]
      /\ bytes_received \in [Streams -> Nat] /\ spot \in [Streams -> Nat]
      /\ max_packets \in [Streams -> Nat] /\ packets_ready \in [Streams -> Nat]
      /\ offset \in [Streams -> 0..(PacketSize - 1)] /\ read \in [Streams -> SUBSET Flags]
      /\ taken \in [Streams -> Nat]
  BY DEF IInv, TypeOK
<1>l. TypeOK /\ Local(s)
  BY DEF IInv, ThreadInv
<1>f. tpc[s] # "none" /\ Row /\ Grows /\ be' = be
  <2>1. Next
    BY DEF Next
  <2> QED
    BY <2>1, ThreadFrame, ContentStep
<1>r. Remainders
  BY <1>f, ThreadRuns
<1>p. (SameWork(s) /\ Progress(s)) => Progress(s)'
  BY <1>f, <1>l, <1>r, SameProgress
<1>k. KEEP # FULL /\ KEEP # "CLEAN_EXIT" /\ KEEP # "ERROR" /\ FULL # "CLEAN_EXIT" /\ FULL # "ERROR"
  BY DEF KEEP, FULL
<1>a. SameWork(s) => (At(s, First(s), 0) => At(s, First(s), 0)')
  BY <1>f DEF SameWork, At, Base, First
<1>c. UNCHANGED content => Len(content') = Len(content)
  OBVIOUS
<1>1. CASE Top(s)
  <2>1. SameWork(s) /\ bytes_received'[s] = bytes_received[s] /\ UNCHANGED content
    BY <1>1, <1>t DEF Top, SameWork
  <2>2. Progress(s) => Progress(s)'
    BY <1>p, <2>1
  <2>3. At(s, First(s), 0) => At(s, First(s), 0)'
    BY <1>a, <2>1
  <2>4. /\ tbuf'[s] = tbuf[s] /\ packets_ready'[s] = packets_ready[s]
        /\ max_packets'[s] = max_packets[s]
    BY <2>1 DEF SameWork
  <2>5. /\ tpc[s] = "top" /\ tstatus'[s] = tstatus[s] /\ threads_ready' = threads_ready
        /\ read'[s] = read[s]
        /\ tpc'[s] = IF KEEP \in tstatus[s] THEN "lock" ELSE "exit"
    BY <1>1, <1>t DEF Top
  <2>6. Local(s)'
    BY <1>l, <2>1, <2>2, <2>3, <2>4, <2>5 DEF Local, Fresh, InRound
  <2>7. Waiting(s) => Waiting(s)'
    BY <1>f, <1>k, <2>1, <2>2, <2>4, <2>5 DEF Waiting, Done, Fresh, InRound, Parked, Broken
  <2> QED
    BY <1>k, <2>1, <2>4, <2>5, <2>6, <2>7 DEF Orderly, Done, Fresh, InRound, Parked
<1>2. CASE Lock(s)
  <2>1. SameWork(s) /\ bytes_received'[s] = bytes_received[s] /\ UNCHANGED content
    BY <1>2, <1>t DEF Lock, SameWork
  <2>2. Progress(s) => Progress(s)'
    BY <1>p, <2>1
  <2>3. At(s, First(s), 0) => At(s, First(s), 0)'
    BY <1>a, <2>1
  <2>4. /\ tbuf'[s] = tbuf[s] /\ packets_ready'[s] = packets_ready[s]
        /\ max_packets'[s] = max_packets[s]
    BY <2>1 DEF SameWork
  <2>5. /\ tpc[s] = "lock" /\ tstatus'[s] = tstatus[s] /\ threads_ready' = threads_ready
        /\ read'[s] = read[s]
        /\ tpc'[s] = IF FULL \in tstatus[s] THEN "sleep"
                      ELSE IF KEEP \in tstatus[s] THEN "begin" ELSE "exit"
    BY <1>2, <1>t DEF Lock
  <2>6. Local(s)'
    BY <1>l, <2>1, <2>2, <2>3, <2>4, <2>5 DEF Local, Fresh, InRound
  <2>7. Waiting(s) => Waiting(s)'
    BY <1>f, <1>k, <2>1, <2>2, <2>4, <2>5 DEF Waiting, Done, Fresh, InRound, Parked, Broken
  <2> QED
    BY <1>k, <2>1, <2>4, <2>5, <2>6, <2>7 DEF Orderly, Done, Fresh, InRound, Parked
<1>3. CASE Report(s)
  <2>1. SameWork(s) /\ bytes_received'[s] = bytes_received[s] /\ UNCHANGED content
    BY <1>3, <1>t DEF Report, SameWork
  <2>2. Progress(s) => Progress(s)'
    BY <1>p, <2>1
  <2>3. At(s, First(s), 0) => At(s, First(s), 0)'
    BY <1>a, <2>1
  <2>4. /\ tbuf'[s] = tbuf[s] /\ packets_ready'[s] = packets_ready[s]
        /\ max_packets'[s] = max_packets[s]
    BY <2>1 DEF SameWork
  <2>5. /\ tpc[s] = "report" /\ tpc'[s] = "signal" /\ tstatus'[s] = tstatus[s]
        /\ read'[s] = tstatus[s] /\ threads_ready' = threads_ready
    BY <1>3, <1>t DEF Report
  <2>6. Local(s)'
    BY <1>l, <2>1, <2>2, <2>3, <2>4, <2>5 DEF Local, Fresh, InRound
  <2>7. Waiting(s) => Waiting(s)'
    BY <1>f, <1>k, <2>1, <2>2, <2>4, <2>5 DEF Waiting, Done, Fresh, InRound, Parked, Broken
  <2> QED
    BY <1>k, <2>1, <2>4, <2>5, <2>6, <2>7 DEF Orderly, Done, Fresh, InRound, Parked
<1>4. CASE Signal(s)
  <2>1. SameWork(s) /\ bytes_received'[s] = bytes_received[s] /\ UNCHANGED content
    BY <1>4, <1>t DEF Signal, SameWork
  <2>2. Progress(s) => Progress(s)'
    BY <1>p, <2>1
  <2>3. At(s, First(s), 0) => At(s, First(s), 0)'
    BY <1>a, <2>1
  <2>4. /\ tbuf'[s] = tbuf[s] /\ packets_ready'[s] = packets_ready[s]
        /\ max_packets'[s] = max_packets[s]
    BY <2>1 DEF SameWork
  <2>5. /\ tpc[s] = "signal" /\ tpc'[s] = "top" /\ threads_ready' = threads_ready + 1
        /\ tstatus'[s] = IF packets_ready[s] = max_packets[s] THEN read[s] \cup {FULL}
                         ELSE tstatus[s]
    BY <1>4, <1>t DEF Signal
  <2>6. Progress(s)' /\ packets_ready[s] <= max_packets[s]
    BY <1>l, <2>2, <2>5 DEF Local, InRound, Progress
  <2>7. packets_ready[s] = max_packets[s] \/ packets_ready[s] < max_packets[s]
    BY <1>t, <2>6
  <2>8. packets_ready[s] = max_packets[s] => FULL \in tstatus'[s]
    BY <2>5
  <2>9. packets_ready[s] < max_packets[s] => KEEP \notin tstatus'[s] /\ tstatus'[s] = tstatus[s]
    BY <1>l, <1>t, <2>5 DEF Local
  <2>10. Done(s)' /\ ~Done(s) /\ ~Fresh(s)' /\ ~InRound(s)' /\ ~Fresh(s)
    BY <2>5, <2>7, <2>8, <2>9 DEF Done, Fresh, InRound
  <2>11. Waiting(s) => Waiting(s)'
    <3>1. SUFFICES ASSUME Waiting(s) PROVE Waiting(s)'
      OBVIOUS
    <3>2. read[s] = tstatus[s] /\ bytes_received[s] = PacketSize * packets_ready[s]
            /\ (\/ tstatus[s] = {KEEP} /\ packets_ready[s] = max_packets[s]
                \/ Broken(s) /\ packets_ready[s] < max_packets[s])
      BY <2>5, <3>1 DEF Waiting
    <3>3. CASE tstatus[s] = {KEEP} /\ packets_ready[s] = max_packets[s]
      <4>1. tstatus'[s] = {KEEP, FULL}
        BY <2>5, <3>2, <3>3
      <4>2. Parked(s)'
        BY <2>5, <4>1 DEF Parked
      <4> QED
        BY <1>f, <2>1, <2>4, <2>5, <2>6, <2>10, <3>1, <3>2, <3>3, <4>2 DEF Waiting
    <3>4. CASE Broken(s) /\ packets_ready[s] < max_packets[s]
      <4>1. Broken(s)'
        BY <2>9, <3>4 DEF Broken
      <4> QED
        BY <1>f, <2>1, <2>4, <2>5, <2>6, <2>10, <3>1, <3>2, <3>4, <4>1 DEF Waiting
    <3> QED
      BY <3>2, <3>3, <3>4
  <2>12. Local(s)'
    BY <2>5, <2>6, <2>10 DEF Local
  <2> QED
    BY <2>4, <2>5, <2>10, <2>11, <2>12 DEF Orderly, Parked
<1>5. CASE Begin(s)
  <2>1. /\ tpc[s] = "begin" /\ tpc'[s] = "check" /\ tstatus'[s] = tstatus[s]
        /\ spot'[s] = First(s) /\ max_packets'[s] = Quota(s)
        /\ packets_ready'[s] = 0 /\ offset'[s] = 0
        /\ tbuf'[s] = tbuf[s] /\ taken'[s] = taken[s] /\ UNCHANGED content
        /\ bytes_received'[s] = bytes_received[s] /\ threads_ready' = threads_ready
    BY <1>5, <1>t DEF Begin, First, Quota
  <2>2. tbuf[s] \in 1..Len(content) /\ At(s, First(s), 0)
    BY <1>l, <2>1 DEF Local, Fresh
  <2>3. First(s)' = First(s) /\ Quota(s)' = Quota(s) /\ First(s) \in 0..(Mult - 1) /\ Quota(s) \in Nat
    BY <1>f, <1>r, StripeFits DEF First, Quota
  <2>4. At(s, spot[s], offset[s])'
    BY <2>1, <2>2 DEF At, Base
  <2>5. spot'[s] = First(s)' + Mult * packets_ready'[s]
    <3>1. Mult * 0 = 0
      BY Sizes
    <3> QED
      BY <2>1, <2>3, <3>1, Sizes
  <2>6. \A j \in 0..packets_ready'[s], o \in 0..(PacketSize - 1) :
          ~(j < packets_ready'[s] \/ o < offset'[s])
    BY <2>1, Sizes
  <2>7. Progress(s)'
    BY <2>1, <2>2, <2>3, <2>4, <2>5, <2>6 DEF Progress
  <2>8. Local(s)'
    BY <2>1, <2>7 DEF Local, Fresh, InRound
  <2>9. Waiting(s) => Waiting(s)'
    BY <1>f, <2>1, <2>7 DEF Waiting, Done, Fresh, InRound
  <2> QED
    BY <2>1, <2>8, <2>9 DEF Orderly, Done, Fresh, InRound, Parked
<1>6. CASE Check(s)
  <2>1. SameWork(s) /\ UNCHANGED content
    BY <1>6, <1>t DEF Check, SameWork
  <2>2. Progress(s) /\ Progress(s)'
    BY <1>6, <1>l, <1>p, <2>1 DEF Check, Local, InRound
  <2>3. /\ tpc[s] = "check" /\ tstatus'[s] = tstatus[s] /\ threads_ready' = threads_ready
        /\ tbuf'[s] = tbuf[s] /\ packets_ready'[s] = packets_ready[s]
        /\ max_packets'[s] = max_packets[s]
    BY <1>6, <1>t DEF Check
  <2>4. packets_ready[s] = max_packets[s] \/ packets_ready[s] < max_packets[s]
    BY <1>t, <2>2 DEF Progress
  <2>5. CASE packets_ready[s] < max_packets[s] /\ KEEP \in tstatus[s]
    <3>1. tpc'[s] = "recv" /\ bytes_received'[s] = bytes_received[s]
      BY <1>6, <1>t, <2>5 DEF Check
    <3>2. Local(s)'
      BY <2>2, <2>3, <2>5, <3>1 DEF Local, Fresh, InRound
    <3>3. Waiting(s) => Waiting(s)'
      BY <1>f, <2>2, <2>3, <3>1 DEF Waiting, Done, Fresh, InRound
    <3> QED
      BY <2>3, <3>1, <3>2, <3>3 DEF Orderly, Done, Fresh, InRound, Parked
  <2>6. CASE ~(packets_ready[s] < max_packets[s] /\ KEEP \in tstatus[s])
    <3>1. tpc'[s] = "report" /\ bytes_received'[s] = PacketSize * packets_ready[s]
      BY <1>6, <1>t, <2>6 DEF Check
    <3>2. Local(s)'
      BY <2>2, <2>3, <2>6, <3>1 DEF Local, Fresh, InRound
    <3>3. Waiting(s) => Waiting(s)'
      BY <1>f, <2>2, <2>3, <2>4, <2>6, <3>1 DEF Waiting, Done, Fresh, InRound
    <3> QED
      BY <2>3, <3>1, <3>2, <3>3 DEF Orderly, Done, Fresh, InRound, Parked
  <2> QED
    BY <2>5, <2>6
<1>7. CASE Recv(s)
  <2>1. Progress(s)'
    BY <1>7, ReceiveEffect
  <2>2. /\ tpc[s] = "recv" /\ tpc'[s] = "check" /\ tstatus'[s] = tstatus[s]
        /\ threads_ready' = threads_ready /\ tbuf'[s] = tbuf[s]
        /\ bytes_received'[s] = bytes_received[s]
    BY <1>7, <1>t DEF Recv
  <2>3. Local(s)'
    BY <2>1, <2>2 DEF Local, Fresh, InRound
  <2>4. Waiting(s) => Waiting(s)'
    BY <1>f, <2>1, <2>2 DEF Waiting, Done, Fresh, InRound
  <2> QED
    BY <2>2, <2>3, <2>4 DEF Orderly, Done, Fresh, InRound, Parked
<1>8. CASE RecvEnds(s)
  <2>1. SameWork(s) /\ UNCHANGED content
    BY <1>8, <1>t DEF RecvEnds, SameWork
  <2>2. Progress(s) /\ Progress(s)' /\ packets_ready[s] < max_packets[s]
    BY <1>8, <1>l, <1>p, <2>1 DEF RecvEnds, Local, InRound
  <2>3. /\ tpc[s] = "recv" /\ tpc'[s] = "report" /\ threads_ready' = threads_ready
        /\ tbuf'[s] = tbuf[s] /\ packets_ready'[s] = packets_ready[s]
        /\ max_packets'[s] = max_packets[s]
        /\ bytes_received'[s] = PacketSize * packets_ready[s]
    BY <1>8, <1>t DEF RecvEnds
  <2>4. tstatus'[s] = {"CLEAN_EXIT"} \/ tstatus'[s] = {"ERROR"}
    BY <1>8, <1>t DEF RecvEnds
  <2>5. Local(s)'
    BY <1>k, <2>2, <2>3, <2>4 DEF Local, Fresh, InRound
  <2>6. Waiting(s) => Waiting(s)'
    BY <1>f, <2>2, <2>3, <2>4 DEF Waiting, Done, Fresh, InRound, Broken
  <2> QED
    BY <2>3, <2>5, <2>6 DEF Orderly, Done, Fresh, InRound, Parked
<1> QED
  BY <1>1, <1>2, <1>3, <1>4, <1>5, <1>6, <1>7, <1>8 DEF threaded_multistream

\* Steps of the session's thread that leave the others alone.
Idle == \A s \in Streams : SameThread(s)

\* A step that changes nothing of the threads is idle,
LEMMA IdleStep ==
  ASSUME IInv, UNCHANGED <<tpc, tstatus, tbuf, bytes_received, locals, taken, start_remainder,
                           end_remainder>>
  PROVE  Idle /\ Row
BY DEF Idle, SameThread, SameWork, locals, Row

\* and keeps what is known of them.
LEMMA IdleThreads ==
  ASSUME IInv, Idle, Row, Grows
  PROVE  /\ ThreadInv'
         /\ \A s \in Streams : /\ Fresh(s)' <=> Fresh(s)
                               /\ InRound(s)' <=> InRound(s)
                               /\ Done(s)' <=> Done(s)
                               /\ Parked(s)' <=> Parked(s)
         /\ be' = be => \A s \in Streams : Waiting(s) => Waiting(s)'
<1>t. TypeOK /\ \A s \in Streams : Local(s) /\ (tpc[s] # "none" => Remainders)
  BY ThreadRuns DEF IInv, ThreadInv
<1>1. ASSUME NEW s \in Streams PROVE Local(s)'
  BY <1>t, SameLocal DEF Idle
<1>2. ASSUME NEW s \in Streams, be' = be, Waiting(s) PROVE Waiting(s)'
  <2>1. tpc[s] # "none"
    BY <1>2 DEF Waiting
  <2> QED
    BY <1>2, <1>t, <2>1, SameWaiting DEF Idle
<1> QED
  BY <1>1, <1>2, SamePlaces DEF Idle, ThreadInv

\* Every step keeps what the threads know of themselves.
LEMMA ThreadsStep ==
  ASSUME IInv, [Next]_vars
  PROVE  ThreadInv'
<1> USE DEF environment, session, counts, barrier, buffers, thread
<1>t. /\ TypeOK /\ Grows
  BY ContentStep DEF IInv
<1>i. ASSUME UNCHANGED <<tpc, tstatus, tbuf, bytes_received, locals, taken, start_remainder,
                         end_remainder>>
      PROVE  ThreadInv'
  BY <1>i, <1>t, IdleStep, IdleThreads
<1>1. CASE Setup
  BY <1>1, <1>i DEF Setup
<1>2. CASE Accept
  BY <1>2, <1>i DEF Accept
<1>3. CASE AcceptFails
  BY <1>3, <1>i DEF AcceptFails
<1>4. CASE AcceptedEnough
  BY <1>4, <1>i DEF AcceptedEnough
<1>5. CASE stop_streamer
  BY <1>5, <1>i DEF stop_streamer
<1>6. CASE Join
  BY <1>6, <1>i DEF Join
<1>7. CASE CloseSocket
  BY <1>7, <1>i DEF CloseSocket
<1>8. CASE MainLoop
  BY <1>8, <1>i DEF MainLoop
<1>9. CASE Single
  BY <1>9, <1>i DEF Single
<1>10. CASE ChangeBuffer
  BY <1>10, <1>i DEF ChangeBuffer
<1>11. CASE GetFirst
  BY <1>11, <1>i DEF GetFirst, TakeBuffer, Refused
<1>12. CASE Regain
  BY <1>12, <1>i DEF Regain, TakeBuffer, Refused
<1>13. CASE Finish
  BY <1>13, <1>i DEF Finish
<1>14. CASE SingleRecv
  <2> SUFFICES ASSUME NEW s \in Streams PROVE Local(s)'
    BY DEF ThreadInv
  <2>1. tpc'[s] = "none"
    BY <1>14 DEF SingleRecv, IInv, MainInv
  <2> QED
    BY <2>1 DEF Local, Fresh, InRound
<1>15. CASE CreateThreads
  <2> SUFFICES ASSUME NEW s \in Streams PROVE Local(s)'
    BY DEF ThreadInv
  <2>1. /\ pc = "create" /\ be = 1 /\ Len(content) = 1 /\ taken[s] = 0 /\ loop' = loop
        /\ be \in 1..Len(content)
    BY <1>15 DEF CreateThreads, IInv, MainInv, Starting, Changing
  <2>2. PICK n \in (IF "create" \in Faults THEN 0..Mult ELSE {Mult}) :
          /\ tpc' = [r \in Streams |-> IF r < n THEN "top" ELSE "none"]
          /\ tbuf' = [r \in Streams |-> IF r < n THEN be ELSE 0]
    BY <1>15 DEF CreateThreads
  <2>3. (tpc'[s] = "top" /\ tbuf'[s] = 1) \/ tpc'[s] = "none"
    BY <2>1, <2>2
  <2>4. start_remainder' = 0 /\ UNCHANGED <<taken, content>>
    BY <1>15 DEF CreateThreads
  <2>5. ASSUME tbuf'[s] = 1
        PROVE  At(s, First(s), 0)'
    <3>1. First(s)' = s
      BY <2>4, Sizes DEF First, correct_bufspot
    <3>2. 0 * PacketSize = 0 /\ (1 - 1) * Elems = 0 /\ 0 * Mult = 0
      BY Sizes
    <3>3. taken'[s] = 0 * PacketSize + 0 /\ (1 - 1) * Elems + s = 0 * Mult + s
      BY <2>1, <2>4, <3>2, Sizes
    <3> QED
      BY <2>5, <3>1, <3>3 DEF At, Base
  <2> QED
    BY <2>1, <2>3, <2>4, <2>5 DEF Local, Fresh, InRound
<1>16. CASE Collect
  <2> SUFFICES ASSUME NEW s \in Streams PROVE Local(s)'
    BY DEF ThreadInv
  <2>1. Done(s) /\ tpc' = tpc /\ tstatus' = tstatus
    BY <1>16, CollectEffect DEF Collect
  <2>2. ~Fresh(s)' /\ ~InRound(s)'
    BY <2>1 DEF Done, Fresh, InRound
  <2> QED
    BY <2>2 DEF Local, InRound
<1>17. CASE Release
  <2> SUFFICES ASSUME NEW s \in Streams PROVE Local(s)'
    BY DEF ThreadInv
  <2>1. /\ Parked(s) /\ tbuf[s] = be - 1 /\ At(s, Elems + First(s), 0) /\ be \in 1..Len(content)
        /\ be \in Int
    <3>1. pc = "release" /\ loop = "multi"
      BY <1>17 DEF Release, IInv, MainInv
    <3>2. be \in 0..Len(content) /\ be # 0
      BY <1>t, <3>1 DEF IInv, MainInv, Changing, TypeOK
    <3> QED
      BY <3>1, <3>2 DEF IInv, BarrierInv, Turning, Changing
  <2>2. /\ tpc'[s] \in {"top", "lock"} /\ tbuf'[s] = be /\ UNCHANGED <<taken, content>>
        /\ Row
    BY <1>17, <2>1 DEF Release, Broadcast, FromStreams, Parked, Row
  <2>3. PICK row \in Nat : /\ taken[s] = row * PacketSize + 0
                           /\ Base(be - 1) + (Elems + First(s)) = row * Mult + s
    BY <2>1 DEF At
  <2>4. Base(be - 1) + (Elems + First(s)) = Base(be) + First(s)
    <3>0. tpc[s] # "none"
      BY <2>1 DEF Parked
    <3>1. First(s) \in Int
      BY <3>0, ThreadRuns, StripeFits, Sizes
    <3>2. ((be - 1) - 1) * Elems = (be - 1) * Elems - Elems /\ (be - 1) * Elems \in Int
      BY <2>1, Sizes
    <3> QED
      BY <2>1, <3>1, <3>2, Sizes DEF Base
  <2>5. At(s, First(s), 0)'
    BY <2>2, <2>3, <2>4 DEF At, Base, First, Row
  <2> QED
    BY <2>1, <2>2, <2>5 DEF Local, Fresh, InRound
<1>18. CASE Rundown
  <2> SUFFICES ASSUME NEW s \in Streams PROVE Local(s)'
    BY DEF ThreadInv
  <2>1. /\ SameWork(s) /\ Row /\ tstatus'[s] = {} /\ UNCHANGED content
        /\ tpc'[s] = IF tpc[s] = "sleep" THEN "lock" ELSE tpc[s]
    BY <1>18 DEF Rundown, SameWork, Row, FromStreams, Broadcast, locals
  <2>2. Local(s)
    BY DEF IInv, ThreadInv
  <2>3. CASE tpc[s] = "begin"
    <3>1. tbuf'[s] \in 1..Len(content') /\ At(s, First(s), 0)'
      BY <2>1, <2>2, <2>3 DEF Local, Fresh, SameWork, At, Base, First, Row
    <3> QED
      BY <2>1, <2>3, <3>1 DEF Local, Fresh, InRound
  <2>4. CASE InRound(s)
    <3>1. Remainders
      BY <2>4, ThreadRuns DEF InRound
    <3>2. Progress(s)'
      BY <1>t, <2>1, <2>2, <2>4, <3>1, SameProgress DEF Local
    <3>3. packets_ready'[s] = packets_ready[s] /\ max_packets'[s] = max_packets[s]
      BY <2>1 DEF SameWork
    <3> QED
      BY <2>1, <2>2, <2>4, <3>2, <3>3 DEF Local, Fresh, InRound
  <2>5. CASE tpc[s] # "begin" /\ ~InRound(s)
    BY <2>1, <2>5 DEF Local, Fresh, InRound
  <2> QED
    BY <2>3, <2>4, <2>5
<1>19. ASSUME NEW s \in Streams, threaded_multistream(s) PROVE ThreadInv'
  <2>1. Local(s)'
    BY <1>19, OwnStep DEF Orderly
  <2>2. ASSUME NEW r \in Streams \ {s} PROVE Local(r)'
    <3>1. SameThread(r) /\ Row
      BY <1>19, ThreadFrame
    <3>2. Local(r) /\ (tpc[r] # "none" => Remainders)
      BY ThreadRuns DEF IInv, ThreadInv
    <3> QED
      BY <1>t, <3>1, <3>2, SameLocal
  <2> QED
    BY <2>1, <2>2 DEF ThreadInv
<1>20. CASE UNCHANGED vars
  BY <1>20, <1>i DEF vars
<1> QED
  BY <1>1, <1>2, <1>3, <1>4, <1>5, <1>6, <1>7, <1>8, <1>9, <1>10, <1>11, <1>12, <1>13, <1>14, <1>15, <1>16, <1>17, <1>18, <1>19, <1>20 DEF Next, Main

\* The steps of the session's thread that touch no other thread.
LEMMA BarrierIdle ==
  ASSUME IInv, Idle, Row, Grows, UNCHANGED threads_ready
  PROVE  /\ Counting'
         /\ UNCHANGED be => (Lasting /\ (pc' = pc /\ (stopped => stopped')) => Lasting')
         /\ Reported(Streams)' = Reported(Streams)
<1>1. {s \in Streams : Done(s)}' = {s \in Streams : Done(s)}
  BY IdleThreads
<1>2. Counting'
  BY <1>1 DEF IInv, BarrierInv, Counting
<1>3. UNCHANGED be => (Lasting /\ (pc' = pc /\ (stopped => stopped')) => Lasting')
  BY IdleThreads DEF Lasting, Idle, SameThread, SameWork
<1>4. Reported(Streams)' = Reported(Streams)
  <2>1. \A s \in Streams : bytes_received'[s] = bytes_received[s]
    BY DEF Idle, SameThread
  <2>2. {byte \in Streams \X (1..BufSize) : byte[2] <= bytes_received'[byte[1]]}
          = {byte \in Streams \X (1..BufSize) : byte[2] <= bytes_received[byte[1]]}
    BY <2>1
  <2> QED
    BY <2>2 DEF Reported
<1> QED
  BY <1>2, <1>3, <1>4

\* Before there are threads, nothing is claimed of them.
LEMMA BarrierNone ==
  ASSUME IInv, [Next]_vars, \A s \in Streams : tpc[s] = "none" /\ tpc'[s] = "none",
         UNCHANGED threads_ready,
         pc' \notin {"loop", "await", "rundown"}, pc' \in Changing => loop' # "multi"
  PROVE  BarrierInv'
<1>1. \A s \in Streams : ~Done(s) /\ ~Done(s)' /\ ~Fresh(s)' /\ ~InRound(s)'
  BY DEF Done, Fresh, InRound
<1>2. {s \in Streams : Done(s)}' = {s \in Streams : Done(s)}
  BY <1>1
<1>3. Counting'
  BY <1>2 DEF IInv, BarrierInv, Counting
<1> QED
  BY <1>1, <1>3 DEF BarrierInv, Gathering, Turning, Ending, Lasting

\* Every step keeps the barrier.
LEMMA BarrierStep ==
  ASSUME IInv, [Next]_vars
  PROVE  BarrierInv'
<1> USE DEF environment, session, counts, barrier, buffers, thread
<1>t. /\ TypeOK /\ Grows /\ loop' = loop /\ MainInv /\ BarrierInv
      /\ Counting /\ Gathering /\ Turning /\ Ending /\ Lasting
  BY ContentStep DEF IInv, BarrierInv
<1>i. ASSUME UNCHANGED <<tpc, tstatus, tbuf, bytes_received, locals, taken, start_remainder,
                         end_remainder>>
      PROVE  Idle /\ Row
  BY <1>i, IdleStep
<1>1. CASE Setup
  <2>1. \A s \in Streams : tpc[s] = "none" /\ tpc'[s] = "none"
    BY <1>1, <1>t DEF Setup, MainInv, Starting
  <2>2. /\ UNCHANGED threads_ready /\ pc' \notin {"loop", "await", "rundown"}
        /\ pc' \in Changing => loop' # "multi"
    BY <1>1, <1>t DEF Setup, MainInv, Changing
  <2> QED
    BY <2>1, <2>2, BarrierNone
<1>2. CASE Accept
  <2>1. \A s \in Streams : tpc[s] = "none" /\ tpc'[s] = "none"
    BY <1>2, <1>t DEF Accept, MainInv, Starting
  <2>2. /\ UNCHANGED threads_ready /\ pc' \notin {"loop", "await", "rundown"}
        /\ pc' \in Changing => loop' # "multi"
    BY <1>2, <1>t DEF Accept, MainInv, Changing
  <2> QED
    BY <2>1, <2>2, BarrierNone
<1>3. CASE AcceptFails
  <2>1. \A s \in Streams : tpc[s] = "none" /\ tpc'[s] = "none"
    BY <1>3, <1>t DEF AcceptFails, MainInv, Starting
  <2>2. /\ UNCHANGED threads_ready /\ pc' \notin {"loop", "await", "rundown"}
        /\ pc' \in Changing => loop' # "multi"
    BY <1>3, <1>t DEF AcceptFails, MainInv, Changing
  <2> QED
    BY <2>1, <2>2, BarrierNone
<1>4. CASE AcceptedEnough
  <2>1. \A s \in Streams : tpc[s] = "none" /\ tpc'[s] = "none"
    BY <1>4, <1>t DEF AcceptedEnough, MainInv, Starting
  <2>2. /\ UNCHANGED threads_ready /\ pc' \notin {"loop", "await", "rundown"}
        /\ pc' \in Changing => loop' # "multi"
    BY <1>4, <1>t DEF AcceptedEnough, MainInv, Changing
  <2> QED
    BY <2>1, <2>2, BarrierNone
<1>5. CASE GetFirst
  <2>1. \A s \in Streams : tpc[s] = "none" /\ tpc'[s] = "none"
    BY <1>5, <1>t DEF GetFirst, MainInv, Starting
  <2>2. /\ UNCHANGED threads_ready /\ pc' \notin {"loop", "await", "rundown"}
        /\ pc' \in Changing => loop' # "multi"
    BY <1>5, <1>t DEF GetFirst, MainInv, Changing
  <2> QED
    BY <2>1, <2>2, BarrierNone
<1>6. CASE Single
  <2>1. \A s \in Streams : tpc[s] = "none" /\ tpc'[s] = "none"
    BY <1>6, <1>t DEF Single, MainInv, Starting
  <2>2. /\ UNCHANGED threads_ready /\ pc' \notin {"loop", "await", "rundown"}
        /\ pc' \in Changing => loop' # "multi"
    BY <1>6, <1>t DEF Single, MainInv, Changing
  <2> QED
    BY <2>1, <2>2, BarrierNone
<1>7. CASE SingleRecv
  <2>1. \A s \in Streams : tpc[s] = "none" /\ tpc'[s] = "none"
    BY <1>7, <1>t DEF SingleRecv, MainInv, Starting
  <2>2. /\ UNCHANGED threads_ready /\ pc' \notin {"loop", "await", "rundown"}
        /\ pc' \in Changing => loop' # "multi"
    BY <1>7, <1>t DEF SingleRecv, MainInv, Changing
  <2> QED
    BY <2>1, <2>2, BarrierNone
<1>8. CASE stop_streamer
  <2>1. Idle /\ Row /\ UNCHANGED threads_ready
    BY <1>8, <1>i DEF stop_streamer
  <2>2. Counting'
    BY <1>t, <2>1, BarrierIdle
  <2>3. UNCHANGED <<loop, pc, be, inc, active_threads, content>> /\ stopped'
    BY <1>8 DEF stop_streamer
  <2>4. Lasting'
    BY <1>t, <2>1, <2>3, BarrierIdle
  <2>5. \A s \in Streams : Waiting(s) => Waiting(s)'
    BY <1>t, <2>1, <2>3, IdleThreads
  <2>6. Gathering'
    BY <1>t, <2>3, <2>5 DEF Gathering
  <2>7. Turning'
    <3> SUFFICES ASSUME loop = "multi", pc \in Changing PROVE Turning'
      BY <2>3 DEF Turning
    <3>1. \A s \in Streams : /\ Parked(s)' /\ bytes_received'[s] = 0
                             /\ tbuf'[s] = IF pc = "release" THEN be - 1 ELSE be
                             /\ At(s, Elems + First(s), 0)'
      <4> SUFFICES ASSUME NEW s \in Streams
                   PROVE  /\ Parked(s)' /\ bytes_received'[s] = 0
                          /\ tbuf'[s] = IF pc = "release" THEN be - 1 ELSE be
                          /\ At(s, Elems + First(s), 0)'
        OBVIOUS
      <4>1. /\ Parked(s) /\ bytes_received[s] = 0 /\ At(s, Elems + First(s), 0)
            /\ tbuf[s] = IF pc = "release" THEN be - 1 ELSE be
        BY <1>t DEF Turning
      <4>2. SameThread(s)
        BY <2>1 DEF Idle
      <4>3. At(s, Elems + First(s), 0)'
        BY <2>1, <4>1, <4>2 DEF SameThread, SameWork, At, Base, First, Row
      <4> QED
        BY <4>1, <4>2, <4>3, SamePlaces DEF SameThread, SameWork
    <3> QED
      BY <1>t, <2>3, <3>1 DEF Turning
  <2>8. Ending'
    BY <1>t, <2>1, <2>3, <2>5, BarrierIdle, IdleThreads DEF Ending, Filled, Written
  <2> QED
    BY <2>2, <2>4, <2>6, <2>7, <2>8 DEF BarrierInv
<1>9. CASE Join
  <2>1. Idle /\ Row /\ UNCHANGED threads_ready
    BY <1>9, <1>i DEF Join
  <2>2. Counting'
    BY <1>t, <2>1, BarrierIdle
  <2>3. \A s \in Streams : ~Fresh(s)' /\ ~InRound(s)'
    BY <1>9 DEF Join, Fresh, InRound
  <2> QED
    BY <1>9, <2>2, <2>3 DEF Join, BarrierInv, Gathering, Turning, Ending, Lasting, Changing
<1>10. CASE CloseSocket
  <2>1. Idle /\ Row /\ UNCHANGED threads_ready
    BY <1>10, <1>i DEF CloseSocket
  <2>2. Counting'
    BY <1>t, <2>1, BarrierIdle
  <2>3. \A s \in Streams : ~Fresh(s)' /\ ~InRound(s)'
    BY <1>10, <1>t, <2>1, IdleThreads DEF CloseSocket, Lasting
  <2> QED
    BY <1>10, <2>2, <2>3 DEF CloseSocket, BarrierInv, Gathering, Turning, Ending, Lasting, Changing
<1>11. CASE MainLoop
  <2>1. Idle /\ Row /\ UNCHANGED threads_ready
    BY <1>11, <1>i DEF MainLoop
  <2>2. Counting'
    BY <1>t, <2>1, BarrierIdle
  <2>3. /\ pc = "loop" /\ be # 0 /\ UNCHANGED <<loop, be, inc, active_threads, stopped>>
        /\ pc' = IF Running /\ active_threads > 0 THEN "await" ELSE "rundown"
        /\ ~Running => stopped
    BY <1>11, <1>t DEF MainLoop, MainInv, Changing
  <2>4. active_threads = Mult /\ inc = 0 /\ \A s \in Streams : Waiting(s)'
    BY <1>t, <2>1, <2>3, IdleThreads DEF Gathering
  <2>5. pc' = "rundown" => stopped
    BY <2>3, <2>4, Sizes
  <2> QED
    BY <2>2, <2>3, <2>4, <2>5 DEF BarrierInv, Gathering, Turning, Ending, Lasting, Changing
<1>12. CASE ChangeBuffer
  <2>1. Idle /\ Row /\ UNCHANGED threads_ready
    BY <1>12, <1>i DEF ChangeBuffer
  <2>2. Counting'
    BY <1>t, <2>1, BarrierIdle
  <2>3. /\ pc = "change" /\ pc' = "regain" /\ UNCHANGED <<loop, be, inc, active_threads>>
    BY <1>12 DEF ChangeBuffer
  <2>4. ASSUME loop = "multi"
        PROVE  /\ active_threads = Mult /\ inc = BufSize
               /\ \A s \in Streams : /\ Parked(s)' /\ bytes_received'[s] = 0 /\ tbuf'[s] = be
                                     /\ At(s, Elems + First(s), 0)'
    <3> SUFFICES ASSUME NEW s \in Streams
                 PROVE  /\ active_threads = Mult /\ inc = BufSize
                        /\ Parked(s)' /\ bytes_received'[s] = 0 /\ tbuf'[s] = be
                        /\ At(s, Elems + First(s), 0)'
      BY Sizes
    <3>1. /\ active_threads = Mult /\ inc = BufSize
          /\ Parked(s) /\ bytes_received[s] = 0 /\ At(s, Elems + First(s), 0) /\ tbuf[s] = be
      BY <1>t, <2>3, <2>4 DEF Turning, Changing
    <3>2. SameThread(s)
      BY <2>1 DEF Idle
    <3>3. At(s, Elems + First(s), 0)'
      BY <2>1, <3>1, <3>2 DEF SameThread, SameWork, At, Base, First, Row
    <3> QED
      BY <3>1, <3>2, <3>3, SamePlaces DEF SameThread, SameWork
  <2>5. Turning'
    BY <1>t, <2>3, <2>4 DEF Turning
  <2> QED
    BY <2>2, <2>3, <2>5 DEF BarrierInv, Gathering, Ending, Lasting
<1>13. CASE Regain
  <2>1. Idle /\ Row /\ UNCHANGED threads_ready
    BY <1>13, <1>i DEF Regain, TakeBuffer, Refused
  <2>2. Counting'
    BY <1>t, <2>1, BarrierIdle
  <2>3. /\ pc = "regain" /\ be = Len(content) /\ UNCHANGED <<loop, active_threads>>
    BY <1>13, <1>t DEF Regain, MainInv, Changing
  <2>4. ASSUME loop = "multi", NEW s \in Streams
        PROVE  /\ active_threads = Mult /\ inc = BufSize
               /\ Parked(s)' /\ bytes_received'[s] = 0 /\ tbuf'[s] = be
               /\ At(s, Elems + First(s), 0)'
    <3>1. /\ active_threads = Mult /\ inc = BufSize
          /\ Parked(s) /\ bytes_received[s] = 0 /\ At(s, Elems + First(s), 0) /\ tbuf[s] = be
      BY <1>t, <2>3, <2>4 DEF Turning, Changing
    <3>2. SameThread(s)
      BY <2>1 DEF Idle
    <3>3. At(s, Elems + First(s), 0)'
      BY <2>1, <3>1, <3>2 DEF SameThread, SameWork, At, Base, First, Row
    <3> QED
      BY <3>1, <3>2, <3>3, SamePlaces DEF SameThread, SameWork
  <2>5. CASE TakeBuffer
    <3>1. be' = be + 1 /\ be \in Nat
      <4>1. content \in Seq(Buffers)
        BY <1>t DEF TypeOK, Buffers
      <4> QED
        BY <1>t, <2>3, <2>5, <4>1, LenProperties, TakeBufferEffect
    <3>2. pc' \in {"release", "single"} /\ (loop = "multi" => pc' = "release")
      BY <1>13, <3>1 DEF Regain, Refused
    <3>3. be' - 1 = be
      BY <3>1
    <3>4. Turning'
      <4> SUFFICES ASSUME loop = "multi" PROVE Turning'
        BY <2>3 DEF Turning
      <4>1. \A s \in Streams : /\ active_threads = Mult /\ Parked(s)' /\ bytes_received'[s] = 0
                               /\ tbuf'[s] = be' - 1 /\ At(s, Elems + First(s), 0)'
        BY <2>4, <3>3
      <4>2. pc' = "release" /\ inc' = 0 /\ active_threads' = Mult
        BY <1>t, <2>3, <2>4, <2>5, <3>2, Sizes, TakeBufferEffect
      <4> QED
        BY <4>1, <4>2 DEF Turning
    <3> QED
      BY <2>2, <3>2, <3>4 DEF BarrierInv, Gathering, Ending, Lasting
  <2>6. CASE ~TakeBuffer
    <3>1. be' = 0 /\ inc' = inc /\ pc' = IF loop = "multi" THEN "rundown" ELSE "finish"
      BY <1>13, <2>6 DEF Regain, Refused
    <3>2. CASE loop = "multi"
      <4>1. \A s \in Streams : Done(s)' /\ bytes_received'[s] = 0
        BY <2>4, <3>2 DEF Parked, Done, Fresh, InRound
      <4>2. Reported(Streams)' = 0
        <5>1. \A n \in 1..BufSize : ~(n <= 0)
          BY Sizes
        <5>2. {byte \in Streams \X (1..BufSize) : byte[2] <= bytes_received'[byte[1]]} = {}
          BY <4>1, <5>1
        <5> QED
          BY <5>2, FS_EmptySet DEF Reported
      <4>3. inc = BufSize
        BY <2>4, <3>2, Sizes
      <4>4. Ending'
        BY <3>1, <4>1, <4>2, <4>3, Sizes DEF Ending
      <4>5. Lasting' /\ Gathering' /\ Turning'
        BY <3>1, <3>2, <4>1 DEF Lasting, Gathering, Turning, Changing, Done
      <4> QED
        BY <2>2, <4>4, <4>5 DEF BarrierInv
    <3>3. CASE loop # "multi"
      <4>1. \A s \in Streams : ~Fresh(s)' /\ ~InRound(s)'
        BY <1>13, <1>t, <3>3 DEF Regain, MainInv, Fresh, InRound
      <4> QED
        BY <2>2, <2>3, <3>1, <3>3, <4>1 DEF BarrierInv, Lasting, Gathering, Turning, Ending
    <3> QED
      BY <3>2, <3>3
  <2> QED
    BY <2>5, <2>6
<1>14. CASE Finish
  <2>1. Idle /\ Row /\ UNCHANGED threads_ready
    BY <1>14, <1>i DEF Finish
  <2>2. Counting'
    BY <1>t, <2>1, BarrierIdle
  <2>3. /\ pc = "finish" /\ UNCHANGED <<loop, stopped>> /\ pc' \in {"join", "close", "crashed"}
        /\ be # 0 /\ loop = "multi" => pc' = "join"
    BY <1>14 DEF Finish
  <2>4. ASSUME NEW s \in Streams, Fresh(s)' \/ InRound(s)'
        PROVE  stopped /\ be # 0 /\ loop = "multi"
    <3>1. Fresh(s) \/ InRound(s)
      BY <1>t, <2>1, <2>4, IdleThreads
    <3>2. loop = "multi"
      BY <3>1, ThreadRuns DEF Fresh, InRound
    <3> QED
      BY <1>t, <2>3, <3>1, <3>2 DEF Lasting
  <2> QED
    BY <2>2, <2>3, <2>4 DEF BarrierInv, Lasting, Gathering, Turning, Ending, Changing
<1>15. CASE CreateThreads
  <2>1. /\ pc = "create" /\ loop = "multi" /\ threads_ready' = 0 /\ active_threads = Mult /\ inc = 0
        /\ be # 0 /\ \A s \in Streams : bytes_received'[s] = 0 /\ tpc[s] = "none"
        /\ UNCHANGED <<loop, be, inc, active_threads>> /\ be \in 1..Len(content) /\ UNCHANGED content
    <3>1. be \in 0..Len(content)
      BY <1>t DEF TypeOK
    <3> QED
      BY <1>15, <1>t, <3>1 DEF CreateThreads, MainInv, Starting, Changing
  <2>2. PICK n \in (IF "create" \in Faults THEN 0..Mult ELSE {Mult}) :
          /\ tpc' = [s \in Streams |-> IF s < n THEN "top" ELSE "none"]
          /\ tstatus' = [s \in Streams |-> IF s < n THEN {KEEP} ELSE {}]
          /\ tbuf' = [s \in Streams |-> IF s < n THEN be ELSE 0]
          /\ pc' = IF n = Mult THEN "loop" ELSE "join"
    BY <1>15 DEF CreateThreads
  <2>3. Counting'
    <3>1. {s \in Streams : Done(s)}' \in SUBSET Streams
      OBVIOUS
    <3>2. IsFiniteSet({s \in Streams : Done(s)}')
      BY <3>1, PlacesFinite, FS_Subset
    <3>3. Cardinality({s \in Streams : Done(s)}') \in Nat
      BY <3>2, FS_CardinalityType
    <3> QED
      BY <2>1, <3>3 DEF Counting
  <2>4. ASSUME n = Mult, NEW s \in Streams
        PROVE  Waiting(s)'
    <3>1. s < n
      BY <2>4, Sizes
    <3>2. tpc'[s] = "top" /\ tstatus'[s] = {KEEP} /\ tbuf'[s] = be'
      BY <2>1, <2>2, <3>1
    <3>3. KEEP # FULL
      BY DEF KEEP, FULL
    <3> QED
      BY <2>1, <3>2, <3>3 DEF Waiting, Fresh, InRound, Done
  <2>5. \A s \in Streams : (Fresh(s)' \/ InRound(s)') => tbuf'[s] = be
    BY <2>2 DEF Fresh, InRound
  <2>6. Gathering' /\ Turning' /\ Ending' /\ Lasting'
    BY <2>1, <2>2, <2>4, <2>5 DEF Gathering, Turning, Ending, Lasting, Changing
  <2> QED
    BY <2>3, <2>6 DEF BarrierInv
<1>16. CASE Collect
  <2>1. /\ loop = "multi" /\ Remainders /\ be # 0
        /\ \A s \in Streams : Done(s) /\ Waiting(s)
        /\ inc' + Reported(Streams)' <= BufSize
        /\ inc' + Reported(Streams)' = BufSize => Filled(be)
        /\ pc' = "change" => /\ inc' = BufSize /\ Filled(be) /\ active_threads' = Mult
                             /\ \A s \in Streams : Parked(s) /\ bytes_received'[s] = 0
    BY <1>16, CollectEffect
  <2>2. /\ pc' \in {"change", "rundown"}
        /\ UNCHANGED <<loop, be, content, threads_ready, tpc, tstatus, tbuf, taken>>
        /\ pc' = "change" => start_remainder' = end_remainder
    BY <1>16 DEF Collect
  <2>3. \A s \in Streams : Done(s)' /\ ~Fresh(s)' /\ ~InRound(s)' /\ (Parked(s) => Parked(s)')
    BY <2>1, <2>2 DEF Done, Fresh, InRound, Parked
  <2>4. Counting'
    <3>1. {s \in Streams : Done(s)}' = {s \in Streams : Done(s)}
      BY <2>1, <2>3
    <3> QED
      BY <1>t, <2>2, <3>1 DEF Counting
  <2>5. Filled(be) => Filled(be)'
    BY <2>2 DEF Filled, Written
  <2>6. Ending'
    BY <2>1, <2>2, <2>3, <2>5 DEF Ending
  <2>7. ASSUME pc' = "change", NEW s \in Streams
        PROVE  At(s, Elems + First(s), 0)'
    <3>1. Parked(s) /\ Waiting(s) /\ Done(s)
      BY <2>1, <2>7
    <3>2. Progress(s) /\ packets_ready[s] = max_packets[s] /\ KEEP \in tstatus[s]
      <4>1. ~Broken(s)
        BY <3>1 DEF Parked, Broken, KEEP, FULL
      <4> QED
        BY <3>1, <4>1 DEF Waiting, Parked
    <3>3. spot[s] = First(s) + Mult * Quota(s) /\ offset[s] = 0
      <4>1. offset[s] \in 0..(PacketSize - 1) /\ packets_ready[s] \in Nat
        BY <1>t DEF TypeOK
      <4> QED
        BY <3>2, <4>1, Sizes DEF Progress
    <3>4. spot[s] = Elems + correct_bufspot(s, end_remainder)
      BY <2>1, <3>3, StripeFits
    <3>5. First(s)' = correct_bufspot(s, end_remainder)
      BY <2>2, <2>7 DEF First, correct_bufspot
    <3>6. At(s, spot[s], 0)
      BY <3>2, <3>3 DEF Progress
    <3> QED
      BY <2>2, <3>4, <3>5, <3>6 DEF At, Base
  <2>8. Turning'
    <3> SUFFICES ASSUME pc' = "change" PROVE Turning'
      BY <2>2 DEF Turning, Changing
    <3>1. \A s \in Streams : tbuf'[s] = be'
      BY <2>1, <2>2 DEF Waiting
    <3>2. \A s \in Streams : Parked(s)' /\ bytes_received'[s] = 0
      BY <2>1, <2>3
    <3> QED
      BY <2>1, <2>7, <3>1, <3>2 DEF Turning
  <2> QED
    BY <2>2, <2>3, <2>4, <2>6, <2>8 DEF BarrierInv, Gathering, Lasting
<1>17. CASE Release
  <2>1. /\ pc = "release" /\ loop = "multi" /\ be # 0 /\ inc = 0 /\ active_threads = Mult
        /\ \A s \in Streams : Parked(s) /\ bytes_received[s] = 0
    BY <1>17, <1>t DEF Release, MainInv, Turning, Changing
  <2>2. /\ pc' = "loop" /\ threads_ready' = 0
        /\ UNCHANGED <<loop, be, inc, active_threads, bytes_received>>
    BY <1>17 DEF Release
  <2>3. \A s \in Streams : tpc'[s] \in {"top", "lock"} /\ tstatus'[s] = {KEEP} /\ tbuf'[s] = be
    BY <1>17, <2>1 DEF Release, Parked, Broadcast, FromStreams
  <2>4. \A s \in Streams : Waiting(s)'
    <3>1. KEEP # FULL
      BY DEF KEEP, FULL
    <3> QED
      BY <2>1, <2>2, <2>3, <3>1 DEF Waiting, Fresh, InRound, Done
  <2>5. Counting'
    <3>1. {s \in Streams : Done(s)}' \in SUBSET Streams
      OBVIOUS
    <3>2. IsFiniteSet({s \in Streams : Done(s)}')
      BY <3>1, PlacesFinite, FS_Subset
    <3>3. Cardinality({s \in Streams : Done(s)}') \in Nat
      BY <3>2, FS_CardinalityType
    <3> QED
      BY <2>2, <3>3 DEF Counting
  <2> QED
    BY <2>1, <2>2, <2>4, <2>5 DEF BarrierInv, Gathering, Turning, Ending, Lasting, Changing
<1>18. CASE Rundown
  <2>1. /\ pc = "rundown" /\ pc' = "finish" /\ UNCHANGED <<loop, be, stopped, threads_ready>>
        /\ \A s \in Streams : /\ tstatus'[s] = {}
                              /\ tpc'[s] = IF tpc[s] = "sleep" THEN "lock" ELSE tpc[s]
    BY <1>18 DEF Rundown, FromStreams, Broadcast
  <2>2. \A s \in Streams : Done(s) => Done(s)' /\ ~Fresh(s)' /\ ~InRound(s)'
    BY <2>1 DEF Done, Fresh, InRound
  <2>3. Counting'
    <3>1. {s \in Streams : Done(s)} \subseteq {s \in Streams : Done(s)}'
      BY <2>2
    <3>2. {s \in Streams : Done(s)}' \in SUBSET Streams
      OBVIOUS
    <3> DEFINE D == {s \in Streams : Done(s)}
               E == {s \in Streams : Done(s)}'
    <3>3. IsFiniteSet(E) /\ D \in SUBSET E
      BY <3>1, <3>2, PlacesFinite, FS_Subset
    <3>4. IsFiniteSet(D) /\ Cardinality(D) <= Cardinality(E)
      BY <3>3, FS_Subset
    <3>5. Cardinality(D) \in Nat /\ Cardinality(E) \in Nat
      BY <3>3, <3>4, FS_CardinalityType
    <3>6. threads_ready <= Cardinality(D) /\ threads_ready \in Nat
      BY <1>t DEF Counting, TypeOK
    <3> HIDE DEF D, E
    <3>7. threads_ready <= Cardinality(E)
      BY <3>4, <3>5, <3>6
    <3> QED
      BY <2>1, <3>7 DEF Counting, E
  <2>4. Lasting'
    BY <1>t, <2>1, <2>2 DEF Ending, Lasting
  <2> QED
    BY <2>1, <2>3, <2>4 DEF BarrierInv, Gathering, Turning, Ending, Changing
<1>19. ASSUME NEW s \in Streams, threaded_multistream(s) PROVE BarrierInv'
  <2>1. Orderly(s)
    BY <1>19, OwnStep
  <2>2. /\ UNCHANGED <<loop, pc, be, inc, stopped, active_threads>> /\ Row
        /\ \A r \in Streams \ {s} : SameThread(r)
        /\ tpc[s] # "none"
    BY <1>19, ThreadFrame
  <2>3. loop = "multi" /\ Remainders
    BY <2>2, ThreadRuns
  <2>4. ASSUME NEW r \in Streams
        PROVE  /\ Waiting(r) => Waiting(r)'
               /\ Done(r) => Done(r)' /\ bytes_received'[r] = bytes_received[r]
               /\ (Fresh(r)' \/ InRound(r)') => Fresh(r) \/ InRound(r)
               /\ Parked(r) => Parked(r)' /\ SameWork(r)
               /\ tbuf'[r] = tbuf[r]
    <3>1. CASE r = s
      BY <2>1, <3>1 DEF Orderly
    <3>2. CASE r # s
      <4>1. SameThread(r)
        BY <2>2, <3>2
      <4>2. Waiting(r) => Waiting(r)'
        BY <1>t, <2>2, <2>3, <4>1, SameWaiting
      <4> QED
        BY <4>1, <4>2, SamePlaces DEF SameThread, SameWork
    <3> QED
      BY <3>1, <3>2
  <2>5. Counting'
    <3> DEFINE D == {r \in Streams : Done(r)}
               E == {r \in Streams : Done(r)}'
    <3>1. D \subseteq E /\ E \in SUBSET Streams
      BY <2>4
    <3>2. IsFiniteSet(E)
      BY <3>1, PlacesFinite, FS_Subset
    <3>3. CASE tpc[s] = "signal"
      <4>1. threads_ready + 1 <= Cardinality(D \cup {s}) /\ threads_ready' = threads_ready + 1
        BY <2>1, <3>3, SignalCounts DEF Orderly
      <4>2. Done(s)'
        BY <2>1, <3>3 DEF Orderly
      <4>3. D \cup {s} \subseteq E
        BY <3>1, <4>2
      <4>4. IsFiniteSet(D \cup {s}) /\ Cardinality(D \cup {s}) <= Cardinality(E)
        BY <3>2, <4>3, FS_Subset
      <4>5. Cardinality(D \cup {s}) \in Nat /\ Cardinality(E) \in Nat /\ threads_ready \in Nat
        BY <1>t, <3>2, <4>4, FS_CardinalityType DEF TypeOK
      <4> HIDE DEF D, E
      <4>6. threads_ready' <= Cardinality(E)
        BY <4>1, <4>4, <4>5
      <4> QED
        BY <4>6 DEF Counting, E
    <3>4. CASE tpc[s] # "signal"
      <4>1. threads_ready <= Cardinality(D) /\ threads_ready' = threads_ready
        BY <1>t, <2>1, <3>4 DEF Orderly, Counting
      <4>2. IsFiniteSet(D) /\ Cardinality(D) <= Cardinality(E)
        BY <3>1, <3>2, FS_Subset
      <4>3. Cardinality(D) \in Nat /\ Cardinality(E) \in Nat /\ threads_ready \in Nat
        BY <1>t, <3>2, <4>2, FS_CardinalityType DEF TypeOK
      <4> HIDE DEF D, E
      <4>4. threads_ready' <= Cardinality(E)
        BY <4>1, <4>2, <4>3
      <4> QED
        BY <4>4 DEF Counting, E
    <3> QED
      BY <3>3, <3>4
  <2>6. Gathering'
    BY <1>t, <2>2, <2>4 DEF Gathering
  <2>7. Turning'
    <3> SUFFICES ASSUME pc \in Changing, NEW r \in Streams
                 PROVE  /\ active_threads = Mult /\ inc = (IF pc = "release" THEN 0 ELSE BufSize)
                        /\ Parked(r)' /\ bytes_received'[r] = 0
                        /\ tbuf'[r] = IF pc = "release" THEN be - 1 ELSE be
                        /\ At(r, Elems + First(r), 0)'
      BY <2>2, Sizes DEF Turning
    <3>1. /\ active_threads = Mult /\ inc = (IF pc = "release" THEN 0 ELSE BufSize)
          /\ Parked(r) /\ bytes_received[r] = 0
          /\ tbuf[r] = IF pc = "release" THEN be - 1 ELSE be
          /\ At(r, Elems + First(r), 0)
      BY <1>t, <2>3 DEF Turning
    <3>2. Done(r)
      BY <3>1 DEF Parked, Done, Fresh, InRound
    <3>3. At(r, Elems + First(r), 0)'
      BY <2>2, <2>4, <3>1 DEF SameWork, At, Base, First, Row
    <3> QED
      BY <2>4, <3>1, <3>2, <3>3
  <2>8. Ending'
    <3> SUFFICES ASSUME pc = "rundown" PROVE Ending'
      BY <2>2 DEF Ending
    <3>1. CASE stopped /\ inc = 0 /\ be # 0 /\ \A r \in Streams : Waiting(r)
      BY <2>2, <2>4, <3>1 DEF Ending
    <3>2. CASE /\ \A r \in Streams : Done(r)
               /\ inc + Reported(Streams) <= BufSize
               /\ (be # 0 /\ inc + Reported(Streams) = BufSize) => Filled(be)
      <4>1. \A r \in Streams : Done(r)' /\ bytes_received'[r] = bytes_received[r]
        BY <2>4, <3>2
      <4>2. {byte \in Streams \X (1..BufSize) : byte[2] <= bytes_received'[byte[1]]}
              = {byte \in Streams \X (1..BufSize) : byte[2] <= bytes_received[byte[1]]}
        BY <4>1
      <4>3. Reported(Streams)' = Reported(Streams)
        BY <4>2 DEF Reported
      <4>4. (be # 0 /\ Filled(be)) => \A p \in Places : content'[be'][p] # <<>>
        <5>1. be # 0 => be \in 1..Len(content)
          <6>1. be \in 0..Len(content)
            BY <1>t DEF TypeOK
          <6> QED
            BY <6>1
        <5>2. \A b \in 1..Len(content) : Filled(b) => \A p \in Places : content'[b][p] # <<>>
          BY <1>t, FilledGrows DEF Filled, Written
        <5> QED
          BY <2>2, <5>1, <5>2
      <4> QED
        BY <2>2, <3>2, <4>1, <4>3, <4>4 DEF Ending, Filled, Written
    <3> QED
      BY <1>t, <3>1, <3>2 DEF Ending
  <2>9. Lasting'
    BY <1>t, <2>2, <2>4 DEF Lasting
  <2> QED
    BY <2>5, <2>6, <2>7, <2>8, <2>9 DEF BarrierInv
<1>20. CASE UNCHANGED vars
  <2>1. Idle /\ Row /\ UNCHANGED <<threads_ready, loop, pc, be, inc, stopped, active_threads, content>>
    BY <1>20, <1>i DEF vars
  <2>2. Counting' /\ Lasting'
    BY <1>t, <2>1, BarrierIdle
  <2>3. /\ Gathering' <=> Gathering
        /\ Turning' <=> Turning
        /\ Ending' <=> Ending
    BY <1>20 DEF vars, locals, Gathering, Turning, Ending, Waiting, Fresh, InRound, Done, Parked, Broken,
                 Progress, Filled, Written, At, Base, First, Quota, Reported, PlaceOf, Changing
  <2> QED
    BY <1>t, <2>2, <2>3 DEF BarrierInv
<1> QED
  BY <1>1, <1>2, <1>3, <1>4, <1>5, <1>6, <1>7, <1>8, <1>9, <1>10, <1>11, <1>12, <1>13, <1>14, <1>15, <1>16, <1>17, <1>18, <1>19, <1>20 DEF Next, Main

-----------------------------------------------------------------------------
(* The theorems                                                              *)

\* The invariant holds when setup_tcp_socket is called,
LEMMA InitInv ==
  ASSUME Init
  PROVE  IInv
<1>1. /\ content = <<>> /\ handed = <<>> /\ Len(content) = 0 /\ Len(handed) = 0
      /\ content \in Seq(Buffers) /\ handed \in Seq(0..BufSize)
  BY DEF Init
<1>2. Mult \in Nat \ {0} /\ PacketSize \in Nat \ {0} /\ 0 \in Streams
  BY Sizes
<1>3. \A s \in Streams :
        /\ tpc[s] = "none" /\ tstatus[s] = {} /\ tbuf[s] = 0 /\ bytes_received[s] = 0
        /\ taken[s] = 0 /\ read[s] = {} /\ offset[s] = 0
  BY DEF Init, FromStreams
<1>4. TypeOK
  <2>1. /\ tpc \in [Streams -> ThreadPlaces] /\ tstatus \in [Streams -> SUBSET Flags]
        /\ read \in [Streams -> SUBSET Flags] /\ fd \in [Streams -> {"none", "open", "closed"}]
    BY DEF Init, FromStreams, ThreadPlaces
  <2>2. /\ taken \in [Streams -> Nat] /\ bytes_received \in [Streams -> Nat]
        /\ spot \in [Streams -> Nat] /\ max_packets \in [Streams -> Nat]
        /\ packets_ready \in [Streams -> Nat]
    BY DEF Init, FromStreams
  <2>3. offset \in [Streams -> 0..(PacketSize - 1)] /\ tbuf \in [Streams -> 0..Len(content)]
    BY <1>1, <1>2 DEF Init, FromStreams
  <2>4. /\ threads_ready \in 0..Mult /\ active_threads \in 0..Mult
        /\ start_remainder \in Streams /\ end_remainder \in Streams
        /\ be \in 0..Len(content) /\ inc \in Nat /\ total_packets \in Nat /\ n_packets \in Nat
    BY <1>1, <1>2 DEF Init
  <2>5. /\ loop \in Loops /\ sent \in Sendings /\ ending \in [Streams -> Endings]
        /\ status \in {"RUNNING", "STOPPED", "ERROR"} /\ stopped \in BOOLEAN
        /\ listening \in BOOLEAN /\ pc \in MainPlaces
    BY DEF Init, MainPlaces
  <2> QED
    BY <1>1, <2>1, <2>2, <2>3, <2>4, <2>5 DEF TypeOK, Buffers
<1>5. MainInv
  BY <1>1, <1>3 DEF Init, MainInv, Early, Starting, Changing, Running
<1>6. ThreadInv
  BY <1>3 DEF ThreadInv, Local, Fresh, InRound
<1>7. BarrierInv
  <2>1. Counting
    <3>1. {s \in Streams : Done(s)} = {}
      BY <1>3 DEF Done
    <3>2. Cardinality({s \in Streams : Done(s)}) = 0
      BY <3>1, FS_EmptySet
    <3>3. threads_ready = 0
      BY DEF Init
    <3> QED
      BY <3>2, <3>3 DEF Counting
  <2>2. Gathering /\ Turning /\ Ending
    BY DEF Init, Gathering, Turning, Ending, Changing
  <2>3. Lasting
    BY <1>3 DEF Lasting, Fresh, InRound
  <2> QED
    BY <2>1, <2>2, <2>3 DEF BarrierInv
<1>8. SingleInv
  BY DEF Init, SingleInv
<1>9. ContentInv
  BY <1>1 DEF Init, ContentInv, Rightly
<1> QED
  BY <1>4, <1>5, <1>6, <1>7, <1>8, <1>9 DEF IInv

\* and every step of the receivers keeps it.
LEMMA NextInv ==
  ASSUME IInv, [Next]_vars
  PROVE  IInv'
BY TypeStep, MainStep, ThreadsStep, BarrierStep, SingleStep, HandedStep DEF IInv

\* The invariant that joins the session's thread, the threads of the streams and
\* the buffers they write holds in every state of tcp_stream.c's receivers.
THEOREM Invariance == Spec => []IInv
<1>1. Init => IInv
  BY InitInv
<1>2. IInv /\ [Next]_vars => IInv'
  BY NextInv
<1> QED
  BY <1>1, <1>2, PTL DEF Spec

\* Every variable of the receivers keeps its type: no place outside the buffer is
\* counted, no more threads are ready or active than there are, and a thread's
\* buffer is one that get_free handed out.
THEOREM TypeCorrect == Spec => []TypeOK
<1>1. IInv => TypeOK
  BY DEF IInv
<1> QED
  BY <1>1, Invariance, PTL

\* change_buffer and the end of the loops hand over, as full, only buffers that hold
\* the recording's bytes in their order, for every number of streams, packet size
\* and length of the buffer: each stream's own count of its packets, and the
\* remainders that the session's thread passes on, put them there.
THEOREM BuffersInOrder == Spec => []FullBuffersInOrder
<1>1. IInv => FullBuffersInOrder
  <2> SUFFICES ASSUME IInv, NEW b \in 1..Len(handed), handed[b] = BufSize, NEW p \in Places
               PROVE  content[b][p] = Original(b, p)
    BY DEF FullBuffersInOrder
  <2>1. Len(handed) = Len(content) /\ Rightly /\ Filled(b)
    BY DEF IInv, TypeOK, ContentInv
  <2> QED
    BY <2>1 DEF Rightly, Filled
<1> QED
  BY <1>1, Invariance, PTL

\* A buffer is written only while the session's thread holds it.
LEMMA HeldStep ==
  ASSUME IInv, [Next]_vars, NEW b \in DOMAIN content, content'[b] # content[b]
  PROVE  \/ b = be /\ pc \notin Changing
         \/ stopped /\ pc \in {"finish", "join"}
<1> USE DEF environment, session, counts, barrier, buffers, thread
<1>1. TypeOK /\ MainInv /\ ThreadInv /\ BarrierInv /\ b \in 1..Len(content)
  <2>1. content \in Seq(Buffers)
    BY DEF IInv, TypeOK, Buffers
  <2> QED
    BY <2>1, LenProperties DEF IInv
<1>2. ASSUME TakeBuffer
      PROVE  FALSE
  BY <1>1, <1>2, TakeBufferEffect
<1>3. CASE GetFirst \/ Regain
  BY <1>2, <1>3 DEF GetFirst, Regain, Refused
<1>4. CASE SingleRecv
  <2>1. PICK n \in recv(0, BufSize - inc) :
          IF n > 0
          THEN /\ Store(0, n, be, inc)
               /\ inc' = inc + n
               /\ pc' = IF inc' = BufSize THEN "change" ELSE "single"
          ELSE pc' = "finish" /\ UNCHANGED <<taken, inc, content>>
    BY <1>4 DEF SingleRecv
  <2>2. pc = "recv" /\ UNCHANGED be
    BY <1>4 DEF SingleRecv
  <2>3. n > 0 /\ Store(0, n, be, inc) /\ inc' = inc + n
    BY <2>1
  <2>4. Writes(be)
    BY <2>2, <2>3, SingleEffect
  <2> QED
    BY <1>1, <2>2, <2>4 DEF Writes, Changing
<1>5. ASSUME NEW s \in Streams, Recv(s)
      PROVE  \/ b = be /\ pc \notin Changing
             \/ stopped /\ pc \in {"finish", "join"}
  <2>1. tpc[s] = "recv" /\ InRound(s) /\ ~Parked(s) /\ ~Done(s)
    BY <1>5 DEF Recv, InRound, Parked, Done
  <2>2. b = tbuf[s]
    BY <1>1, <1>5, ReceiveEffect DEF Writes
  <2>3. loop = "multi"
    BY <1>1, <2>1, ThreadRuns
  <2>4. pc \notin Changing
    BY <1>1, <2>1, <2>3 DEF BarrierInv, Turning
  <2>5. pc \in {"loop", "await", "rundown"} => tbuf[s] = be
    BY <1>1, <2>1 DEF BarrierInv, Gathering, Ending, Waiting
  <2>6. /\ pc = "finish" => stopped
        /\ pc = "join" => stopped \/ tbuf[s] = be
        /\ pc \notin {"close", "done", "crashed"}
    BY <1>1, <2>1 DEF BarrierInv, Lasting
  <2>7. pc \notin Starting \cup {"exited", "single", "recv"}
    BY <1>1, <2>1, <2>3 DEF MainInv
  <2> QED
    BY <1>1, <2>2, <2>4, <2>5, <2>6, <2>7 DEF TypeOK, MainPlaces, Starting, Changing
<1>6. CASE UNCHANGED vars \/ stop_streamer
  BY <1>6 DEF vars, stop_streamer
<1>7. CASE Main /\ ~(GetFirst \/ Regain \/ SingleRecv)
  BY <1>7 DEF Main, Setup, Accept, AcceptFails, AcceptedEnough, ChangeBuffer, Single,
              CreateThreads, MainLoop, Collect, Release, Rundown, Finish, Join, CloseSocket
<1>8. ASSUME NEW s \in Streams, threaded_multistream(s), ~Recv(s)
      PROVE  FALSE
  BY <1>8 DEF threaded_multistream, Top, Lock, Begin, Check, RecvEnds, Report, Signal
<1> QED
  BY <1>3, <1>4, <1>5, <1>6, <1>7, <1>8 DEF Next

\* The barrier of loop_with_threaded_multistream_recv: no thread's recv writes into
\* a buffer that the session's thread has given to its writer, unless the session
\* was stopped or a thread was never created.
THEOREM WritesHeld == Spec => WritesHeldBuffer
<1>1. IInv /\ [Next]_vars =>
        [\A b \in DOMAIN content :
           content'[b] # content[b] =>
             \/ b = be /\ pc \notin {"change", "regain", "release"}
             \/ stopped /\ pc \in {"finish", "join"}]_vars
  BY HeldStep DEF Changing
<1> QED
  BY <1>1, Invariance, PTL DEF Spec, WritesHeldBuffer

-----------------------------------------------------------------------------
(* A whole recording is stored                                               *)

\* While its threads, or its own loop, may receive, and when the loops are over.
Serving == {"get_first", "create", "loop", "await", "single", "recv", "rundown"} \cup Changing
Late == {"join", "close", "done"}

\* The sessions that AllIsStored is about, from their beginning on.
OnTime ==
  /\ ~stopped /\ loop # "splice" /\ \A s \in Connections : ending[s] = "close"
  /\ (loop = "multi" /\ pc \in Late) => \A s \in Streams : tpc[s] # "none"

\* Nothing is received that was not sent.
OnlySent == \A s \in Streams : taken[s] <= sent[s]

\* Their connections stay open until the last buffer is collected.
Connected ==
  /\ pc \notin {"setup", "exited", "done", "crashed"} => listening
  /\ pc \in {"setup", "accept"} => \A s \in Streams : fd[s] # "closed"
  /\ pc \in Serving => \A s \in Connections : fd[s] = "open"

\* A thread leaves its loop only when all that its stream carries was received.
EndsAtEnd ==
  pc \in {"loop", "await"} =>
    \A s \in Streams : /\ "ERROR" \notin tstatus[s]
                       /\ "CLEAN_EXIT" \in tstatus[s] => taken[s] = sent[s]

\* All buffers before b were handed over full, and counted.
FullBefore(b) ==
  /\ \A c \in 1..(b - 1) : handed[c] = BufSize
  /\ n_packets = Base(b) /\ total_packets = Base(b)

\* Of any recording that the streams carry, the part after the full buffers is
\* shorter than a buffer: these bytes, all of them written.
LastPart(b, bytes) ==
  \A total \in Nat : Striped(total) =>
    /\ \E part \in 0..(Elems - 1) : total = Base(b) + part /\ bytes = part * PacketSize
    /\ \A p \in 0..(bytes - 1) : Written(b, p)

\* How far the buffers went to their writers.
Delivered ==
  /\ pc \in {"setup", "accept", "get_first"} => FullBefore(1)
  /\ pc \in {"create", "loop", "await", "change", "release", "single", "recv", "rundown", "finish"} =>
       be = Len(handed) /\ be # 0 /\ FullBefore(be) /\ handed[be] = 0
  /\ pc = "regain" => be = Len(handed) /\ FullBefore(be + 1)
  /\ pc \in {"rundown", "finish"} => LastPart(be, inc)
  /\ pc = "rundown" => \A s \in Streams : bytes_received[s] = 0
  /\ pc \in Late =>
       LET last == Len(handed) IN
       /\ last # 0 /\ \A c \in 1..(last - 1) : handed[c] = BufSize
       /\ n_packets = Base(last) + (handed[last] \div PacketSize) /\ total_packets = n_packets
       /\ LastPart(last, handed[last])

\* The invariant of a session that is not disturbed.
StoredInv == OnlySent /\ (OnTime => Connected /\ EndsAtEnd /\ Delivered)

-----------------------------------------------------------------------------
(* What a stream carries of a recording                                      *)

\* The packets of a stream among the first ones of the recording are the first
\* ones of the stream.
LEMMA PacketsAre ==
  ASSUME NEW s \in Streams, NEW total \in Nat
  PROVE  /\ PacketsOn(s, total) \in Nat
         /\ \A row \in Nat : row * Mult + s < total <=> row < PacketsOn(s, total)
<1>1. Mult \in Nat \ {0} /\ s \in 0..(Mult - 1)
  BY Sizes
<1>2. PICK q \in Nat : \A row \in Nat : row * Mult + s < total <=> row < q
  <2>1. CASE total <= s
    <3>1. \A row \in Nat : ~(row * Mult + s < total) /\ ~(row < 0)
      <4> TAKE row \in Nat
      <4>1. row * Mult \in Nat
        BY <1>1
      <4> QED BY <4>1, <1>1, <2>1
    <3> QED BY <3>1
  <2>2. CASE s < total
    <3> DEFINE left == total - s - 1
    <3>1. left \in Nat
      BY <1>1, <2>2
    <3>2. PICK d \in Nat, r \in 0..(Mult - 1) : left = d * Mult + r
      <4> HIDE DEF left
      <4> QED BY <1>1, <3>1, Division
    <3>3. ASSUME NEW row \in Nat
          PROVE  row * Mult + s < total <=> row < d + 1
      <4>1. row * Mult \in Nat /\ d * Mult \in Nat
        BY <1>1
      <4>2. CASE row < d + 1
        <5>1. row = d \/ row < d
          BY <4>2
        <5>2. row < d => row * Mult + Mult <= d * Mult
          BY <1>1, Ordered
        <5> QED BY <1>1, <3>2, <4>1, <4>2, <5>1, <5>2
      <4>3. CASE ~(row < d + 1)
        <5>1. d * Mult + Mult <= row * Mult
          BY <1>1, <4>3, Ordered
        <5> QED BY <1>1, <3>2, <4>1, <4>3, <5>1
      <4> QED BY <4>2, <4>3
    <3>4. d + 1 \in Nat
      OBVIOUS
    <3> QED BY <3>3, <3>4
  <2> QED BY <1>1, <2>1, <2>2
<1> DEFINE Own == {n \in 0..(total - 1) : n % Mult = s}
           f == [row \in 0..(q - 1) |-> row * Mult + s]
<1>3. f \in Bijection(0..(q - 1), Own)
  <2>1. ASSUME NEW row \in 0..(q - 1) PROVE row * Mult + s \in Own
    <3>1. row \in Nat /\ row < q /\ row * Mult \in Nat
      BY <1>1
    <3>2. row * Mult + s < total
      BY <1>2, <3>1
    <3>3. (row * Mult + s) % Mult = s
      BY <1>1, <3>1, DivMod
    <3> QED BY <1>1, <3>1, <3>2, <3>3
  <2>2. f \in [0..(q - 1) -> Own]
    <3> HIDE DEF Own
    <3> QED BY <2>1
  <2>3. ASSUME NEW a \in 0..(q - 1), NEW b \in 0..(q - 1), f[a] = f[b]
        PROVE  a = b
    <3>1. a * Mult + s = b * Mult + s /\ a \in Nat /\ b \in Nat
      BY <2>3
    <3>2. (a * Mult + s) \div Mult = a /\ (b * Mult + s) \div Mult = b
      BY <1>1, <3>1, DivMod
    <3> QED BY <3>1, <3>2
  <2>4. ASSUME NEW n \in Own PROVE \E row \in 0..(q - 1) : f[row] = n
    <3>1. n \in Nat /\ n < total /\ n % Mult = s
      OBVIOUS
    <3>2. n \div Mult \in Nat /\ n = (n \div Mult) * Mult + s
      BY <1>1, <3>1, Division
    <3> DEFINE row == n \div Mult
    <3>3. row < q /\ row \in Nat
      <4> HIDE DEF row
      <4>1. row \in Nat /\ row * Mult + s < total
        BY <3>1, <3>2 DEF row
      <4> QED BY <1>2, <4>1
    <3>4. row \in 0..(q - 1) /\ f[row] = row * Mult + s
      <4> HIDE DEF row
      <4> QED BY <3>3
    <3> HIDE DEF row, f
    <3> QED BY <3>2, <3>4 DEF row
  <2> HIDE DEF f, Own
  <2> QED BY <2>2, <2>3, <2>4, Fun_IsBij
<1>4. Cardinality(Own) = q
  <2>1. IsFiniteSet(0..(q - 1)) /\ Cardinality(0..(q - 1)) = q
    <3>1. 0 \in Int /\ q - 1 \in Int /\ (q - 1) - 0 + 1 = q /\ (0 > q - 1 => q = 0)
      BY <1>2
    <3> QED BY <3>1, FS_Interval
  <2> HIDE DEF f, Own
  <2>2. ExistsBijection(0..(q - 1), Own)
    BY <1>3 DEF ExistsBijection
  <2> QED BY <2>1, <2>2, FS_Bijection
<1>5. PacketsOn(s, total) = q
  BY <1>4 DEF PacketsOn
<1> QED BY <1>2, <1>5

\* Each place of a buffer belongs to a packet of one stream.
LEMMA Owner ==
  ASSUME Remainders, NEW k \in Nat
  PROVE  \E s \in Streams, j \in Nat : k = First(s) + Mult * j
<1>1. Mult \in Nat \ {0} /\ start_remainder \in 0..(Mult - 1)
  BY Sizes DEF Remainders
<1>2. PICK d \in Nat, s \in 0..(Mult - 1) : k + start_remainder = d * Mult + s
  <2>1. k + start_remainder \in Nat
    BY <1>1
  <2> QED BY <1>1, <2>1, Division
<1>3. s \in Streams
  BY <1>2, Sizes
<1>4. CASE s >= start_remainder
  <2>1. k = First(s) + Mult * d
    <3>1. d * Mult = Mult * d /\ d * Mult \in Nat
      BY <1>1
    <3> QED BY <1>1, <1>2, <1>4, <3>1 DEF First, correct_bufspot
  <2> QED BY <1>3, <2>1
<1>5. CASE s < start_remainder
  <2>1. d # 0
    <3>1. 0 * Mult = 0
      BY <1>1
    <3> QED BY <1>1, <1>2, <1>5, <3>1
  <2>2. d - 1 \in Nat /\ d * Mult = Mult * (d - 1) + Mult /\ Mult * (d - 1) \in Nat
    BY <1>1, <2>1
  <2>3. k = First(s) + Mult * (d - 1)
    BY <1>1, <1>2, <1>5, <2>2 DEF First, correct_bufspot
  <2> QED BY <1>3, <2>2, <2>3
<1> QED BY <1>1, <1>2, <1>4, <1>5

\* A stream has as many places in a buffer as its quota.
LEMMA QuotaCovers ==
  ASSUME Remainders, NEW s \in Streams, NEW j \in Nat
  PROVE  First(s) + Mult * j < Elems <=> j < Quota(s)
<1>1. Mult \in Nat \ {0} /\ Elems \in Nat \ {0} /\ 0 \in 0..(PacketSize - 1)
  BY Sizes
<1>2. /\ Quota(s) \in Nat /\ First(s) \in 0..(Mult - 1)
      /\ First(s) + Mult * Quota(s) = Elems + correct_bufspot(s, end_remainder)
      /\ correct_bufspot(s, end_remainder) \in 0..(Mult - 1)
  BY StripeFits
<1>3. CASE j < Quota(s)
  <2>1. First(s) + Mult * j \in 0..(Elems - 1)
    BY <1>1, <1>3, PlaceInBuffer
  <2> QED BY <1>1, <1>3, <2>1
<1>4. CASE ~(j < Quota(s))
  <2>1. Mult * (j - Quota(s)) \in Nat
    BY <1>1, <1>2, <1>4
  <2>2. Mult * (j - Quota(s)) = Mult * j - Mult * Quota(s)
    BY <1>1, <1>2
  <2>3. Mult * j \in Nat /\ Mult * Quota(s) \in Nat
    BY <1>1, <1>2
  <2> QED BY <1>1, <1>2, <1>4, <2>1, <2>2, <2>3
<1> QED BY <1>3, <1>4

\* Streams whose packets are those before a place report as many bytes.
LEMMA CountedExactly ==
  ASSUME Remainders, NEW part \in 0..Elems,
         \A s \in Streams :
           /\ packets_ready[s] \in 0..Quota(s)
           /\ bytes_received[s] = PacketSize * packets_ready[s]
           /\ \A j \in Nat : First(s) + Mult * j < part <=> j < packets_ready[s]
  PROVE  Reported(Streams) = part * PacketSize
<1> DEFINE Bytes_ == ReportedBytes(Streams)
           Before == 0..(part * PacketSize - 1)
           J(byte) == (byte[2] - 1) \div PacketSize
           O(byte) == (byte[2] - 1) % PacketSize
           f == [byte \in Bytes_ |-> PlaceOf(byte[1], J(byte), O(byte))]
<1>1. /\ PacketSize \in Nat \ {0} /\ Elems \in Nat \ {0} /\ part \in Nat /\ part <= Elems
      /\ Mult \in Nat \ {0} /\ BufSize \in Nat \ {0} /\ part * PacketSize \in Nat
      /\ part * PacketSize = PacketSize * part
  <2>1. PacketSize \in Nat \ {0} /\ Elems \in Nat \ {0} /\ part \in Nat /\ part <= Elems
          /\ Mult \in Nat \ {0} /\ BufSize \in Nat \ {0}
    BY Sizes
  <2> QED BY <2>1
<1>q. \A s \in Streams : Quota(s) \in Nat /\ First(s) \in Nat
  <2> TAKE s \in Streams
  <2> QED BY StripeFits, <1>1
<1>2. ASSUME NEW byte \in Bytes_
      PROVE  /\ byte[1] \in Streams /\ byte[2] \in Nat /\ byte = <<byte[1], byte[2]>>
             /\ J(byte) \in Nat /\ O(byte) \in 0..(PacketSize - 1)
             /\ byte[2] - 1 = J(byte) * PacketSize + O(byte)
             /\ First(byte[1]) + Mult * J(byte) < part
  <2>1. byte \in Streams \X (1..BufSize) /\ byte[2] <= bytes_received[byte[1]]
    BY DEF ReportedBytes
  <2>2. byte[1] \in Streams /\ byte[2] \in 1..BufSize /\ byte = <<byte[1], byte[2]>>
    BY <2>1
  <2>3. byte[2] \in Nat /\ byte[2] - 1 \in Nat
    BY <2>2, PlacesFinite
  <2>4. /\ J(byte) \in Nat /\ O(byte) \in 0..(PacketSize - 1)
        /\ byte[2] - 1 = J(byte) * PacketSize + O(byte)
    BY <1>1, <2>3, Division
  <2>5. packets_ready[byte[1]] \in Nat /\ bytes_received[byte[1]] = PacketSize * packets_ready[byte[1]]
    BY <1>q, <2>2
  <2>6. byte[2] - 1 < PacketSize * packets_ready[byte[1]]
    <3>1. PacketSize * packets_ready[byte[1]] \in Nat
      BY <1>1, <2>5
    <3> QED BY <2>1, <2>3, <2>5, <3>1
  <2>7. J(byte) < packets_ready[byte[1]]
    <3> HIDE DEF J, O
    <3> QED BY <2>3, <2>4, <2>5, <2>6, InAPacket
  <2> HIDE DEF J, O
  <2> QED BY <2>2, <2>3, <2>4, <2>7
<1>3. ASSUME NEW p \in Before
      PROVE  \E s \in Streams, j \in Nat, o \in 0..(PacketSize - 1) :
               p = PlaceOf(s, j, o) /\ j < packets_ready[s]
  <2>1. p \in Nat /\ p < part * PacketSize
    BY <1>1
  <2>2. PICK k \in Nat, o \in 0..(PacketSize - 1) : p = k * PacketSize + o
    <3>1. /\ p \div PacketSize \in Nat /\ p % PacketSize \in 0..(PacketSize - 1)
          /\ p = (p \div PacketSize) * PacketSize + (p % PacketSize)
      BY <1>1, <2>1, Division
    <3> DEFINE k == p \div PacketSize
               o == p % PacketSize
    <3>2. k \in Nat /\ o \in 0..(PacketSize - 1) /\ p = k * PacketSize + o
      BY <3>1
    <3> HIDE DEF k, o
    <3> QED BY <3>2
  <2>3. k < part
    BY <1>1, <2>1, <2>2, InAPacket
  <2>4. PICK s \in Streams, j \in Nat : k = First(s) + Mult * j
    BY <2>2, Owner
  <2> QED BY <2>2, <2>3, <2>4 DEF PlaceOf
<1>4. ASSUME NEW byte \in Bytes_ PROVE f[byte] \in Before
  <2>1. f[byte] = (First(byte[1]) + Mult * J(byte)) * PacketSize + O(byte)
    BY DEF PlaceOf
  <2> DEFINE k == First(byte[1]) + Mult * J(byte)
  <2>2. k \in Nat /\ k < part /\ O(byte) \in 0..(PacketSize - 1)
    <3> HIDE DEF J, O, Bytes_
    <3>1. First(byte[1]) \in Nat /\ J(byte) \in Nat
      BY <1>2, <1>q
    <3>2. Mult * J(byte) \in Nat
      BY <1>1, <3>1
    <3> QED BY <1>2, <3>1, <3>2
  <2>3. k * PacketSize \in Nat /\ k * PacketSize + O(byte) < PacketSize * part
    <3> HIDE DEF J, O, Bytes_, k
    <3>1. k * PacketSize \in Nat
      BY <1>1, <2>2
    <3>2. k * PacketSize + O(byte) \in Nat
      BY <3>1, <2>2
    <3> QED BY <1>1, <2>2, <3>1, <3>2, InAPacket
  <2> HIDE DEF J, O, Bytes_, f
  <2>4. f[byte] = k * PacketSize + O(byte)
    BY <2>1
  <2> HIDE DEF k
  <2> QED BY <1>1, <2>2, <2>3, <2>4
<1>5. ASSUME NEW a \in Bytes_, NEW b \in Bytes_, f[a] = f[b]
      PROVE  a = b
  <2>1. PlaceOf(a[1], J(a), O(a)) = PlaceOf(b[1], J(b), O(b))
    BY <1>5
  <2> HIDE DEF J, O, Bytes_, f
  <2>2. a[1] = b[1] /\ J(a) = J(b) /\ O(a) = O(b)
    BY <1>2, <2>1, PlacesDiffer
  <2>3. a[2] - 1 = b[2] - 1
    BY <1>2, <2>2
  <2>4. a[2] = b[2]
    BY <1>2, <2>3
  <2> QED BY <1>2, <2>2, <2>4
<1>6. ASSUME NEW p \in Before PROVE \E byte \in Bytes_ : f[byte] = p
  <2>1. PICK s \in Streams, j \in Nat, o \in 0..(PacketSize - 1) :
          p = PlaceOf(s, j, o) /\ j < packets_ready[s]
    BY <1>3
  <2> DEFINE m == j * PacketSize + o
             byte == <<s, m + 1>>
  <2>2. m \in Nat /\ m < PacketSize * packets_ready[s] /\ packets_ready[s] \in Nat
        /\ PacketSize * packets_ready[s] \in Nat
    <3>1. packets_ready[s] \in Nat
      BY <1>q, <2>1
    <3>2. j * PacketSize \in Nat /\ PacketSize * packets_ready[s] \in Nat
      BY <1>1, <3>1
    <3>3. m \in Nat
      BY <3>2
    <3> HIDE DEF m
    <3>4. m = j * PacketSize + o
      BY DEF m
    <3> QED BY <2>1, <3>1, <3>2, <3>3, <3>4, InAPacket
  <2>3. PacketSize * packets_ready[s] <= BufSize
    <3>1. packets_ready[s] <= Elems
      <4>1. CASE packets_ready[s] = 0
        BY <1>1, <4>1
      <4>2. CASE packets_ready[s] # 0
        <5>1. packets_ready[s] - 1 \in Nat /\ packets_ready[s] - 1 < Quota(s)
          BY <1>q, <4>2
        <5>2. First(s) + Mult * (packets_ready[s] - 1) < Elems
          BY <5>1, QuotaCovers
        <5>3. Mult * (packets_ready[s] - 1) >= packets_ready[s] - 1
          <6>1. (Mult - 1) * (packets_ready[s] - 1) \in Nat
            BY <1>1, <5>1
          <6>2. (Mult - 1) * (packets_ready[s] - 1) = Mult * (packets_ready[s] - 1) - (packets_ready[s] - 1)
            BY <1>1, <5>1
          <6>3. Mult * (packets_ready[s] - 1) \in Nat
            BY <1>1, <5>1
          <6> QED BY <5>1, <6>1, <6>2, <6>3
        <5>4. Mult * (packets_ready[s] - 1) \in Nat /\ First(s) \in Nat
          BY <1>1, <1>q, <5>1
        <5> QED BY <1>1, <5>1, <5>2, <5>3, <5>4
      <4> QED BY <4>1, <4>2
    <3>2. (Elems - packets_ready[s]) * PacketSize \in Nat
      BY <1>1, <2>2, <3>1
    <3>3. (Elems - packets_ready[s]) * PacketSize = BufSize - PacketSize * packets_ready[s]
      BY <1>1, <2>2, Distributes DEF BufSize
    <3> QED BY <1>1, <2>2, <3>2, <3>3
  <2>4. byte \in Bytes_
    <3>1. m + 1 \in 1..BufSize /\ m + 1 <= bytes_received[s]
      <4> HIDE DEF m
      <4> QED BY <1>1, <2>2, <2>3
    <3> QED BY <3>1 DEF ReportedBytes
  <2>5. J(byte) = j /\ O(byte) = o
    <3>1. byte[2] - 1 = m /\ (m \div PacketSize) = j /\ (m % PacketSize) = o
      <4>1. byte[2] - 1 = m
        <5> HIDE DEF m
        <5> QED BY <2>2
      <4> QED BY <1>1, <4>1, DivMod
    <3> QED BY <3>1
  <2>6. f[byte] = PlaceOf(s, J(byte), O(byte))
    <3> HIDE DEF Bytes_, J, O
    <3> QED BY <2>4
  <2> QED BY <2>1, <2>4, <2>5, <2>6
<1>7. ExistsBijection(Bytes_, Before)
  <2>1. f \in [Bytes_ -> Before]
    <3>1. f = [byte \in Bytes_ |-> f[byte]] 
      OBVIOUS
    <3> HIDE DEF f, Bytes_, Before
    <3> QED BY <1>4, <3>1
  <2> HIDE DEF f, Bytes_, Before
  <2>2. f \in Bijection(Bytes_, Before)
    BY <1>5, <1>6, <2>1, Fun_IsBij
  <2> QED BY <2>2 DEF ExistsBijection
<1>8. Cardinality(Bytes_) = part * PacketSize
  <2>1. IsFiniteSet(Bytes_)
    <3>1. IsFiniteSet(1..BufSize)
      BY <1>1, FS_Interval
    <3>2. IsFiniteSet(Streams \X (1..BufSize))
      BY <3>1, PlacesFinite, FS_Product
    <3>3. Bytes_ \in SUBSET (Streams \X (1..BufSize))
      BY DEF ReportedBytes
    <3> HIDE DEF Bytes_
    <3> QED BY <3>2, <3>3, FS_Subset
  <2>2. Cardinality(Before) = part * PacketSize
    <3>1. 0 \in Int /\ part * PacketSize - 1 \in Int
          /\ (part * PacketSize - 1) - 0 + 1 = part * PacketSize
          /\ (0 > part * PacketSize - 1 => part * PacketSize = 0)
      BY <1>1
    <3> QED BY <3>1, FS_Interval
  <2> HIDE DEF Bytes_, Before
  <2> QED BY <1>7, <2>1, <2>2, FS_Bijection
<1> QED BY <1>8 DEF Reported, ReportedBytes

\* Threads that all filled their quotas report a buffer.
LEMMA QuotasFill ==
  ASSUME Remainders, \A s \in Streams : Waiting(s) /\ Done(s) /\ Parked(s)
  PROVE  Reported(Streams) = BufSize
<1>1. \A s \in Streams : /\ Quota(s) \in Nat /\ packets_ready[s] = Quota(s)
                         /\ bytes_received[s] = PacketSize * packets_ready[s]
  <2> TAKE s \in Streams
  <2>1. Progress(s) /\ bytes_received[s] = PacketSize * packets_ready[s]
    BY DEF Waiting
  <2>2. packets_ready[s] = max_packets[s]
    BY DEF Waiting, Parked, Broken, KEEP, FULL
  <2> QED BY <2>1, <2>2, StripeFits DEF Progress
<1>2. Elems \in 0..Elems
  BY Sizes
<1>3. \A s \in Streams :
         /\ packets_ready[s] \in 0..Quota(s)
         /\ bytes_received[s] = PacketSize * packets_ready[s]
         /\ \A j \in Nat : First(s) + Mult * j < Elems <=> j < packets_ready[s]
  BY <1>1, QuotaCovers
<1>4. Reported(Streams) = Elems * PacketSize
  BY <1>2, <1>3, CountedExactly
<1> QED BY <1>4 DEF BufSize

\* When some stream has ended and the others have filled their quotas, a recording
\* that they carry has so many packets in this buffer, and each is in its place.
LEMMA LastRound ==
  ASSUME TypeOK, Remainders, OnlySent, loop = "multi", be # 0,
         \A s \in Streams : Waiting(s) /\ Done(s),
         \A s \in Streams : Parked(s) \/ taken[s] = sent[s],
         NEW ended \in Streams, ~Parked(ended),
         NEW total \in Nat, Striped(total)
  PROVE  \E part \in 0..(Elems - 1) :
           /\ total = Base(be) + part /\ Reported(Streams) = part * PacketSize
           /\ \A p \in 0..(part * PacketSize - 1) : Written(be, p)
<1>1. /\ Mult \in Nat \ {0} /\ PacketSize \in Nat \ {0} /\ Elems \in Nat \ {0} /\ be \in Nat \ {0}
      /\ Base(be) \in Nat
  <2>1. be \in Nat \ {0} /\ Elems \in Nat \ {0} /\ be - 1 \in Nat
    BY Sizes DEF TypeOK
  <2>2. (be - 1) * Elems \in Nat
    BY <2>1
  <2> QED BY <2>1, <2>2, Sizes DEF Base
<1> DEFINE n(s) == packets_ready[s]
           q(s) == PacketsOn(s, total)
           part == total - Base(be)
           k(s, j) == First(s) + Mult * j
<1>2. ASSUME NEW s \in Streams
      PROVE  /\ Quota(s) \in Nat /\ n(s) \in 0..Quota(s) /\ First(s) \in 0..(Mult - 1)
             /\ s \in 0..(Mult - 1)
             /\ bytes_received[s] = PacketSize * n(s) /\ tbuf[s] = be
             /\ Parked(s) => n(s) = Quota(s)
             /\ ~Parked(s) => n(s) < Quota(s)
             /\ \A j \in 0..n(s), o \in 0..(PacketSize - 1) :
                  j < n(s) => Written(be, PlaceOf(s, j, o))
             /\ offset[s] \in 0..(PacketSize - 1) /\ At(s, k(s, n(s)), offset[s])
             /\ q(s) \in Nat /\ sent[s] = PacketSize * q(s) /\ taken[s] \in Nat /\ sent[s] \in Nat
  <2>1. Progress(s) /\ bytes_received[s] = PacketSize * n(s) /\ tbuf[s] = be
    BY DEF Waiting
  <2>2. /\ Quota(s) \in Nat /\ First(s) \in 0..(Mult - 1) /\ s \in 0..(Mult - 1)
    BY StripeFits, Sizes
  <2>3. n(s) \in 0..Quota(s)
    BY <2>1 DEF Progress
  <2>4. /\ Parked(s) => n(s) = Quota(s)
        /\ ~Parked(s) => n(s) < Quota(s)
    <3>1. max_packets[s] = Quota(s)
      BY <2>1 DEF Progress
    <3>2. Parked(s) => ~Broken(s)
      BY DEF Parked, Broken, KEEP, FULL
    <3> QED BY <3>1, <3>2 DEF Waiting
  <2>5. \A j \in 0..n(s), o \in 0..(PacketSize - 1) : j < n(s) => Written(be, PlaceOf(s, j, o))
    BY <2>1 DEF Progress
  <2>6. At(s, k(s, n(s)), offset[s])
    BY <2>1 DEF Progress
  <2>7. q(s) \in Nat /\ sent[s] = PacketSize * q(s)
    BY PacketsAre DEF Striped
  <2>8. offset[s] \in 0..(PacketSize - 1) /\ taken[s] \in Nat
    BY DEF TypeOK
  <2>9. PacketSize * q(s) \in Nat
    BY <1>1, <2>7
  <2> QED BY <2>1, <2>2, <2>3, <2>4, <2>5, <2>6, <2>7, <2>8, <2>9
<1>3. ASSUME NEW s \in Streams
      PROVE  \E row \in Nat :
               /\ Base(be) + k(s, n(s)) = row * Mult + s
               /\ row <= q(s) /\ (~Parked(s) => row = q(s))
  <2>1. PICK row \in Nat : /\ taken[s] = row * PacketSize + offset[s]
                           /\ Base(be) + k(s, n(s)) = row * Mult + s
    BY <1>2 DEF At
  <2>2. taken[s] <= sent[s] /\ (~Parked(s) => taken[s] = sent[s])
    BY DEF OnlySent
  <2>3. sent[s] = PacketSize * q(s) /\ q(s) \in Nat /\ offset[s] \in 0..(PacketSize - 1)
    BY <1>2
  <2> HIDE DEF q
  <2>4. ~(q(s) < row)
    <3>1. q(s) < row => q(s) * PacketSize + PacketSize <= row * PacketSize
      BY <1>1, <2>3, Ordered
    <3>2. PacketSize * q(s) = q(s) * PacketSize /\ q(s) * PacketSize \in Nat
            /\ row * PacketSize \in Nat
      BY <1>1, <2>3
    <3> QED BY <1>1, <2>1, <2>2, <2>3, <3>1, <3>2
  <2>5. ~Parked(s) => ~(row < q(s))
    <3>1. row < q(s) => row * PacketSize + PacketSize <= q(s) * PacketSize
      BY <1>1, <2>3, Ordered
    <3>2. PacketSize * q(s) = q(s) * PacketSize /\ q(s) * PacketSize \in Nat
            /\ row * PacketSize \in Nat
      BY <1>1, <2>3
    <3> QED BY <1>1, <2>1, <2>2, <2>3, <3>1, <3>2
  <2> QED BY <2>1, <2>3, <2>4, <2>5
<1>4. ASSUME NEW s \in Streams, NEW j \in Nat
      PROVE  Base(be) + k(s, j) < total <=> (j < n(s) \/ (Parked(s) /\ Base(be) + k(s, j) < total))
  <2>1. PICK row \in Nat : /\ Base(be) + k(s, n(s)) = row * Mult + s
                           /\ row <= q(s) /\ (~Parked(s) => row = q(s))
    BY <1>3
  <2>2. n(s) \in Nat /\ s \in 0..(Mult - 1) /\ First(s) \in Nat
    BY <1>2
  <2> DEFINE r == row + j - n(s)
  <2>3. r \in Int /\ Base(be) + k(s, j) = r * Mult + s
    <3>1. r \in Int
      BY <2>2
    <3>2. r * Mult = row * Mult + Mult * j - Mult * n(s)
      BY <1>1, <2>2, Distributes
    <3>3. Mult * j \in Nat /\ Mult * n(s) \in Nat /\ row * Mult \in Nat
      BY <1>1, <2>2
    <3> DEFINE a == Mult * j
               b == Mult * n(s)
               c == row * Mult
               d == r * Mult
    <3>4. d = c + a - b /\ a \in Nat /\ b \in Nat /\ c \in Nat
      BY <3>2, <3>3
    <3>5. Base(be) + (First(s) + b) = c + s
      BY <2>1
    <3> HIDE DEF a, b, c, d
    <3>6. Base(be) + (First(s) + a) = d + s
      BY <1>1, <2>2, <3>4, <3>5
    <3> QED BY <3>1, <3>6 DEF a, d
  <2>4. r \in Nat
    <3>1. Base(be) + k(s, j) \in Nat
      <4>1. Mult * j \in Nat
        BY <1>1
      <4> QED BY <1>1, <2>2, <4>1
    <3>2. CASE r < 0
      <4>1. (0 - r - 1) \in Nat
        BY <2>3, <3>2
      <4>2. (0 - r - 1) * Mult \in Nat
        BY <1>1, <4>1
      <4>3. (0 - r - 1) * Mult = 0 - r * Mult - Mult
        BY <1>1, <2>3
      <4> HIDE DEF r, n, k
      <4> QED BY <1>1, <2>2, <2>3, <3>1, <4>2, <4>3
    <3> HIDE DEF r
    <3> QED BY <2>3, <3>2
  <2>5. Base(be) + k(s, j) < total <=> r < q(s)
    <3> HIDE DEF r, k
    <3> QED BY <2>3, <2>4, PacketsAre
  <2>6. q(s) \in Nat
    BY <1>2
  <2> HIDE DEF q, k, n
  <2>7. j < n(s) => r < row
    BY <2>2
  <2>8. ~Parked(s) => (r < row <=> j < n(s))
    BY <2>2
  <2> HIDE DEF r
  <2> QED BY <2>1, <2>4, <2>5, <2>6, <2>7, <2>8
<1>5. Base(be) <= total
  <2>1. CASE Base(be) = 0
    BY <2>1
  <2>2. CASE Base(be) # 0
    <3>1. Base(be) - 1 \in Nat
      BY <1>1, <2>2
    <3> DEFINE row == (Base(be) - 1) \div Mult
               s == (Base(be) - 1) % Mult
    <3>2. row \in Nat /\ s \in 0..(Mult - 1) /\ Base(be) - 1 = row * Mult + s
      BY <1>1, <3>1, Division
    <3> HIDE DEF row, s
    <3>3. s \in Streams
      BY <3>2, Sizes
    <3>4. PICK next \in Nat : /\ Base(be) + k(s, n(s)) = next * Mult + s /\ next <= q(s)
      BY <1>3, <3>3
    <3>5. k(s, n(s)) \in Nat
      <4>1. n(s) \in Nat /\ First(s) \in Nat
        BY <1>2, <3>3
      <4>2. Mult * n(s) \in Nat
        BY <1>1, <4>1
      <4> QED BY <4>1, <4>2
    <3> HIDE DEF k, n, q
    <3>6. row < next
      <4>1. CASE ~(row < next)
        <5>1. (row - next) * Mult \in Nat
          BY <1>1, <3>2, <3>4, <4>1
        <5>2. (row - next) * Mult = row * Mult - next * Mult
          BY <1>1, <3>2, <3>4
        <5>3. row * Mult \in Nat /\ next * Mult \in Nat
          BY <1>1, <3>2, <3>4
        <5> QED BY <1>1, <3>2, <3>4, <3>5, <5>1, <5>2, <5>3
      <4> QED BY <4>1
    <3>7. row < q(s)
      <4>1. q(s) \in Nat
        BY <1>2, <3>3
      <4> QED BY <3>2, <3>4, <3>6, <4>1
    <3>8. row * Mult + s < total
      BY <3>2, <3>3, <3>7, PacketsAre DEF q
    <3> QED BY <1>1, <3>2, <3>8
  <2> QED BY <2>1, <2>2
<1>6. part \in 0..(Elems - 1)
  <2>1. ~(Base(be) + k(ended, n(ended)) < total)
    <3>1. n(ended) \in Nat
      BY <1>2
    <3> HIDE DEF n, k
    <3>2. ~(n(ended) < n(ended))
      BY <3>1
    <3> QED BY <1>4, <3>1, <3>2
  <2>2. k(ended, n(ended)) < Elems
    <3>1. n(ended) \in Nat /\ n(ended) < Quota(ended)
      BY <1>2
    <3> HIDE DEF n
    <3> QED BY <3>1, QuotaCovers
  <2>3. k(ended, n(ended)) \in Nat
    <3>1. n(ended) \in Nat /\ First(ended) \in Nat
      BY <1>2
    <3>2. Mult * n(ended) \in Nat
      BY <1>1, <3>1
    <3> QED BY <3>1, <3>2
  <2> HIDE DEF k, n
  <2> QED BY <1>1, <1>5, <2>1, <2>2, <2>3
<1>7. ASSUME NEW s \in Streams, NEW j \in Nat
      PROVE  k(s, j) < part <=> j < n(s)
  <2>1. k(s, j) \in Nat
    <3>1. Mult * j \in Nat /\ First(s) \in Nat
      BY <1>1, <1>2
    <3> QED BY <3>1
  <2>2. k(s, j) < part <=> Base(be) + k(s, j) < total
    <3> HIDE DEF k
    <3> QED BY <1>1, <2>1
  <2>3. Parked(s) /\ k(s, j) < part => j < n(s)
    <3>1. k(s, j) < part => k(s, j) < Elems
      <4> HIDE DEF k, part
      <4> QED BY <1>1, <1>6, <2>1
    <3>2. k(s, j) < Elems <=> j < Quota(s)
      BY QuotaCovers
    <3>3. Parked(s) => n(s) = Quota(s)
      BY <1>2
    <3> HIDE DEF k, part, n
    <3> QED BY <3>1, <3>2, <3>3
  <2> HIDE DEF k, part, n
  <2> QED BY <1>4, <2>2, <2>3
<1>8. Reported(Streams) = part * PacketSize
  <2>1. part \in 0..Elems
    <3> HIDE DEF part
    <3> QED BY <1>1, <1>6
  <2>2. \A s \in Streams :
           /\ packets_ready[s] \in 0..Quota(s)
           /\ bytes_received[s] = PacketSize * packets_ready[s]
           /\ \A j \in Nat : First(s) + Mult * j < part <=> j < packets_ready[s]
    <3> HIDE DEF part
    <3> QED BY <1>2, <1>7
  <2> HIDE DEF part
  <2> QED BY <2>1, <2>2, CountedExactly
<1>9. ASSUME NEW p \in 0..(part * PacketSize - 1)
      PROVE  Written(be, p)
  <2>1. part \in Nat /\ part * PacketSize \in Nat
    <3> HIDE DEF part
    <3>1. part \in Nat
      BY <1>1, <1>6
    <3> QED BY <1>1, <3>1
  <2>2. p \in Nat /\ p < part * PacketSize
    <3> HIDE DEF part
    <3> QED BY <2>1
  <2>3. PICK m \in Nat, o \in 0..(PacketSize - 1) : p = m * PacketSize + o
    <3> DEFINE a == p \div PacketSize
               o == p % PacketSize
    <3>1. a \in Nat /\ o \in 0..(PacketSize - 1) /\ p = a * PacketSize + o
      BY <1>1, <2>2, Division
    <3> HIDE DEF a, o
    <3> QED BY <3>1
  <2>4. m < part
    <3> HIDE DEF part
    <3>1. PacketSize * part = part * PacketSize
      BY <1>1, <2>1
    <3> QED BY <2>1, <2>2, <2>3, <3>1, InAPacket
  <2>5. PICK s \in Streams, j \in Nat : m = First(s) + Mult * j
    BY <2>3, Owner
  <2>6. j < n(s)
    <3> HIDE DEF part, n
    <3> QED BY <1>7, <2>4, <2>5
  <2>7. p = PlaceOf(s, j, o)
    BY <2>3, <2>5 DEF PlaceOf
  <2>8. j \in 0..n(s)
    <3>1. n(s) \in Nat
      BY <1>2
    <3> HIDE DEF n
    <3> QED BY <2>5, <2>6, <3>1
  <2> HIDE DEF n, part
  <2> QED BY <1>2, <2>6, <2>7, <2>8
<1> HIDE DEF part
<1>10. total = Base(be) + part
  BY <1>1 DEF part
<1> QED BY <1>6, <1>8, <1>9, <1>10

-----------------------------------------------------------------------------
(* The steps of a session that is not disturbed                              *)

\* recv returns no more than what was sent; an open connection that its sender
\* closes only ends when there is nothing left.
LEMMA RecvSends ==
  ASSUME TypeOK, NEW s \in Streams, NEW room \in Nat \ {0}, NEW n \in recv(s, room)
  PROVE  /\ n > 0 => taken[s] + n <= sent[s]
         /\ (n <= 0 /\ fd[s] = "open" /\ ending[s] = "close") => n = 0 /\ taken[s] = sent[s]
<1>1. sent[s] \in Nat /\ taken[s] \in Nat
  BY ConstantsAssumption DEF TypeOK
<1>2. fd[s] # "none" => /\ n \in Int
                        /\ n > 0 => sent[s] - taken[s] > 0 /\ n <= sent[s] - taken[s]
  BY <1>1 DEF recv
<1>3. fd[s] = "none" => n = -1
  BY DEF recv
<1>4. (n <= 0 /\ fd[s] = "open" /\ ending[s] = "close") => n = 0 /\ sent[s] - taken[s] = 0
  BY <1>1 DEF recv
<1>5. n > 0 => taken[s] + n <= sent[s]
  <2>1. CASE fd[s] = "none"
    BY <1>3, <2>1
  <2>2. CASE fd[s] # "none"
    BY <1>1, <1>2, <2>2
  <2> QED BY <2>1, <2>2
<1>6. sent[s] - taken[s] = 0 => taken[s] = sent[s]
  BY <1>1
<1> QED BY <1>4, <1>5, <1>6

\* What the steps leave of the environment and the end of a session.
LEMMA Undisturbed ==
  ASSUME IInv, [Next]_vars
  PROVE  UNCHANGED environment /\ (OnTime' => OnTime)
<1> USE DEF environment, session, counts, barrier, buffers, thread, locals
<1>t. TypeOK /\ MainInv
  BY DEF IInv
<1>e. UNCHANGED environment /\ (stopped => stopped') /\ (pc \in Late => pc' \in Late)
  <2>1. CASE Main
    BY <2>1 DEF Main, Late, Setup, Accept, AcceptFails, AcceptedEnough, GetFirst, ChangeBuffer,
          Regain, Single, SingleRecv, CreateThreads, MainLoop, Collect, Release, Rundown, Finish,
          Join, CloseSocket
  <2>2. CASE stop_streamer \/ UNCHANGED vars
    BY <2>2 DEF stop_streamer, vars
  <2>3. ASSUME NEW s \in Streams, threaded_multistream(s)
        PROVE  UNCHANGED environment /\ (stopped => stopped') /\ (pc \in Late => pc' \in Late)
    BY <2>3 DEF threaded_multistream, Top, Lock, Begin, Check, Recv, RecvEnds, Report, Signal
  <2> QED BY <2>1, <2>2, <2>3 DEF Next
<1>n. pc \in Late => \A r \in Streams : tpc[r] = "none" => tpc'[r] = "none"
  <2>1. CASE Main
    BY <2>1 DEF Main, Late, Setup, Accept, AcceptFails, AcceptedEnough, GetFirst, ChangeBuffer,
          Regain, Single, SingleRecv, CreateThreads, MainLoop, Collect, Release, Rundown, Finish,
          Join, CloseSocket
  <2>2. CASE stop_streamer \/ UNCHANGED vars
    BY <2>2 DEF stop_streamer, vars
  <2>3. ASSUME NEW s \in Streams, threaded_multistream(s), NEW r \in Streams, tpc[r] = "none"
        PROVE  tpc'[r] = "none"
    BY <2>3, ThreadFrame DEF SameThread
  <2> QED BY <2>1, <2>2, <2>3 DEF Next
<1>1. ASSUME OnTime' PROVE OnTime
  <2>1. ~stopped /\ loop # "splice" /\ \A s \in Connections : ending[s] = "close"
    BY <1>1, <1>e DEF OnTime, Connections
  <2>2. (loop = "multi" /\ pc \in Late) => \A s \in Streams : tpc[s] # "none"
    BY <1>1, <1>e, <1>n DEF OnTime
  <2> QED BY <2>1, <2>2 DEF OnTime
<1> QED BY <1>e, <1>1

\* Each receives only what was sent.
LEMMA SentStep ==
  ASSUME IInv, [Next]_vars, OnlySent
  PROVE  OnlySent'
<1> USE DEF environment, session, counts, barrier, buffers, thread, locals
<1>t. TypeOK /\ taken \in [Streams -> Nat] /\ UNCHANGED sent
  BY Undisturbed DEF IInv, TypeOK
<1>1. ASSUME NEW s \in Streams, NEW n, taken[s] + n <= sent[s],
             taken' = [taken EXCEPT ![s] = @ + n]
      PROVE  OnlySent'
  BY <1>t, <1>1 DEF OnlySent
<1>2. CASE SingleRecv
  <2>1. PICK n \in recv(0, BufSize - inc) : IF n > 0 THEN Store(0, n, be, inc) ELSE UNCHANGED taken
    BY <1>2 DEF SingleRecv
  <2>2. CASE n > 0
    <3>1. BufSize - inc \in Nat \ {0} /\ 0 \in Streams
      BY <1>2, <1>t, Sizes DEF SingleRecv, IInv, MainInv, SingleInv, TypeOK
    <3>2. taken[0] + n <= sent[0]
      BY <1>t, <2>1, <2>2, <3>1, RecvSends
    <3> QED BY <1>1, <2>1, <2>2, <3>1, <3>2 DEF Store
  <2>3. CASE ~(n > 0)
    BY <1>t, <2>1, <2>3 DEF OnlySent
  <2> QED BY <2>2, <2>3
<1>3. ASSUME NEW s \in Streams, Recv(s) PROVE OnlySent'
  <2>1. PICK n \in recv(s, PacketSize - offset[s]) :
          n > 0 /\ Store(s, n, tbuf[s], spot[s] * PacketSize + offset[s])
    BY <1>3 DEF Recv
  <2>2. PacketSize - offset[s] \in Nat \ {0}
    <3>1. offset[s] \in 0..(PacketSize - 1)
      BY <1>t DEF TypeOK
    <3> QED BY <3>1, Sizes
  <2>3. taken[s] + n <= sent[s]
    BY <1>t, <2>1, <2>2, RecvSends
  <2> QED BY <1>1, <2>1, <2>3 DEF Store
<1>4. ASSUME UNCHANGED taken PROVE OnlySent'
  BY <1>t, <1>4 DEF OnlySent
<1>5. CASE stop_streamer \/ UNCHANGED vars
  BY <1>4, <1>5 DEF stop_streamer, vars
<1>6. CASE Main /\ ~SingleRecv
  BY <1>4, <1>6 DEF Main, Setup, Accept, AcceptFails, AcceptedEnough, GetFirst, ChangeBuffer,
          Regain, Single, CreateThreads, MainLoop, Collect, Release, Rundown, Finish,
          Join, CloseSocket
<1>7. ASSUME NEW s \in Streams, threaded_multistream(s), ~Recv(s) PROVE OnlySent'
  BY <1>4, <1>7 DEF threaded_multistream, Top, Lock, Begin, Check, RecvEnds, Report, Signal
<1> QED BY <1>2, <1>3, <1>5, <1>6, <1>7 DEF Next

\* The connections are there as long as the loops need them.
LEMMA ConnectedStep ==
  ASSUME IInv, [Next]_vars, OnTime, OnTime', Connected
  PROVE  Connected'
<1> USE DEF environment, session, counts, barrier, buffers, thread, locals
<1>t. /\ fd \in [Streams -> {"none", "open", "closed"}] /\ loop # "splice" /\ ~stopped /\ ~stopped'
      /\ loop' = loop /\ Connections' = Connections /\ Connections \subseteq Streams
      /\ pc \in MainPlaces
  <2>1. loop' = loop
    BY Undisturbed
  <2> QED BY <2>1, Sizes DEF IInv, TypeOK, OnTime, Connections
<1>1. CASE Setup
  BY <1>1, <1>t DEF Setup, Connected, Serving, Changing
<1>2. CASE Accept
  <2>1. PICK s \in Connections :
          /\ \A r \in Connections : fd[r] = "none" <=> r >= s
          /\ listening
          /\ fd' = [fd EXCEPT ![s] = "open"]
          /\ pc' = IF s + 1 \in Connections THEN "accept" ELSE "get_first"
    BY <1>2 DEF Accept
  <2>2. pc = "accept" /\ UNCHANGED listening
    BY <1>2 DEF Accept
  <2>3. \A r \in Streams : fd'[r] # "closed"
    BY <1>t, <2>1, <2>2 DEF Connected
  <2>4. s + 1 \notin Connections => \A r \in Connections : r = s \/ ~(r >= s)
    BY Sizes DEF Connections
  <2>5. s + 1 \notin Connections => \A r \in Connections : fd'[r] = "open"
    <3> SUFFICES ASSUME s + 1 \notin Connections, NEW r \in Connections, r # s
                 PROVE  fd[r] = "open"
      BY <1>t, <2>1
    <3>1. fd[r] # "none"
      BY <2>1, <2>4
    <3>2. fd[r] # "closed"
      BY <1>t, <2>2 DEF Connected
    <3> QED BY <1>t, <3>1, <3>2
  <2>6. CASE s + 1 \in Connections
    BY <2>1, <2>2, <2>3, <2>6 DEF Connected, Serving, Changing
  <2>7. CASE s + 1 \notin Connections
    BY <1>t, <2>1, <2>2, <2>3, <2>5, <2>7 DEF Connected
  <2> QED BY <2>6, <2>7
<1>3. CASE AcceptFails
  BY <1>3 DEF AcceptFails, Connected, Serving, Changing
<1>4. CASE AcceptedEnough
  BY <1>4 DEF AcceptedEnough, Connected
<1>5. CASE stop_streamer
  BY <1>5, <1>t DEF stop_streamer
<1>6. CASE Rundown
  BY <1>6 DEF Rundown, Connected, Serving, Changing
<1>7. CASE CloseSocket
  BY <1>7 DEF CloseSocket, Connected, Serving, Changing
<1>8. ASSUME UNCHANGED <<fd, listening>>, pc' \notin {"setup", "accept"},
             pc' \in Serving => pc \in Serving,
             pc \in {"setup", "exited", "done", "crashed"} => pc' = pc
      PROVE  Connected'
  BY <1>t, <1>8 DEF Connected
<1>9. CASE GetFirst \/ Regain
  BY <1>8, <1>9 DEF GetFirst, Regain, Serving, Changing
<1>10. CASE ChangeBuffer
  BY <1>8, <1>10 DEF ChangeBuffer, Serving, Changing
<1>11. CASE Single \/ SingleRecv
  BY <1>8, <1>11 DEF Single, SingleRecv, Serving, Changing
<1>12. CASE CreateThreads \/ MainLoop
  BY <1>8, <1>12 DEF CreateThreads, MainLoop, Serving, Changing
<1>13. CASE Collect \/ Release
  BY <1>8, <1>13 DEF Collect, Release, Serving, Changing
<1>14. CASE Finish \/ Join
  BY <1>8, <1>14 DEF Finish, Join, Serving, Changing
<1>15. CASE UNCHANGED vars
  BY <1>15, <1>t DEF vars, Connected
<1>16. ASSUME NEW s \in Streams, threaded_multistream(s) PROVE Connected'
  <2>1. UNCHANGED <<fd, listening, pc>>
    BY <1>16 DEF threaded_multistream, Top, Lock, Begin, Check, Recv, RecvEnds, Report, Signal
  <2> QED BY <1>t, <2>1 DEF Connected
<1> QED
  BY <1>1, <1>2, <1>3, <1>4, <1>5, <1>6, <1>7, <1>9, <1>10, <1>11, <1>12, <1>13, <1>14, <1>15,
     <1>16 DEF Next, Main

\* A stream ends only after its last byte, when it is not disturbed.
LEMMA EndsStep ==
  ASSUME IInv, [Next]_vars, OnTime, OnTime', Connected, EndsAtEnd
  PROVE  EndsAtEnd'
<1> USE DEF environment, session, counts, barrier, buffers, thread, locals
<1>t. /\ TypeOK /\ MainInv /\ tstatus \in [Streams -> SUBSET Flags] /\ taken \in [Streams -> Nat]
      /\ UNCHANGED <<loop, sent>>
  <2>1. UNCHANGED <<loop, sent>>
    BY Undisturbed
  <2> QED BY <2>1 DEF IInv, TypeOK
<1>k. KEEP # "CLEAN_EXIT" /\ KEEP # "ERROR" /\ FULL # "CLEAN_EXIT" /\ FULL # "ERROR"
  BY DEF KEEP, FULL
<1>w. pc \in {"loop", "await"} => \A s \in Streams : Waiting(s)
  BY DEF IInv, BarrierInv, Gathering
<1>1. ASSUME UNCHANGED <<tstatus, taken>>, pc' \in {"loop", "await"} => pc \in {"loop", "await"}
      PROVE  EndsAtEnd'
  BY <1>t, <1>1 DEF EndsAtEnd
<1>2. CASE CreateThreads
  <2>1. \A s \in Streams : tstatus'[s] = {KEEP} \/ tstatus'[s] = {}
    BY <1>2 DEF CreateThreads
  <2> QED BY <1>k, <2>1 DEF EndsAtEnd
<1>3. CASE Release
  <2>1. \A s \in Streams : Parked(s)
    BY <1>3 DEF Release, IInv, MainInv, BarrierInv, Turning, Changing
  <2>2. \A s \in Streams : tstatus'[s] = {KEEP}
    BY <1>3, <2>1 DEF Release, Parked
  <2> QED BY <1>k, <2>2 DEF EndsAtEnd
<1>4. CASE SingleRecv \/ Rundown
  BY <1>4 DEF SingleRecv, Rundown, EndsAtEnd
<1>5. CASE Setup \/ Accept \/ AcceptFails \/ AcceptedEnough \/ GetFirst \/ Regain
  BY <1>5 DEF Setup, Accept, AcceptFails, AcceptedEnough, GetFirst, Regain, EndsAtEnd
<1>6. CASE ChangeBuffer \/ Single \/ Finish \/ Join \/ CloseSocket
  BY <1>6 DEF ChangeBuffer, Single, Finish, Join, CloseSocket, EndsAtEnd
<1>7. CASE MainLoop \/ Collect
  BY <1>1, <1>7 DEF MainLoop, Collect
<1>8. CASE stop_streamer \/ UNCHANGED vars
  BY <1>1, <1>8 DEF stop_streamer, vars
<1>9. ASSUME NEW s \in Streams, threaded_multistream(s), pc \in {"loop", "await"}
      PROVE  EndsAtEnd'
  <2>1. UNCHANGED pc /\ loop = "multi" /\ Waiting(s)
    BY <1>9, <1>w, ThreadFrame, ThreadRuns
  <2>h. ASSUME \A r \in Streams \ {s} : tstatus'[r] = tstatus[r] /\ taken'[r] = taken[r],
               "ERROR" \notin tstatus'[s], "CLEAN_EXIT" \in tstatus'[s] => taken'[s] = sent[s]
        PROVE  EndsAtEnd'
    BY <1>9, <1>t, <2>h DEF EndsAtEnd
  <2>2. \A r \in Streams \ {s} : tstatus'[r] = tstatus[r] /\ taken'[r] = taken[r]
    BY <1>9, ThreadFrame DEF SameThread, SameWork
  <2>3. CASE Recv(s)
    <3>1. tstatus' = tstatus /\ tstatus[s] = {KEEP}
      BY <2>1, <2>3 DEF Recv, Waiting
    <3> QED BY <1>k, <2>h, <2>2, <3>1
  <2>4. CASE RecvEnds(s)
    <3>1. PICK n \in recv(s, PacketSize - offset[s]) :
            n <= 0 /\ tstatus' = [tstatus EXCEPT ![s] = IF n = 0 THEN {"CLEAN_EXIT"} ELSE {"ERROR"}]
      BY <2>4 DEF RecvEnds
    <3>2. PacketSize - offset[s] \in Nat \ {0}
      <4>1. offset[s] \in 0..(PacketSize - 1)
        BY <1>t DEF TypeOK
      <4> QED BY <4>1, Sizes
    <3>3. fd[s] = "open" /\ ending[s] = "close"
      BY <1>9, <2>1 DEF Connected, Serving, OnTime, Connections
    <3>4. n = 0 /\ taken[s] = sent[s]
      BY <1>t, <3>1, <3>2, <3>3, RecvSends
    <3>5. tstatus'[s] = {"CLEAN_EXIT"} /\ UNCHANGED taken
      BY <1>t, <2>4, <3>1, <3>4 DEF RecvEnds
    <3> QED BY <2>h, <2>2, <3>4, <3>5
  <2>5. CASE Signal(s)
    <3>1. tpc[s] = "signal" /\ UNCHANGED taken
          /\ tstatus'[s] = IF packets_ready[s] = max_packets[s] THEN read[s] \cup {FULL} ELSE tstatus[s]
      BY <1>t, <2>5 DEF Signal
    <3>2. read[s] = tstatus[s]
      BY <2>1, <3>1 DEF Waiting
    <3>3. "ERROR" \notin tstatus[s] /\ ("CLEAN_EXIT" \in tstatus[s] => taken[s] = sent[s])
      BY <1>9 DEF EndsAtEnd
    <3> QED BY <1>k, <2>h, <2>2, <3>1, <3>2, <3>3
  <2>6. CASE Top(s) \/ Lock(s) \/ Begin(s) \/ Check(s) \/ Report(s)
    <3>1. UNCHANGED <<tstatus, taken>>
      BY <2>6 DEF Top, Lock, Begin, Check, Report
    <3> QED BY <1>1, <1>9, <3>1
  <2> QED BY <1>9, <2>3, <2>4, <2>5, <2>6 DEF threaded_multistream
<1>10. ASSUME NEW s \in Streams, threaded_multistream(s), pc \notin {"loop", "await"}
       PROVE  EndsAtEnd'
  BY <1>10, ThreadFrame DEF EndsAtEnd
<1> QED
  BY <1>2, <1>3, <1>4, <1>5, <1>6, <1>7, <1>8, <1>9, <1>10 DEF Next, Main

\* What is left of the recording stays what it is.
LEMMA LastPartStays ==
  ASSUME Grows, UNCHANGED <<loop, sent>>, NEW b \in 1..Len(content), NEW bytes \in Nat,
         bytes <= BufSize, LastPart(b, bytes), NEW total \in Nat, Striped(total)'
  PROVE  /\ \E part \in 0..(Elems - 1) : total = Base(b) + part /\ bytes = part * PacketSize
         /\ \A p \in 0..(bytes - 1) : content'[b][p] # <<>>
<1>1. Striped(total)
  BY DEF Striped
<1>2. \E part \in 0..(Elems - 1) : total = Base(b) + part /\ bytes = part * PacketSize
  BY <1>1 DEF LastPart
<1>3. ASSUME NEW p \in 0..(bytes - 1) PROVE content'[b][p] # <<>>
  <2>1. p \in Places
    BY Sizes
  <2>2. Written(b, p)
    BY <1>1 DEF LastPart
  <2> QED BY <2>1, <2>2 DEF Grows, Written
<1> QED BY <1>2, <1>3

\* The one stream of a session without threads has ended: the bytes of its last
\* buffer are the rest of the recording.
LEMMA SingleEnds ==
  ASSUME TypeOK, be \in Nat \ {0}, inc < BufSize, taken[0] = (be - 1) * BufSize + inc,
         sent[0] = taken[0], NEW total \in Nat, sent[0] = PacketSize * total
  PROVE  \E part \in 0..(Elems - 1) : total = Base(be) + part /\ inc = part * PacketSize
<1>1. /\ PacketSize \in Nat \ {0} /\ Elems \in Nat \ {0} /\ BufSize = Elems * PacketSize
      /\ inc \in Nat /\ be - 1 \in Nat /\ Base(be) \in Nat
  <2>1. be - 1 \in Nat /\ Elems \in Nat \ {0}
    BY Sizes
  <2>2. (be - 1) * Elems \in Nat
    BY <2>1
  <2> QED BY <2>1, <2>2, Sizes DEF BufSize, TypeOK, Base
<1>2. PacketSize * total = Base(be) * PacketSize + inc
  <2>1. (be - 1) * BufSize = Base(be) * PacketSize
    BY <1>1, Distributes DEF Base
  <2> QED BY <2>1
<1> DEFINE part == total - Base(be)
<1>3. part \in Int /\ inc = part * PacketSize
  <2>1. part \in Int
    BY <1>1
  <2>2. part * PacketSize = total * PacketSize - Base(be) * PacketSize
    BY <1>1, Distributes
  <2>3. total * PacketSize = PacketSize * total /\ total * PacketSize \in Nat
          /\ Base(be) * PacketSize \in Nat
    BY <1>1
  <2> HIDE DEF part
  <2> QED BY <1>1, <1>2, <2>1, <2>2, <2>3
<1>4. part >= 0
  <2>1. CASE part < 0
    <3>1. (0 - part - 1) \in Nat
      BY <1>3, <2>1
    <3>2. (0 - part - 1) * PacketSize \in Nat /\ (0 - part - 1) * PacketSize = 0 - part * PacketSize - PacketSize
      BY <1>1, <1>3, <3>1
    <3> HIDE DEF part
    <3> QED BY <1>1, <1>3, <3>2
  <2> HIDE DEF part
  <2> QED BY <1>3, <2>1
<1>5. part < Elems
  <2>1. CASE part >= Elems
    <3>1. (part - Elems) \in Nat
      BY <1>1, <1>3, <2>1
    <3>2. (part - Elems) * PacketSize \in Nat /\ (part - Elems) * PacketSize = part * PacketSize - BufSize
      BY <1>1, <1>3, <3>1, Distributes
    <3> HIDE DEF part
    <3>3. BufSize \in Nat
      BY Sizes
    <3> QED BY <1>1, <1>3, <3>2, <3>3
  <2> HIDE DEF part
  <2> QED BY <1>1, <1>3, <2>1
<1>6. total = Base(be) + part
  BY <1>1
<1> HIDE DEF part
<1> QED BY <1>1, <1>3, <1>4, <1>5, <1>6

\* The round that is not full is the recording's last one.
LEMMA CollectEnds ==
  ASSUME IInv, OnlySent, EndsAtEnd, Collect, pc' = "rundown"
  PROVE  /\ \A s \in Streams : bytes_received'[s] = 0
         /\ \A total \in Nat : Striped(total) =>
              /\ \E part \in 0..(Elems - 1) : total = Base(be) + part /\ inc' = part * PacketSize
              /\ \A p \in 0..(inc' - 1) : Written(be, p)
<1>1. /\ TypeOK /\ loop = "multi" /\ Remainders /\ be # 0
      /\ \A s \in Streams : Done(s) /\ Waiting(s)
  BY CollectEffect DEF IInv
<1>2. pc = "await" /\ active_threads = Mult /\ inc = 0
  BY DEF Collect, IInv, BarrierInv, Gathering
<1>3. \A s \in Streams : "ERROR" \notin tstatus[s] /\ (Parked(s) \/ tstatus[s] = {"CLEAN_EXIT"})
  <2> TAKE s \in Streams
  <2>1. "ERROR" \notin tstatus[s]
    BY <1>2 DEF EndsAtEnd
  <2>2. Parked(s) \/ Broken(s)
    BY <1>1 DEF Waiting
  <2> QED BY <2>1, <2>2 DEF Broken
<1>4. \A s \in Streams : Parked(s) \/ taken[s] = sent[s]
  BY <1>2, <1>3 DEF EndsAtEnd
<1>5. Visited = Streams
  BY <1>3, Sizes DEF Visited
<1>6. /\ inc' = Reported(Streams)
      /\ \A s \in Streams : bytes_received'[s] = 0
  <2>1. Reported(Streams) \in Nat
    BY ReportedFinite
  <2> QED BY <1>2, <1>5, <2>1 DEF Collect
<1>7. \E s \in Streams : ~Parked(s)
  <2> SUFFICES ASSUME \A s \in Streams : Parked(s) PROVE FALSE
    OBVIOUS
  <2>1. inc' = BufSize
    BY <1>1, <1>6, QuotasFill
  <2>2. Ended("ERROR") = {}
    BY <1>3, <1>5 DEF Ended
  <2>3. Ended("CLEAN_EXIT") = {}
    BY <1>5 DEF Ended, Parked, KEEP, FULL
  <2>4. active_threads' = Mult
    <3>1. Cardinality(Ended("CLEAN_EXIT")) = 0
      BY <2>3, FS_EmptySet
    <3>2. active_threads' = active_threads - Cardinality(Ended("CLEAN_EXIT"))
      BY <2>2 DEF Collect
    <3> QED BY <1>2, <3>1, <3>2, Sizes
  <2>5. ~(active_threads' = 0 \/ inc' # BufSize)
    BY <2>1, <2>4, Sizes
  <2> QED BY <2>5 DEF Collect
<1>8. PICK ended \in Streams : ~Parked(ended)
  BY <1>7
<1>9. ASSUME NEW total \in Nat, Striped(total)
      PROVE  /\ \E part \in 0..(Elems - 1) : total = Base(be) + part /\ inc' = part * PacketSize
             /\ \A p \in 0..(inc' - 1) : Written(be, p)
  <2>1. PICK part \in 0..(Elems - 1) :
           /\ total = Base(be) + part /\ Reported(Streams) = part * PacketSize
           /\ \A p \in 0..(part * PacketSize - 1) : Written(be, p)
    BY <1>1, <1>4, <1>8, <1>9, LastRound
  <2>2. inc' = part * PacketSize
    BY <1>6, <2>1
  <2> QED BY <2>1, <2>2
<1> QED BY <1>6, <1>9

\* The buffers go to their writers full, and the last one with the rest.
LEMMA DeliveredStep ==
  ASSUME IInv, [Next]_vars, OnTime, OnTime', OnlySent, Connected, EndsAtEnd, Delivered
  PROVE  Delivered'
<1> USE DEF environment, session, counts, barrier, buffers, thread, locals
<1>t. /\ TypeOK /\ MainInv /\ Grows /\ UNCHANGED <<loop, sent, ending>>
      /\ loop # "splice" /\ ~stopped /\ ~stopped' /\ pc \in MainPlaces
      /\ Len(handed) = Len(content) /\ Len(content) \in Nat /\ be \in 0..Len(content) /\ be \in Nat
      /\ inc \in Nat /\ n_packets \in Nat /\ total_packets \in Nat
      /\ handed \in Seq(0..BufSize) /\ \A b \in 1..Len(handed) : handed[b] \in 0..BufSize
      /\ BufSize \in Nat \ {0} /\ Elems \in Nat \ {0} /\ PacketSize \in Nat \ {0}
  <2>1. UNCHANGED <<loop, sent, ending>> /\ Grows
    BY Undisturbed, ContentStep
  <2>2. TypeOK /\ MainInv
    BY DEF IInv
  <2>3. content \in Seq(Buffers) /\ handed \in Seq(0..BufSize)
    BY <2>2 DEF TypeOK, Buffers
  <2>4. Len(content) \in Nat /\ \A b \in 1..Len(handed) : handed[b] \in 0..BufSize
    <3>1. Len(content) \in Nat
      BY <2>3, LenProperties
    <3>2. \A b \in 1..Len(handed) : handed[b] \in 0..BufSize
      BY <2>3, ElementOfSeq
    <3> QED BY <3>1, <3>2
  <2>5. loop # "splice" /\ ~stopped /\ ~stopped'
    BY <2>1 DEF OnTime
  <2>6. /\ Len(handed) = Len(content) /\ be \in 0..Len(content) /\ pc \in MainPlaces
        /\ inc \in Nat /\ n_packets \in Nat /\ total_packets \in Nat
    BY <2>2 DEF TypeOK
  <2>7. be \in Nat
    BY <2>4, <2>6
  <2>8. BufSize \in Nat \ {0} /\ Elems \in Nat \ {0} /\ PacketSize \in Nat \ {0}
    BY Sizes
  <2> QED BY <2>1, <2>2, <2>3, <2>4, <2>5, <2>6, <2>7, <2>8
<1>b. /\ Base(1) = 0 /\ \A b \in Nat : Base(b) + Elems = Base(b + 1)
  <2>1. Base(1) = 0
    BY <1>t DEF Base
  <2>2. ASSUME NEW b \in Nat PROVE Base(b) + Elems = Base(b + 1)
    <3>1. (b - 1) * Elems + Elems = ((b + 1) - 1) * Elems
      BY <1>t
    <3> QED BY <3>1 DEF Base
  <2> QED BY <2>1, <2>2
<1>r. pc \in Starting \cup {"loop", "await", "single", "recv"} \cup Changing => Running
  BY <1>t DEF MainInv
<1>q. ASSUME UNCHANGED <<handed, counts>>,
             pc \in {"setup", "accept"}, pc' \in {"setup", "accept", "get_first", "exited"}
      PROVE  Delivered'
  <2>1. FullBefore(1)'
    BY <1>q DEF Delivered, FullBefore, Base
  <2> QED BY <1>q, <2>1 DEF Delivered, Late
<1>m. ASSUME UNCHANGED <<handed, counts, be>>,
             pc \in {"create", "loop", "await", "change", "release", "single", "recv"},
             pc' \in {"create", "loop", "await", "change", "release", "single", "recv"}
      PROVE  Delivered'
  <2>1. (be = Len(handed) /\ be # 0 /\ FullBefore(be) /\ handed[be] = 0)'
    BY <1>m DEF Delivered, FullBefore, Base
  <2> QED BY <1>m, <2>1 DEF Delivered, Late
<1>e. ASSUME UNCHANGED <<handed, counts, be>>,
             pc \in {"loop", "await", "single", "recv", "rundown"},
             pc' \in {"rundown", "finish"},
             LastPart(be, inc)',
             pc' = "rundown" => \A s \in Streams : bytes_received'[s] = 0
      PROVE  Delivered'
  <2>1. (be = Len(handed) /\ be # 0 /\ FullBefore(be) /\ handed[be] = 0)'
    BY <1>e DEF Delivered, FullBefore, Base
  <2> QED BY <1>e, <2>1 DEF Delivered, Late
<1>1. CASE Setup
  BY <1>1, <1>q, <1>t DEF Setup
<1>2. CASE Accept
  BY <1>2, <1>q DEF Accept
<1>3. CASE AcceptFails
  BY <1>3, <1>q DEF AcceptFails
<1>4. CASE AcceptedEnough
  BY <1>4, <1>q DEF AcceptedEnough
<1>5. CASE GetFirst
  <2>1. pc = "get_first" /\ UNCHANGED counts /\ Running /\ Len(content) = 0 /\ FullBefore(1)
    BY <1>5, <1>r, <1>t DEF GetFirst, MainInv, Starting, Delivered
  <2>2. TakeBuffer /\ pc' \in {"create", "single"}
    BY <1>5, <2>1 DEF GetFirst, Refused
  <2>3. /\ Len(handed') = 1 /\ be' = 1 /\ handed'[1] = 0
    BY <1>t, <2>1, <2>2, TakeBufferEffect
  <2>4. (be = Len(handed) /\ be # 0 /\ FullBefore(be) /\ handed[be] = 0)'
    BY <2>1, <2>3 DEF FullBefore, Base
  <2> QED BY <2>2, <2>4 DEF Delivered, Late
<1>6. CASE ChangeBuffer
  <2>1. /\ pc = "change" /\ pc' = "regain" /\ be' = be
        /\ handed' = [handed EXCEPT ![be] = inc]
        /\ total_packets' = total_packets + Elems /\ n_packets' = n_packets + Elems
    BY <1>6 DEF ChangeBuffer
  <2>2. be = Len(handed) /\ be # 0 /\ FullBefore(be)
    BY <2>1 DEF Delivered
  <2>3. inc = BufSize
    <3>1. CASE loop = "multi"
      BY <2>1, <3>1 DEF IInv, BarrierInv, Turning, Changing
    <3>2. CASE loop # "multi"
      BY <2>1, <3>2 DEF IInv, SingleInv
    <3> QED BY <3>1, <3>2
  <2>4. Len(handed') = Len(handed) /\ \A c \in 1..Len(handed) : handed'[c] = IF c = be THEN inc ELSE handed[c]
    <3>1. be \in 1..Len(content) /\ inc \in 0..BufSize
      BY <1>t, <2>2, <2>3
    <3> QED BY <1>t, <2>1, <3>1, HandOverEffect
  <2>5. \A c \in 1..be : handed'[c] = BufSize
    BY <1>t, <2>2, <2>3, <2>4 DEF FullBefore
  <2>6. n_packets' = Base(be + 1) /\ total_packets' = Base(be + 1)
    BY <1>b, <1>t, <2>1, <2>2 DEF FullBefore
  <2>7. (be = Len(handed))' /\ FullBefore(be + 1)'
    <3>1. (be + 1) - 1 = be
      BY <1>t
    <3> QED BY <2>1, <2>2, <2>4, <2>5, <2>6, <3>1 DEF FullBefore, Base
  <2> QED BY <2>1, <2>7 DEF Delivered, Late
<1>7. CASE Regain
  <2>1. pc = "regain" /\ UNCHANGED counts /\ Running /\ be = Len(handed) /\ FullBefore(be + 1)
    BY <1>7, <1>r DEF Regain, Delivered, Changing
  <2>2. TakeBuffer /\ pc' \in {"release", "single"}
    BY <1>7, <2>1 DEF Regain, Refused
  <2>3. /\ Len(handed') = be + 1 /\ be' = be + 1 /\ handed'[be + 1] = 0
        /\ \A c \in 1..be : handed'[c] = handed[c]
    BY <1>t, <2>1, <2>2, TakeBufferEffect
  <2>4. (be = Len(handed) /\ be # 0 /\ handed[be] = 0)'
    BY <1>t, <2>3
  <2>5. FullBefore(be)'
    <3>1. (be + 1) - 1 = be
      BY <1>t
    <3> QED BY <2>1, <2>3, <3>1 DEF FullBefore, Base
  <2> QED BY <2>2, <2>4, <2>5 DEF Delivered, Late
<1>8. CASE Single
  BY <1>8, <1>m, <1>r DEF Single
<1>9. CASE SingleRecv
  <2>1. PICK n \in recv(0, BufSize - inc) :
          IF n > 0
          THEN /\ inc' = inc + n
               /\ pc' = IF inc' = BufSize THEN "change" ELSE "single"
          ELSE pc' = "finish" /\ UNCHANGED <<taken, inc, content>>
    BY <1>9 DEF SingleRecv
  <2>2. pc = "recv" /\ UNCHANGED <<be, counts, handed>>
    BY <1>9 DEF SingleRecv
  <2>3. CASE n > 0
    BY <1>m, <2>1, <2>2, <2>3
  <2>4. CASE ~(n > 0)
    <3>1. loop # "multi" /\ 0 \in Connections
      BY <1>t, <2>2 DEF MainInv, Connections
    <3>2. /\ inc < BufSize /\ taken[0] = (be - 1) * BufSize + inc /\ \A p \in 0..(inc - 1) : Written(be, p)
      BY <2>2, <3>1 DEF IInv, SingleInv
    <3>3. BufSize - inc \in Nat \ {0} /\ 0 \in Streams
      BY <1>t, <3>2, Sizes
    <3>4. n \in Int
      BY <1>t, <3>3, RecvBounds
    <3>5. fd[0] = "open" /\ ending[0] = "close"
      BY <2>2, <3>1 DEF Connected, Serving, OnTime
    <3>6. taken[0] = sent[0]
      BY <1>t, <2>4, <3>3, <3>4, <3>5, RecvSends
    <3>7. pc' = "finish" /\ inc' = inc /\ content' = content
      BY <2>1, <2>4
    <3>8. be \in Nat \ {0}
      BY <1>t, <2>2 DEF MainInv
    <3>9. ASSUME NEW total \in Nat, Striped(total)'
          PROVE  /\ \E part \in 0..(Elems - 1) : total = Base(be) + part /\ inc = part * PacketSize
                 /\ \A p \in 0..(inc - 1) : content'[be][p] # <<>>
      <4>1. sent[0] = PacketSize * total
        BY <1>t, <3>1, <3>9 DEF Striped
      <4>2. \E part \in 0..(Elems - 1) : total = Base(be) + part /\ inc = part * PacketSize
        BY <1>t, <3>2, <3>6, <3>8, <4>1, SingleEnds
      <4> QED BY <3>2, <3>7, <4>2 DEF Written
    <3>10. LastPart(be, inc)'
      BY <2>2, <3>7, <3>9 DEF LastPart, Base, Written
    <3> QED BY <1>e, <2>2, <3>7, <3>10
  <2> QED BY <2>3, <2>4
<1>10. CASE CreateThreads
  <2>1. pc = "create" /\ UNCHANGED <<handed, counts, be>> /\ loop = "multi"
    BY <1>10, <1>t DEF CreateThreads, MainInv
  <2>2. PICK n \in 0..Mult : /\ tpc' = [s \in Streams |-> IF s < n THEN "top" ELSE "none"]
                             /\ pc' = IF n = Mult THEN "loop" ELSE "join"
    <3>1. (IF "create" \in Faults THEN 0..Mult ELSE {Mult}) \subseteq 0..Mult
      BY Sizes
    <3> QED BY <1>10, <3>1 DEF CreateThreads
  <2>3. n = Mult
    <3>1. CASE n # Mult
      <4>1. n \in Streams /\ tpc'[n] = "none"
        BY <2>2, <3>1, Sizes
      <4>2. pc' = "join"
        BY <2>2, <3>1
      <4> QED BY <1>t, <2>1, <4>1, <4>2 DEF OnTime, Late
    <3> QED BY <3>1
  <2> QED BY <1>m, <2>1, <2>2, <2>3
<1>11. CASE MainLoop
  <2>1. active_threads = Mult
    BY <1>11 DEF MainLoop, IInv, BarrierInv, Gathering
  <2> QED BY <1>11, <1>m, <1>r, <2>1, Sizes DEF MainLoop
<1>12. CASE Collect
  <2>1. pc = "await" /\ UNCHANGED <<handed, counts, be, content>> /\ pc' \in {"rundown", "change"}
    BY <1>12 DEF Collect
  <2>2. CASE pc' = "change"
    BY <1>m, <2>1, <2>2
  <2>3. CASE pc' = "rundown"
    <3>1. /\ \A s \in Streams : bytes_received'[s] = 0
          /\ \A total \in Nat : Striped(total) =>
              /\ \E part \in 0..(Elems - 1) : total = Base(be) + part /\ inc' = part * PacketSize
              /\ \A p \in 0..(inc' - 1) : Written(be, p)
      BY <1>12, <2>3, CollectEnds
    <3>2. \A total \in Nat : Striped(total)' => Striped(total)
      BY <1>t DEF Striped
    <3>3. LastPart(be, inc)'
      BY <2>1, <3>1, <3>2 DEF LastPart, Base, Written
    <3> QED BY <1>e, <2>1, <2>3, <3>1, <3>3
  <2> QED BY <2>1, <2>2, <2>3
<1>13. CASE Release
  BY <1>13, <1>m DEF Release
<1>14. CASE Rundown
  <2>1. /\ pc = "rundown" /\ pc' = "finish" /\ UNCHANGED <<handed, counts, be, content>>
        /\ inc' = inc + Reported(Streams)
    BY <1>14 DEF Rundown
  <2>2. LastPart(be, inc) /\ \A s \in Streams : bytes_received[s] = 0
    BY <2>1 DEF Delivered
  <2>3. Reported(Streams) = 0
    <3>1. {byte \in Streams \X (1..BufSize) : byte[2] <= bytes_received[byte[1]]} = {}
      <4> SUFFICES ASSUME NEW byte \in Streams \X (1..BufSize), byte[2] <= bytes_received[byte[1]]
                   PROVE  FALSE
        OBVIOUS
      <4>1. byte[1] \in Streams /\ byte[2] \in 1..BufSize
        OBVIOUS
      <4> QED BY <1>t, <2>2, <4>1
    <3> QED BY <3>1, FS_EmptySet DEF Reported
  <2>4. inc' = inc
    BY <1>t, <2>1, <2>3
  <2>5. \A total \in Nat : Striped(total)' => Striped(total)
    BY <1>t DEF Striped
  <2>6. LastPart(be, inc)'
    BY <2>1, <2>2, <2>4, <2>5 DEF LastPart, Base, Written
  <2> QED BY <1>e, <2>1, <2>6
<1>15. CASE Finish
  <2>1. /\ pc = "finish" /\ be = Len(handed) /\ be # 0 /\ FullBefore(be) /\ handed[be] = 0
        /\ LastPart(be, inc) /\ inc <= BufSize
    BY <1>15, <1>t DEF Finish, Delivered, MainInv
  <2>2. pc' \in Late /\ content' = content
    BY <1>15, <2>1 DEF Finish, Late
  <2>3. be \in 1..Len(handed) /\ be \in 1..Len(content)
    BY <1>t, <2>1
  <2>h. ASSUME /\ Len(handed') = be /\ \A c \in 1..(be - 1) : handed'[c] = BufSize
               /\ n_packets' = Base(be) + (handed'[be] \div PacketSize)
               /\ total_packets' = n_packets'
               /\ \A total \in Nat : Striped(total) =>
                    /\ \E part \in 0..(Elems - 1) : total = Base(be) + part /\ handed'[be] = part * PacketSize
                    /\ \A p \in 0..(handed'[be] - 1) : Written(be, p)
        PROVE  Delivered'
    <3>1. \A total \in Nat : Striped(total)' => Striped(total)
      BY <1>t DEF Striped
    <3>2. LastPart(Len(handed), handed[Len(handed)])'
      BY <2>2, <2>h, <3>1 DEF LastPart, Base, Written
    <3>3. (/\ Len(handed) # 0 /\ \A c \in 1..(Len(handed) - 1) : handed[c] = BufSize
           /\ n_packets = Base(Len(handed)) + (handed[Len(handed)] \div PacketSize)
           /\ total_packets = n_packets)'
      BY <2>1, <2>h DEF Base
    <3>4. pc' \in {"join", "close", "done"}
      BY <2>2 DEF Late
    <3> QED BY <2>2, <3>2, <3>3, <3>4 DEF Delivered
  <2>4. CASE inc < PacketSize
    <3>1. UNCHANGED <<counts, handed>>
      BY <1>15, <1>t, <2>1, <2>4 DEF Finish
    <3>2. 0 \div PacketSize = 0
      BY <1>t
    <3>3. Base(be) \in Nat
      BY <1>t, <2>1 DEF FullBefore
    <3>4. ASSUME NEW total \in Nat, Striped(total)
          PROVE  \E part \in 0..(Elems - 1) : total = Base(be) + part /\ 0 = part * PacketSize
      <4>1. PICK part \in 0..(Elems - 1) : total = Base(be) + part /\ inc = part * PacketSize
        BY <2>1, <3>4 DEF LastPart
      <4>2. part = 0
        <5>1. CASE part # 0
          <6>1. part - 1 \in Nat /\ (part - 1) * PacketSize \in Nat
                  /\ part * PacketSize = (part - 1) * PacketSize + PacketSize
            <7>1. part - 1 \in Nat
              BY <1>t, <5>1
            <7> QED BY <1>t, <7>1
          <6> QED BY <1>t, <2>4, <4>1, <6>1
        <5> QED BY <5>1
      <4>3. 0 * PacketSize = 0
        BY <1>t
      <4> QED BY <4>1, <4>2, <4>3
    <3>5. \A p \in 0..(0 - 1) : Written(be, p)
      OBVIOUS
    <3>6. n_packets' = Base(be) + (handed'[be] \div PacketSize) /\ total_packets' = n_packets'
      BY <2>1, <3>1, <3>2, <3>3 DEF FullBefore
    <3>7. handed'[be] = 0 /\ Len(handed') = be /\ \A c \in 1..(be - 1) : handed'[c] = BufSize
      BY <2>1, <3>1 DEF FullBefore
    <3> QED BY <2>h, <3>4, <3>5, <3>6, <3>7
  <2>5. CASE ~(inc < PacketSize)
    <3>1. /\ handed' = [handed EXCEPT ![be] = inc] /\ n_packets' = n_packets + (inc \div PacketSize)
          /\ total_packets' = total_packets + (inc \div PacketSize)
      BY <1>15, <1>t, <2>1, <2>5 DEF Finish
    <3>2. Len(handed') = Len(handed) /\ \A c \in 1..Len(handed) : handed'[c] = IF c = be THEN inc ELSE handed[c]
      <4>1. inc \in 0..BufSize
        BY <1>t, <2>1
      <4> QED BY <1>t, <2>3, <3>1, <4>1, HandOverEffect
    <3>3. handed'[be] = inc /\ Len(handed') = be /\ \A c \in 1..(be - 1) : handed'[c] = BufSize
      BY <1>t, <2>1, <2>3, <3>2 DEF FullBefore
    <3>4. n_packets' = Base(be) + (handed'[be] \div PacketSize) /\ total_packets' = n_packets'
      BY <2>1, <3>1, <3>3 DEF FullBefore
    <3> QED BY <2>1, <2>h, <3>3, <3>4 DEF LastPart
  <2> QED BY <2>4, <2>5
<1>l. ASSUME UNCHANGED <<handed, counts>>, pc \in Late, pc' \in Late
      PROVE  Delivered'
  <2> DEFINE last == Len(handed)
  <2>1. /\ last # 0 /\ \A c \in 1..(last - 1) : handed[c] = BufSize
        /\ n_packets = Base(last) + (handed[last] \div PacketSize) /\ total_packets = n_packets
        /\ LastPart(last, handed[last])
    BY <1>l DEF Delivered
  <2>2. last \in 1..Len(content) /\ handed[last] \in Nat /\ handed[last] <= BufSize
    BY <1>t, <2>1
  <2>3. ASSUME NEW total \in Nat, Striped(total)'
        PROVE  /\ \E part \in 0..(Elems - 1) : total = Base(last) + part /\ handed[last] = part * PacketSize
               /\ \A p \in 0..(handed[last] - 1) : content'[last][p] # <<>>
    <3> HIDE DEF last
    <3> QED BY <1>t, <2>1, <2>2, <2>3, LastPartStays
  <2>4. LastPart(last, handed[last])'
    BY <1>l, <2>3 DEF LastPart, Base, Written
  <2>5. pc' \in {"join", "close", "done"}
    BY <1>l DEF Late
  <2> QED BY <1>l, <2>1, <2>4, <2>5 DEF Delivered, Base
<1>16. CASE Join
  BY <1>16, <1>l DEF Join, Late
<1>17. CASE CloseSocket
  BY <1>17, <1>l DEF CloseSocket, Late
<1>18. CASE stop_streamer
  BY <1>18, <1>t DEF stop_streamer
<1>s. ASSUME UNCHANGED <<loop, sent, pc, be, inc, handed, counts>>,
             pc = "rundown" => UNCHANGED bytes_received
      PROVE  Delivered'
  <2>1. CASE pc \in {"setup", "accept"}
    BY <1>q, <1>s, <2>1
  <2>2. CASE pc \in {"create", "loop", "await", "change", "release", "single", "recv"}
    BY <1>m, <1>s, <2>2
  <2>3. CASE pc \in {"rundown", "finish"}
    <3>1. (be = Len(handed) /\ be # 0 /\ FullBefore(be) /\ handed[be] = 0)'
      BY <1>s, <2>3 DEF Delivered, FullBefore, Base
    <3>2. be \in 1..Len(content) /\ inc <= BufSize
      <4>1. be # 0
        BY <2>3 DEF Delivered
      <4>2. be \in 1..Len(content)
        BY <1>t, <4>1
      <4>3. CASE pc = "finish"
        BY <1>t, <4>1, <4>2, <4>3 DEF MainInv
      <4>4. CASE pc = "rundown"
        <5>1. Reported(Streams) \in Nat
          BY ReportedFinite
        <5> QED BY <1>t, <4>2, <4>4, <5>1 DEF IInv, BarrierInv, Ending
      <4> QED BY <2>3, <4>3, <4>4
    <3>3. LastPart(be, inc)
      BY <2>3 DEF Delivered
    <3>4. ASSUME NEW total \in Nat, Striped(total)'
          PROVE  /\ \E part \in 0..(Elems - 1) : total = Base(be) + part /\ inc = part * PacketSize
                 /\ \A p \in 0..(inc - 1) : content'[be][p] # <<>>
      BY <1>t, <3>2, <3>3, <3>4, LastPartStays
    <3>5. LastPart(be, inc)'
      BY <1>s, <3>4 DEF LastPart, Base, Written
    <3>6. pc = "rundown" => \A s \in Streams : bytes_received'[s] = 0
      BY <1>s DEF Delivered
    <3> QED BY <1>s, <2>3, <3>1, <3>5, <3>6 DEF Delivered, Late
  <2>4. CASE pc \in Late
    BY <1>l, <1>s, <2>4
  <2>5. CASE pc = "get_first"
    BY <1>s, <2>5 DEF Delivered, FullBefore, Base, Late
  <2>6. CASE pc = "regain"
    BY <1>s, <2>6 DEF Delivered, FullBefore, Base, Late
  <2>7. CASE pc \in {"exited", "crashed"}
    BY <1>s, <2>7 DEF Delivered, Late
  <2> QED BY <1>t, <2>1, <2>2, <2>3, <2>4, <2>5, <2>6, <2>7 DEF MainPlaces, Late
<1>19. CASE UNCHANGED vars
  BY <1>19, <1>s DEF vars
<1>20. ASSUME NEW s \in Streams, threaded_multistream(s) PROVE Delivered'
  <2>1. UNCHANGED <<pc, be, inc, handed>>
    BY <1>20, ThreadFrame
  <2>2. UNCHANGED counts
    BY <1>20 DEF threaded_multistream, Top, Lock, Begin, Check, Recv, RecvEnds, Report, Signal
  <2>3. pc = "rundown" => UNCHANGED bytes_received
    <3> SUFFICES ASSUME pc = "rundown" PROVE UNCHANGED bytes_received
      OBVIOUS
    <3>1. Done(s)
      BY <1>t DEF IInv, BarrierInv, Ending
    <3>2. tpc[s] \in {"top", "lock"}
      BY <1>20, <3>1 DEF Done, Fresh, InRound, threaded_multistream, Top, Lock, Begin, Check, Recv,
                         RecvEnds, Report, Signal
    <3> QED BY <1>20, <3>2 DEF threaded_multistream, Top, Lock, Begin, Check, Recv,
                         RecvEnds, Report, Signal
  <2> QED BY <1>s, <1>t, <2>1, <2>2, <2>3
<1> QED
  BY <1>1, <1>2, <1>3, <1>4, <1>5, <1>6, <1>7, <1>8, <1>9, <1>10, <1>11, <1>12, <1>13, <1>14, <1>15,
     <1>16, <1>17, <1>18, <1>19, <1>20 DEF Next, Main

\* The invariant of undisturbed sessions holds with the other one.
LEMMA StoredInvariant == Spec => []StoredInv
<1>1. Init => StoredInv
  <2> SUFFICES ASSUME Init PROVE StoredInv
    OBVIOUS
  <2>1. OnlySent
    BY ConstantsAssumption DEF Init, FromStreams, OnlySent
  <2>2. Connected /\ EndsAtEnd
    BY DEF Init, FromStreams, Connected, EndsAtEnd, Serving, Changing
  <2>3. FullBefore(1)
    <3>1. Base(1) = 0
      BY Sizes DEF Base
    <3> QED BY <3>1 DEF Init, FullBefore
  <2>4. Delivered
    BY <2>3 DEF Init, Delivered, Late
  <2> QED BY <2>1, <2>2, <2>4 DEF StoredInv
<1>2. IInv /\ StoredInv /\ [Next]_vars => StoredInv'
  <2> SUFFICES ASSUME IInv, StoredInv, [Next]_vars PROVE StoredInv'
    OBVIOUS
  <2>1. OnlySent'
    BY SentStep DEF StoredInv
  <2>2. ASSUME OnTime' PROVE Connected' /\ EndsAtEnd' /\ Delivered'
    <3>1. OnTime
      BY <2>2, Undisturbed
    <3>2. OnlySent /\ Connected /\ EndsAtEnd /\ Delivered
      BY <3>1 DEF StoredInv
    <3> QED BY <2>2, <3>1, <3>2, ConnectedStep, EndsStep, DeliveredStep
  <2> QED BY <2>1, <2>2 DEF StoredInv
<1> QED
  BY <1>1, <1>2, Invariance, PTL DEF Spec

\* A recording whose senders send all of it and close is stored to its last packet:
\* whichever of the loops of tcp_stream.c receives it, for any number of streams
\* and any sizes of packets and buffers, the buffers that went to their writers
\* hold all of its bytes in their order, and no others, and n_packets and
\* total_packets count its packets.
THEOREM StoredToTheLastPacket == Spec => []AllIsStored
<1>1. IInv /\ StoredInv => AllIsStored
  <2> SUFFICES ASSUME IInv, StoredInv, pc = "done", ~stopped, loop # "splice",
                      \A s \in Connections : ending[s] = "close",
                      \A s \in Streams : loop = "multi" => tpc[s] # "none",
                      NEW total \in 0..(Elems * (Len(handed) + 1)), Striped(total)
               PROVE  /\ SumFunction(handed) = total * PacketSize
                      /\ n_packets = total /\ total_packets = total
                      /\ \A b \in 1..Len(handed) : \A p \in 0..(handed[b] - 1) :
                           content[b][p] = Original(b, p)
    BY DEF AllIsStored
  <2> DEFINE last == Len(handed)
  <2>1. /\ last # 0 /\ \A c \in 1..(last - 1) : handed[c] = BufSize
        /\ n_packets = Base(last) + (handed[last] \div PacketSize) /\ total_packets = n_packets
        /\ LastPart(last, handed[last])
    BY DEF StoredInv, OnTime, Delivered, Late
  <2>2. /\ TypeOK /\ last \in Nat \ {0} /\ last = Len(content) /\ handed \in [1..last -> 0..BufSize]
        /\ Elems \in Nat \ {0} /\ PacketSize \in Nat \ {0} /\ BufSize \in Nat \ {0}
    <3>1. TypeOK /\ handed \in Seq(0..BufSize)
      BY DEF IInv, TypeOK
    <3>2. last \in Nat /\ handed \in [1..last -> 0..BufSize]
      BY <3>1, LenProperties
    <3> QED BY <2>1, <3>1, <3>2, Sizes DEF TypeOK
  <2>3. total \in Nat
    <3>1. Elems * (last + 1) \in Nat
      BY <2>2
    <3> HIDE DEF last
    <3> QED BY <3>1
  <2>4. PICK part \in 0..(Elems - 1) : total = Base(last) + part /\ handed[last] = part * PacketSize
    BY <2>1, <2>3 DEF LastPart
  <2>5. \A p \in 0..(handed[last] - 1) : Written(last, p)
    BY <2>1, <2>3 DEF LastPart
  <2>6. part \in Nat /\ part * PacketSize \in Nat /\ (part * PacketSize + 0) \div PacketSize = part
    <3>1. part \in Nat /\ 0 \in 0..(PacketSize - 1)
      BY <2>2
    <3> QED BY <2>2, <3>1, DivMod
  <2>7. n_packets = total /\ total_packets = total
    BY <2>1, <2>4, <2>6
  <2>8. SumFunction(handed) = total * PacketSize
    <3>1. handed \in [1..last -> Nat]
      <4>1. \A b \in 1..last : handed[b] \in Nat
        BY <2>2
      <4> HIDE DEF last
      <4> QED BY <2>2, <4>1
    <3>2. SumFunction(handed) = (last - 1) * BufSize + handed[last]
      <4> HIDE DEF last
      <4> QED BY <2>1, <2>2, <3>1, SumAlmostFlat
    <3>3. (last - 1) * BufSize = Base(last) * PacketSize
      <4> HIDE DEF last
      <4>1. last - 1 \in Int
        BY <2>2
      <4> QED BY <2>2, <4>1, Distributes DEF Base, BufSize
    <3>4. total * PacketSize = Base(last) * PacketSize + part * PacketSize
      <4>1. Base(last) \in Int
        <5> HIDE DEF last
        <5> QED BY <2>2 DEF Base
      <4> HIDE DEF last
      <4> QED BY <2>2, <2>4, <2>6, <4>1, Distributes
    <3> QED BY <2>4, <3>2, <3>3, <3>4
  <2>9. ASSUME NEW b \in 1..last, NEW p \in 0..(handed[b] - 1)
        PROVE  content[b][p] = Original(b, p)
    <3>1. p \in Places
      <4> HIDE DEF last
      <4>1. handed[b] \in 0..BufSize
        BY <2>2
      <4> QED BY <2>2, <4>1, Sizes
    <3>2. Written(b, p)
      <4>1. CASE b = last
        BY <2>5, <4>1
      <4>2. CASE b # last
        <5>1. handed[b] = BufSize
          <6> HIDE DEF last
          <6> QED BY <2>1, <2>2, <4>2
        <5> QED BY <3>1, <5>1 DEF IInv, ContentInv, Filled
      <4> QED BY <4>1, <4>2
    <3> QED BY <2>2, <3>1, <3>2 DEF IInv, ContentInv, Rightly
  <2> QED BY <2>7, <2>8, <2>9
<1> QED
  BY <1>1, Invariance, StoredInvariant, PTL

=============================================================================
