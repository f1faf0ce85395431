---------------------------- MODULE Resequencer -----------------------------
(***************************************************************************)
(* The receiving side of src/src/udp_stream.c: packets arrive lost,        *)
(* repeated or out of order, and are put at their place in one of two      *)
(* buffers, the current one and the one before it, which is kept until its *)
(* missing packets came or the current one is full too.  A buffer that is  *)
(* done goes to a writer thread, which fills the holes and writes it out.  *)
(*                                                                         *)
(* A buffer is a function from its buf_num_elems places to the packet      *)
(* found there; byte counts are counted in packets.  Buffers come from     *)
(* get_free (ResourceTree), which either returns one or, once the          *)
(* recording was stopped, NULL.                                            *)
(*                                                                         *)
(* Packets have the numbers of the datatypes UDPMON and MARK5BNET, or none *)
(* (DATATYPE_UNKNOWN), and no bytes of them are left out (offset is zero). *)
(***************************************************************************)
EXTENDS Integers, FiniteSets

CONSTANTS
  N,              \* buf_num_elems: packets in a buffer
  Seqs,           \* the sequence numbers the sender uses
  NoSeq,          \* INT64_MAX: no packet yet
  Empty, Filler,  \* what else a place holds: nothing of this file, or the fill pattern
  WRONGSIZELIMITBEFOREEXIT,
  WAIT_START_ON_METADATA   \* the recording starts by the time in the packets

ASSUME ConstantsAssumption ==
  /\ N \in Nat \ {0}
  /\ Seqs \subseteq Int
  /\ NoSeq \notin Int /\ Empty \notin Int /\ Filler \notin Int
  /\ WRONGSIZELIMITBEFOREEXIT \in Nat
  /\ WAIT_START_ON_METADATA \in BOOLEAN

VARIABLES
  current_seq, seqstart_current,  \* struct resq_info
  i, inc, buf,                    \* next place, packets counted, the current buffer
  before, inc_before, buf_before, \* whether a buffer before is kept, its count and places
  cumul,                          \* opt->cumul: the number of the current file
  n_packets,                      \* fi->n_packets
  first_packet,                   \* opt->first_packet
  wrongsizeerrors,
  ready, written,                 \* buffers a writer has, and the files on disk
  numbered,                       \* the datatype has numbers (not DATATYPE_UNKNOWN)
  seen, repeated,                 \* packets the network has delivered, and whether one twice
  status

counters == <<current_seq, seqstart_current, i, inc>>
beforeVars == <<before, inc_before, buf_before>>
fileVars == <<cumul, n_packets, ready, written>>
network == <<seen, repeated>>
vars == <<counters, buf, beforeVars, fileVars, first_packet, wrongsizeerrors, numbered,
          network, status>>

Places == 0..(N - 1)
Contents == [Places -> Seqs \cup {Empty, Filler}]
Files == [id : Nat, places : Contents]
NoPackets == [p \in Places |-> Empty]

TypeOK ==
  /\ current_seq \in Seqs \cup {NoSeq}
  /\ seqstart_current \in Int \cup {NoSeq}
  /\ i \in 0..N /\ inc \in Nat /\ buf \in Contents
  /\ before \in BOOLEAN /\ inc_before \in Nat /\ buf_before \in Contents
  /\ cumul \in Nat /\ n_packets \in Nat
  /\ first_packet \in Seqs \cup {NoSeq}
  /\ wrongsizeerrors \in Nat
  /\ ready \in SUBSET Files /\ written \in SUBSET Files
  /\ numbered \in BOOLEAN
  /\ seen \in SUBSET Seqs /\ repeated \in BOOLEAN
  /\ status \in {"running", "ended", "no_buffer", "error", "aborted"}

Init ==
  /\ current_seq = NoSeq /\ seqstart_current = NoSeq
  /\ i = 0 /\ inc = 0 /\ buf = NoPackets
  /\ before = FALSE /\ inc_before = 0 /\ buf_before = NoPackets
  /\ cumul = 0 /\ n_packets = 0
  /\ first_packet = NoSeq
  /\ wrongsizeerrors = 0
  /\ ready = {} /\ written = {}
  /\ numbered \in BOOLEAN
  /\ seen = {} /\ repeated = FALSE
  /\ status = "running"

-----------------------------------------------------------------------------
(* Buffers change hands                                                      *)

File(number, places) == [id |-> number, places |-> places]

\* The buffer before is written as it is, holes and all.
BeforeAsFile == IF before THEN {File(cumul - 1, buf_before)} ELSE {}

JumpLeavingBefore(places) ==
  /\ cumul' = cumul + 1
  /\ ready' = ready \cup BeforeAsFile \cup (IF inc = N THEN {File(cumul, places)} ELSE {})
  /\ before' = (before \/ inc # N)
  /\ inc_before' = IF inc = N THEN inc_before ELSE inc
  /\ buf_before' = IF inc = N THEN buf_before ELSE places

\* jump_to_next_buf up to its get_free: the buffer before goes to its writer,
\* and so does the current one if it is full; if not it becomes the one before.
JumpToNextBuf(places) ==
  /\ cumul' = cumul + 1
  /\ ready' = ready \cup BeforeAsFile \cup (IF inc = N THEN {File(cumul, places)} ELSE {})
  /\ before' = (inc # N)
  /\ inc_before' = IF inc = N THEN 0 ELSE inc
  /\ buf_before' = IF inc = N THEN NoPackets ELSE places

\* get_free returned NULL: pthread_exit, with the buffer before still kept.
NoBuffer(places) ==
  /\ JumpToNextBuf(places)
  /\ i' = 0 /\ inc' = 0 /\ buf' = NoPackets
  /\ status' = "no_buffer"
  /\ UNCHANGED <<current_seq, seqstart_current>>

\* handle_buffer_switch: every place was passed, so another buffer is needed.
SwitchBuffer ==
  /\ status = "running" /\ numbered
  /\ i = N
  /\ n_packets' = n_packets + N
  /\ \/ /\ JumpToNextBuf(buf)
        /\ i' = 0 /\ inc' = 0 /\ buf' = NoPackets
        /\ seqstart_current' = seqstart_current + N
        /\ UNCHANGED <<current_seq, status>>
     \/ NoBuffer(buf)
  /\ UNCHANGED <<first_packet, wrongsizeerrors, written, numbered, network>>

SwitchCountingFirst ==
  /\ status = "running" /\ ~numbered
  /\ i = N
  /\ n_packets' = n_packets + N
  /\ cumul' = cumul + 1
  /\ ready' = ready \cup {File(cumul + 1, buf)}
  /\ i' = 0 /\ inc' = 0 /\ buf' = NoPackets
  /\ status' \in {"running", "no_buffer"}
  /\ UNCHANGED <<current_seq, seqstart_current, beforeVars, first_packet,
                 wrongsizeerrors, written, numbered, network>>

\* The same for packets without numbers: the full buffer is written.
SwitchUnnumbered ==
  /\ status = "running" /\ ~numbered
  /\ i = N
  /\ n_packets' = n_packets + N
  /\ cumul' = cumul + 1
  /\ ready' = ready \cup {File(cumul, buf)}
  /\ i' = 0 /\ inc' = 0 /\ buf' = NoPackets
  /\ status' \in {"running", "no_buffer"}
  /\ UNCHANGED <<current_seq, seqstart_current, beforeVars, first_packet,
                 wrongsizeerrors, written, numbered, network>>

-----------------------------------------------------------------------------
(* calc_bufpos_general: recv put packet q at place i of buf (there); where   *)
(* does it belong?                                                           *)

Offset(q) == q - seqstart_current

Started == current_seq # NoSeq

FirstPacket(q, there) ==
  /\ ~Started
  /\ current_seq' = q /\ seqstart_current' = q
  /\ i' = i + 1 /\ inc' = inc + 1
  /\ buf' = there
  /\ UNCHANGED <<beforeVars, cumul, ready>>

InOrder(q, there) ==
  /\ Started /\ q = current_seq + 1
  /\ current_seq' = q
  /\ i' = i + 1 /\ inc' = inc + 1
  /\ buf' = there
  /\ UNCHANGED <<seqstart_current, beforeVars, cumul, ready>>

DroppedTooSoon(q, there) ==
  /\ Started
  /\ \/ q = current_seq
     \/ q < current_seq /\ Offset(q) < 0 /\ (~before \/ Offset(q) < -N)
     \/ q > current_seq + 1 /\ Offset(q) > N
  /\ buf' = there
  /\ UNCHANGED <<counters, beforeVars, cumul, ready>>

\* The same packet again, one too late for the buffers, or one too far ahead.
Dropped(q, there) ==
  /\ Started
  /\ \/ q = current_seq
     \/ q < current_seq /\ Offset(q) < 0 /\ (~before \/ Offset(q) < -N)
     \/ q > current_seq + 1 /\ Offset(q) >= 2 * N
  /\ buf' = there
  /\ UNCHANGED <<counters, beforeVars, cumul, ready>>

LateOffByOne(q, there) ==
  /\ Started /\ before
  /\ q < current_seq /\ Offset(q) \in -N..-1
  /\ LET places == [buf_before EXCEPT ![(N - 1) + Offset(q)] = q] IN
     \/ /\ inc_before + 1 < N
        /\ inc_before' = inc_before + 1 /\ buf_before' = places
        /\ UNCHANGED <<before, ready>>
     \/ /\ inc_before + 1 >= N
        /\ ready' = ready \cup {File(cumul - 1, places)}
        /\ before' = FALSE /\ inc_before' = 0 /\ buf_before' = NoPackets
  /\ buf' = there
  /\ UNCHANGED <<counters, cumul>>

\* One for the buffer before, which is released once its count is full.
LateForBufferBefore(q, there) ==
  /\ Started /\ before
  /\ q < current_seq /\ Offset(q) \in -N..-1
  /\ LET places == [buf_before EXCEPT ![N + Offset(q)] = q] IN
     \/ /\ inc_before + 1 < N
        /\ inc_before' = inc_before + 1 /\ buf_before' = places
        /\ UNCHANGED <<before, ready>>
     \/ /\ inc_before + 1 >= N
        /\ ready' = ready \cup {File(cumul - 1, places)}
        /\ before' = FALSE /\ inc_before' = 0 /\ buf_before' = NoPackets
  /\ buf' = there
  /\ UNCHANGED <<counters, cumul>>

\* Behind the last one: its place is counted whether it was empty or not.
LateInBuffer(q, there) ==
  /\ Started
  /\ q < current_seq /\ Offset(q) >= 0
  /\ inc' = inc + 1
  /\ buf' = [there EXCEPT ![Offset(q)] = q]
  /\ UNCHANGED <<current_seq, seqstart_current, i, beforeVars, cumul, ready>>

AheadWithoutMoving(q, there) ==
  /\ Started
  /\ q > current_seq + 1 /\ Offset(q) < N
  /\ current_seq' = q
  /\ i' = i + 1 /\ inc' = inc + 1
  /\ buf' = [there EXCEPT ![Offset(q)] = q]
  /\ UNCHANGED <<seqstart_current, beforeVars, cumul, ready>>

AheadInBufferInclusive(q, there) ==
  /\ Started
  /\ q > current_seq + 1 /\ Offset(q) <= N
  /\ current_seq' = q
  /\ i' = i + (q - current_seq)
  /\ inc' = inc + 1
  /\ buf' = [there EXCEPT ![Offset(q)] = q]
  /\ UNCHANGED <<seqstart_current, beforeVars, cumul, ready>>

AheadCountingTheGap(q, there) ==
  /\ Started
  /\ q > current_seq + 1 /\ Offset(q) < N
  /\ current_seq' = q
  /\ i' = i + (q - current_seq)
  /\ inc' = inc + (q - current_seq)
  /\ buf' = [there EXCEPT ![Offset(q)] = q]
  /\ UNCHANGED <<seqstart_current, beforeVars, cumul, ready>>

AheadInBuffer(q, there) ==
  /\ Started
  /\ q > current_seq + 1 /\ Offset(q) < N
  /\ current_seq' = q
  /\ i' = i + (q - current_seq)
  /\ inc' = inc + 1
  /\ buf' = [there EXCEPT ![Offset(q)] = q]
  /\ UNCHANGED <<seqstart_current, beforeVars, cumul, ready>>

\* Beyond this buffer: jump to the next one, passing all the places in between.
AheadInNextBuffer(q, there) ==
  /\ Started
  /\ q > current_seq + 1 /\ Offset(q) \in N..(2 * N - 1)
  /\ JumpToNextBuf(there)
  /\ seqstart_current' = seqstart_current + N
  /\ current_seq' = q
  /\ i' = Offset(q) - N + 1
  /\ inc' = 1
  /\ buf' = [NoPackets EXCEPT ![Offset(q) - N] = q]

calc_bufpos_general(q, there) ==
  \/ FirstPacket(q, there) \/ InOrder(q, there) \/ Dropped(q, there)
  \/ LateForBufferBefore(q, there) \/ LateInBuffer(q, there)
  \/ AheadInBuffer(q, there) \/ AheadInNextBuffer(q, there)

Unnumbered(there) ==
  /\ i' = i + 1 /\ inc' = inc + 1
  /\ buf' = there
  /\ UNCHANGED <<current_seq, seqstart_current, beforeVars, cumul, ready>>

\* The network hands over any packet, one it never delivered before or one again;
\* without numbers a repeated packet is one more packet, so there each is new.
Delivers(q) ==
  /\ seen' = seen \cup {q}
  /\ repeated' = (repeated \/ q \in seen)

\* udp_receiver's loop for a packet of the right size; the assertion on inc
\* ends the process.
Receive(q) ==
  LET there == [buf EXCEPT ![i] = q] IN
  /\ status = "running" /\ i < N
  /\ Delivers(q)
  /\ \/ /\ numbered
        /\ first_packet' = IF first_packet = NoSeq THEN q ELSE first_packet
        /\ calc_bufpos_general(q, there)
        /\ status' = IF inc' <= N THEN "running" ELSE "aborted"
     \/ /\ ~numbered /\ q \notin seen
        /\ Unnumbered(there)
        /\ UNCHANGED <<first_packet, status>>
  /\ UNCHANGED <<n_packets, wrongsizeerrors, written, numbered>>

\* The buffer to jump to never came.
ReceiveWithoutBuffer(q) ==
  LET there == [buf EXCEPT ![i] = q] IN
  /\ status = "running" /\ i < N /\ numbered
  /\ Delivers(q)
  /\ Started /\ q > current_seq + 1 /\ Offset(q) \in N..(2 * N - 1)
  /\ NoBuffer(there)
  /\ UNCHANGED <<n_packets, first_packet, wrongsizeerrors, written, numbered>>

\* A packet before the second the recording starts in, or one that does not say when
\* it was sent, is left where the next one goes; one that says nonsense ends the loop.
WaitForStart(q) ==
  /\ status = "running" /\ i < N
  /\ WAIT_START_ON_METADATA /\ numbered /\ ~Started
  /\ Delivers(q)
  /\ buf' = [buf EXCEPT ![i] = q]
  /\ status' \in {"running", "error"}
  /\ UNCHANGED <<counters, beforeVars, fileVars, first_packet, wrongsizeerrors, numbered>>

\* A packet of another size is left where the next one goes.
ReceiveWrongSize ==
  /\ status = "running" /\ i < N
  /\ buf' = [buf EXCEPT ![i] = Empty]
  /\ wrongsizeerrors' = wrongsizeerrors + 1
  /\ status' = IF wrongsizeerrors' > WRONGSIZELIMITBEFOREEXIT THEN "error" ELSE "running"
  /\ UNCHANGED <<counters, beforeVars, fileVars, first_packet, numbered, network>>

EndForgettingBefore ==
  /\ status \in {"running", "error"}
  /\ status' = "ended"
  /\ ready' = ready \cup (IF inc > 0 THEN {File(cumul, buf)} ELSE {})
  /\ cumul' = IF inc > 0 THEN cumul + 1 ELSE cumul
  /\ n_packets' = IF inc > 0 THEN n_packets + i ELSE n_packets
  /\ before' = FALSE /\ inc_before' = 0 /\ buf_before' = NoPackets
  /\ UNCHANGED <<counters, buf, first_packet, wrongsizeerrors, written, numbered, network>>

\* The end of udp_receiver, once the session was stopped or an error ended the
\* loop: both buffers are written, an empty current one is given back instead.
End ==
  /\ status \in {"running", "error"}
  /\ status' = "ended"
  /\ ready' = ready \cup BeforeAsFile \cup (IF inc > 0 THEN {File(cumul, buf)} ELSE {})
  /\ cumul' = IF inc > 0 THEN cumul + 1 ELSE cumul
  /\ n_packets' = IF inc > 0 THEN n_packets + i ELSE n_packets
  /\ before' = FALSE /\ inc_before' = 0 /\ buf_before' = NoPackets
  /\ UNCHANGED <<counters, buf, first_packet, wrongsizeerrors, written, numbered, network>>

-----------------------------------------------------------------------------
(* The writer                                                                *)

\* The packet a place of a file is for, as header_match sees it by the numbers of UDPMON
\* and MARK5BNET.  For VDIF it compares nothing, for MARK5B all are the same.
Own(number, p) == first_packet + N * number + p

\* check_and_fill: of the places the file is said to have received, those
\* whose header is not the expected one get the fill pattern.
Filled(b) ==
  [p \in Places |->
     IF p < n_packets - N * b.id /\ b.places[p] # Own(b.id, p)
     THEN Filler ELSE b.places[p]]

WriteFile ==
  /\ status # "aborted"
  /\ \E b \in ready :
       /\ ready' = ready \ {b}
       /\ written' = written \cup {IF numbered THEN File(b.id, Filled(b)) ELSE b}
  /\ UNCHANGED <<counters, buf, beforeVars, cumul, n_packets, first_packet,
                 wrongsizeerrors, numbered, network, status>>

-----------------------------------------------------------------------------
Next ==
  \/ SwitchBuffer \/ SwitchUnnumbered
  \/ \E q \in Seqs : Receive(q) \/ ReceiveWithoutBuffer(q) \/ WaitForStart(q)
  \/ ReceiveWrongSize \/ End \/ WriteFile

Spec == Init /\ [][Next]_vars

-----------------------------------------------------------------------------
(* Properties                                                                *)

Numbering == numbered /\ Started

\* "i has to keep on running, so we always change the buffer at a correct
\* spot": the write position is always the one of the packet after the last,
\* inside the buffer, and file numbers and sequence numbers stay in step.
PositionFollowsSequence ==
  Numbering /\ status # "no_buffer" =>
    /\ i = current_seq - seqstart_current + 1
    /\ status # "ended" => seqstart_current = Own(cumul, 0)

\* The places of a buffer that hold the packet they are for.
InPlace(places, start) == {p \in Places : places[p] = start + p}

\* With no repeated packets, the byte counts that decide when a buffer is
\* written count exactly the packets that are at their place.
CountsPackets ==
  Numbering /\ ~repeated /\ status = "running" =>
    /\ inc = Cardinality(InPlace(buf, seqstart_current))
    /\ before => inc_before = Cardinality(InPlace(buf_before, seqstart_current - N))

\* ASSERT(*resq->inc <= CALC_BUFSIZE_FROM_OPT_NOOFFSET(opt)), that no more is
\* counted into a buffer than fits into it, fails with repeated packets only:
\* loss, reordering, gaps and packets of a wrong size alone never make it fail.
AssertNeedsRepeat == ~repeated => status # "aborted"

\* What recv writes at the next place, or a late packet is copied over, is never
\* a packet that was already put in its place.
StaysInPlace ==
  [][Numbering /\ seqstart_current' = seqstart_current /\ status' = "running" =>
       /\ InPlace(buf, seqstart_current) \subseteq InPlace(buf', seqstart_current)
       /\ before' => InPlace(buf_before, seqstart_current - N)
                       \subseteq InPlace(buf_before', seqstart_current - N)]_vars

\* A packet up to one buffer late, while that buffer is kept, or up to one
\* buffer ahead is never dropped: it is at its place in one of the two buffers,
\* or the buffer it completed is on its way to the disk.
WindowIsKept ==
  [][\A q \in Seqs :
       /\ Numbering /\ status = "running" /\ status' = "running"
       /\ q \in seen' \ seen
       /\ Offset(q) \in (IF before THEN -N ELSE 0)..(2 * N - 1)
       => \/ q - seqstart_current' \in InPlace(buf', seqstart_current')
          \/ q - seqstart_current' + N \in InPlace(buf_before', seqstart_current' - N)
          \/ \E b \in ready' : \E p \in Places : b.places[p] = q /\ Own(b.id, p) = q]_vars

\* Once the receiver ended, every file it counted was given to a writer.
AllFilesHandedOver ==
  status = "ended" =>
    \A f \in 0..(cumul - 1) : \E b \in ready \cup written : b.id = f

\* Every file goes to one writer once, under its own number.
HandedOverOnce ==
  \A b, c \in ready \cup written : b.id = c.id => b = c

=============================================================================
