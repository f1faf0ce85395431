------------------------- MODULE ResequencerProofs --------------------------
(***************************************************************************)
(* Theorems about Resequencer, for any buffer size, any set of sequence    *)
(* numbers and any loss, reordering and repetition of packets.             *)
(***************************************************************************)
EXTENDS Resequencer, FiniteSetTheorems, TLAPS

-----------------------------------------------------------------------------
(* The inductive invariant                                                   *)

\* What the first packet decides, and what there is before it.
Beginning ==
  /\ Started => /\ numbered
                /\ seqstart_current \in Int
                /\ first_packet \in Seqs
                /\ current_seq \in seen
  /\ numbered /\ ~Started => /\ i = 0 /\ inc = 0
                             /\ \A p \in Places : p # 0 => buf[p] = Empty
                             /\ ~before /\ cumul = 0
                             /\ first_packet = NoSeq
  /\ ~numbered => ~before
  /\ before => cumul >= 1

WindowInv == TypeOK /\ PositionFollowsSequence /\ Beginning

\* From the next place on nothing is in place: what is there was left by a
\* packet that went elsewhere or nowhere.
NothingAhead ==
  Numbering /\ status = "running" =>
    \A p \in Places : p >= i => buf[p] # seqstart_current + p

\* What the buffers hold came from the network.
HoldsSeen ==
  numbered => \A p \in Places : /\ buf[p] \in Seqs => buf[p] \in seen
                                /\ buf_before[p] \in Seqs => buf_before[p] \in seen

PlacesInv == NothingAhead /\ HoldsSeen /\ CountsPackets /\ AssertNeedsRepeat

\* A file has its number from the buffer it was, so the number of the buffer that
\* is kept and those not reached yet are nobody's.
NumbersAreOld ==
  \A b \in ready \cup written : b.id < cumul /\ (before => b.id # cumul - 1)

NotWrittenYet == \A b \in ready : \A c \in written : b.id # c.id

\* While the receiver goes on, only the file of the buffer kept is outstanding.
OnlyBeforeOutstanding ==
  status \in {"running", "error"} =>
    \A f \in 0..(cumul - 1) :
      (before /\ f = cumul - 1) \/ \E b \in ready \cup written : b.id = f

FilesInv ==
  /\ NumbersAreOld /\ NotWrittenYet /\ HandedOverOnce
  /\ OnlyBeforeOutstanding /\ AllFilesHandedOver

IInv == WindowInv /\ PlacesInv /\ FilesInv

-----------------------------------------------------------------------------
(* Types, and where the next packet goes                                     *)

\* The marks are no numbers, so a buffer that has no packets has none in place.
LEMMA Marks == NoSeq \notin Seqs /\ Empty \notin Seqs /\ Filler \notin Seqs
BY ConstantsAssumption

\* Moving on by a buffer moves on by a file.
LEMMA NextFileStart ==
  ASSUME NEW a \in Int, NEW c \in Nat
  PROVE  /\ a + N * (c + 1) + 0 = a + N * c + 0 + N
         /\ a + N * 0 + 0 = a
BY ConstantsAssumption

LEMMA OwnMoves ==
  ASSUME TypeOK, first_packet \in Int
  PROVE  /\ Own(cumul, 0) \in Int
         /\ Own(cumul + 1, 0) = Own(cumul, 0) + N
         /\ Own(0, 0) = first_packet
BY NextFileStart, ConstantsAssumption DEF TypeOK, Own

\* A buffer without packets, and one with another packet, are buffers.
LEMMA BufferTypes ==
  /\ NoPackets \in Contents
  /\ \A b \in Contents, p \in Places, x \in Seqs \cup {Empty} : [b EXCEPT ![p] = x] \in Contents
BY DEF NoPackets, Contents, Places

LEMMA FileTypes ==
  ASSUME NEW n \in Nat, NEW b \in Contents
  PROVE  File(n, b) \in Files
BY DEF File, Files

\* The buffer kept is a file, if there is one.
LEMMA BeforeType ==
  ASSUME WindowInv
  PROVE  /\ BeforeAsFile \in SUBSET Files
         /\ before => cumul - 1 \in Nat
<1>1. before => cumul - 1 \in Nat
  BY DEF WindowInv, TypeOK, Beginning
<1> QED BY <1>1, FileTypes DEF BeforeAsFile, WindowInv, TypeOK

\* JumpToNextBuf keeps types, whatever came at the next place.
LEMMA JumpTypes ==
  ASSUME WindowInv, NEW there \in Contents, JumpToNextBuf(there)
  PROVE  /\ cumul' \in Nat /\ cumul' >= 1
         /\ before' \in BOOLEAN /\ inc_before' \in Nat /\ buf_before' \in Contents
         /\ ready' \in SUBSET Files
<1>1. inc \in Nat /\ cumul \in Nat /\ ready \in SUBSET Files
  BY DEF WindowInv, TypeOK
<1>2. (IF inc = N THEN {File(cumul, there)} ELSE {}) \in SUBSET Files
  BY <1>1, FileTypes
<1>3. ready' \in SUBSET Files
  BY <1>1, <1>2, BeforeType DEF JumpToNextBuf
<1> QED BY <1>1, <1>3, BufferTypes DEF JumpToNextBuf

LEMMA WindowInit == Init => WindowInv
<1> SUFFICES ASSUME Init PROVE WindowInv
  OBVIOUS
<1>1. TypeOK
  <2>1. 0 \in 0..N /\ 0 \in Nat
    BY ConstantsAssumption
  <2> QED BY <2>1, BufferTypes, Zenon DEF Init, TypeOK
<1>2. ~Started
  BY DEF Init, Started
<1> QED BY <1>1, <1>2 DEF Init, WindowInv, PositionFollowsSequence, Numbering, Beginning, NoPackets

LEMMA WindowUnchanged == WindowInv /\ UNCHANGED vars => WindowInv'
BY DEF WindowInv, TypeOK, PositionFollowsSequence, Numbering, Started, Beginning, Own, vars,
       counters, beforeVars, fileVars, network

LEMMA WindowSwitchBuffer == WindowInv /\ SwitchBuffer => WindowInv'
<1> SUFFICES ASSUME WindowInv, SwitchBuffer PROVE WindowInv'
  OBVIOUS
<1> USE ConstantsAssumption, Marks, BufferTypes DEF WindowInv
<1>1. /\ Started /\ seqstart_current = Own(cumul, 0) /\ i = current_seq - seqstart_current + 1
      /\ seqstart_current \in Int /\ current_seq \in Int /\ first_packet \in Int
  BY DEF SwitchBuffer, TypeOK, Beginning, PositionFollowsSequence, Numbering, Started
<1>2. JumpToNextBuf(buf)
  BY DEF SwitchBuffer, NoBuffer
<1>3. buf \in Contents
  BY DEF TypeOK
<1>4. TypeOK'
  BY <1>1, <1>2, <1>3, JumpTypes DEF SwitchBuffer, NoBuffer, TypeOK, network
<1>5. PositionFollowsSequence'
  BY <1>1, <1>2, OwnMoves
     DEF SwitchBuffer, NoBuffer, JumpToNextBuf, TypeOK, PositionFollowsSequence, Numbering, Started, Own
<1>6. Beginning'
  BY <1>1, <1>2, <1>3, JumpTypes
     DEF SwitchBuffer, NoBuffer, TypeOK, Beginning, Started, network
<1> QED BY <1>4, <1>5, <1>6

LEMMA WindowSwitchUnnumbered == WindowInv /\ SwitchUnnumbered => WindowInv'
<1> SUFFICES ASSUME WindowInv, SwitchUnnumbered PROVE WindowInv'
  OBVIOUS
<1> USE ConstantsAssumption, Marks, BufferTypes DEF WindowInv
<1>1. File(cumul, buf) \in Files
  BY FileTypes DEF TypeOK
<1>2. TypeOK'
  BY <1>1 DEF SwitchUnnumbered, TypeOK, network, beforeVars
<1>3. ~numbered' /\ ~Started' /\ ~before'
  <2>1. ~numbered /\ ~Started /\ ~before
    BY Zenon DEF SwitchUnnumbered, Beginning
  <2>2. numbered' = numbered /\ current_seq' = current_seq /\ before' = before
    BY DEF SwitchUnnumbered, beforeVars
  <2> QED BY <2>1, <2>2, Zenon DEF Started
<1>4. Beginning'
  BY <1>3, Zenon DEF Beginning
<1>5. PositionFollowsSequence'
  BY <1>3, Zenon DEF PositionFollowsSequence, Numbering
<1> QED BY <1>2, <1>4, <1>5

LEMMA WindowWrongSize == WindowInv /\ ReceiveWrongSize => WindowInv'
<1> SUFFICES ASSUME WindowInv, ReceiveWrongSize PROVE WindowInv'
  OBVIOUS
<1> USE ConstantsAssumption, Marks, BufferTypes DEF WindowInv
<1>1. i \in Places
  BY DEF ReceiveWrongSize, TypeOK, Places
<1>2. TypeOK'
  <2>1. buf' \in Contents
    BY <1>1 DEF ReceiveWrongSize, TypeOK
  <2>2. /\ wrongsizeerrors' \in Nat
        /\ status' \in {"running", "ended", "no_buffer", "error", "aborted"}
    BY DEF ReceiveWrongSize, TypeOK
  <2>3. UNCHANGED <<counters, beforeVars, fileVars, first_packet, numbered, network>>
    BY DEF ReceiveWrongSize
  <2> QED BY <2>1, <2>2, <2>3 DEF TypeOK, counters, beforeVars, fileVars, network
<1>3. \A p \in Places : buf[p] = Empty => buf'[p] = Empty
  BY <1>1 DEF ReceiveWrongSize, TypeOK, Contents
<1>4. PositionFollowsSequence'
  BY DEF ReceiveWrongSize, PositionFollowsSequence, Numbering, Started, Own, TypeOK,
         counters, fileVars
<1>5. Beginning'
  <2>1. CASE Started
    BY <2>1 DEF ReceiveWrongSize, Started, Beginning, counters, beforeVars, fileVars, network
  <2>2. CASE ~Started
    <3>1. /\ ~Started'
          /\ i' = i /\ inc' = inc /\ cumul' = cumul /\ first_packet' = first_packet
          /\ numbered' = numbered /\ before' = before
      BY <2>2 DEF ReceiveWrongSize, Started, counters, beforeVars, fileVars
    <3> QED BY <1>3, <2>2, <3>1, Zenon DEF Beginning
  <2> QED BY <2>1, <2>2
<1> QED BY <1>2, <1>4, <1>5

LEMMA WindowWaits ==
  ASSUME WindowInv, NEW q \in Seqs, WaitForStart(q)
  PROVE  WindowInv'
<1> USE ConstantsAssumption, Marks, BufferTypes DEF WindowInv
<1>1. i \in Places /\ 0 \in Places
  BY DEF WaitForStart, TypeOK, Places
<1>2. TypeOK'
  <2>1. buf' \in Contents
    BY <1>1 DEF WaitForStart, TypeOK, Contents
  <2>2. /\ status' \in {"running", "ended", "no_buffer", "error", "aborted"}
        /\ seen' \in SUBSET Seqs /\ repeated' \in BOOLEAN
    BY DEF WaitForStart, Delivers, TypeOK
  <2>3. UNCHANGED <<counters, beforeVars, fileVars, first_packet, wrongsizeerrors, numbered>>
    BY DEF WaitForStart
  <2> QED BY <2>1, <2>2, <2>3 DEF TypeOK, counters, beforeVars, fileVars
<1>3. /\ ~Started /\ ~Started' /\ numbered /\ numbered'
      /\ i = 0 /\ i' = 0 /\ inc' = inc /\ cumul' = cumul /\ first_packet' = first_packet
      /\ before' = before
  BY DEF WaitForStart, Beginning, Started, counters, beforeVars, fileVars
<1>4. \A p \in Places : p # 0 => buf'[p] = buf[p]
  BY <1>1, <1>3 DEF WaitForStart, TypeOK, Contents
<1>5. Beginning'
  BY <1>3, <1>4, Zenon DEF Beginning
<1>6. PositionFollowsSequence'
  BY <1>3 DEF PositionFollowsSequence, Numbering
<1> QED BY <1>2, <1>5, <1>6

LEMMA WindowEnd == WindowInv /\ End => WindowInv'
<1> SUFFICES ASSUME WindowInv, End PROVE WindowInv'
  OBVIOUS
<1> USE ConstantsAssumption, Marks, BufferTypes DEF WindowInv
<1>1. (IF inc > 0 THEN {File(cumul, buf)} ELSE {}) \in SUBSET Files
  BY FileTypes DEF TypeOK
<1>2. ready' \in SUBSET Files
  BY <1>1, BeforeType DEF End, TypeOK
<1>3. n_packets' \in Nat /\ cumul' \in Nat
  BY DEF End, TypeOK
<1>4. TypeOK'
  BY <1>2, <1>3 DEF End, TypeOK, counters, network
<1> QED BY <1>4 DEF End, PositionFollowsSequence, Numbering, Started, Beginning, TypeOK,
                    counters, network

LEMMA WindowWriteFile == WindowInv /\ WriteFile => WindowInv'
<1> SUFFICES ASSUME WindowInv, NEW b \in ready,
                    ready' = ready \ {b},
                    written' = written \cup {IF numbered THEN File(b.id, Filled(b)) ELSE b},
                    UNCHANGED <<counters, buf, beforeVars, cumul, n_packets, first_packet,
                                wrongsizeerrors, numbered, network, status>>
             PROVE  WindowInv'
  BY DEF WriteFile
<1> USE DEF WindowInv
<1>1. b \in Files
  BY DEF TypeOK
<1>2. Filled(b) \in Contents
  BY <1>1 DEF Filled, Files, Contents
<1>3. File(b.id, Filled(b)) \in Files
  BY <1>1, <1>2, FileTypes DEF Files
<1>4. TypeOK'
  BY <1>1, <1>3 DEF TypeOK, counters, beforeVars, network
<1> QED BY <1>4 DEF PositionFollowsSequence, Numbering, Started, Own, Beginning,
                    counters, beforeVars, network

\* What every step of a numbered packet's way has: what was known of the
\* positions before it.
LEMMA Numbers ==
  ASSUME WindowInv, NEW q \in Seqs
  PROVE  /\ q \in Int /\ N \in Nat /\ N > 0
         /\ i \in Int /\ i >= 0 /\ i <= N /\ inc \in Nat /\ cumul \in Nat
         /\ Started => /\ current_seq \in Int /\ current_seq \in Seqs
                       /\ seqstart_current \in Int
                       /\ first_packet \in Seqs /\ first_packet \in Int
                       /\ Offset(q) \in Int
                       /\ Offset(q) = q - seqstart_current
                       /\ status = "running" =>
                            /\ i = current_seq - seqstart_current + 1
                            /\ seqstart_current = Own(cumul, 0)
         /\ before => Started
BY ConstantsAssumption, Marks
   DEF WindowInv, TypeOK, Beginning, PositionFollowsSequence, Numbering, Started, Offset

LEMMA WindowReceiveWithoutBuffer ==
  ASSUME WindowInv, NEW q \in Seqs, ReceiveWithoutBuffer(q)
  PROVE  WindowInv'
<1> DEFINE there == [buf EXCEPT ![i] = q]
<1>1. there \in Contents
  BY BufferTypes, ConstantsAssumption DEF ReceiveWithoutBuffer, WindowInv, TypeOK, Places
<1>2. JumpToNextBuf(there) /\ status' = "no_buffer" /\ Started
  BY DEF ReceiveWithoutBuffer, NoBuffer
<1>3. /\ i' = 0 /\ inc' = 0 /\ buf' = NoPackets
      /\ UNCHANGED <<current_seq, seqstart_current>>
  BY DEF ReceiveWithoutBuffer, NoBuffer
<1>4. UNCHANGED <<n_packets, first_packet, wrongsizeerrors, written, numbered>>
  BY DEF ReceiveWithoutBuffer
<1>5. /\ seen' \in SUBSET Seqs /\ seen \subseteq seen'
      /\ repeated' \in BOOLEAN
  BY DEF ReceiveWithoutBuffer, Delivers, WindowInv, TypeOK
<1> HIDE DEF there
<1>6. TypeOK'
  BY <1>1, <1>2, <1>3, <1>4, <1>5, JumpTypes, BufferTypes, ConstantsAssumption DEF WindowInv, TypeOK
<1>7. Beginning'
  BY <1>1, <1>2, <1>3, <1>4, <1>5, JumpTypes DEF WindowInv, Beginning, Started, TypeOK
<1> QED BY <1>2, <1>6, <1>7 DEF WindowInv, PositionFollowsSequence

\* Every answer of calc_bufpos_general leaves the next place right after the last
\* packet, in a buffer that starts where its number says.
LEMMA PositionMoves ==
  ASSUME WindowInv, NEW q \in Seqs, NEW there \in Contents, status = "running", i < N, numbered,
         first_packet' = (IF first_packet = NoSeq THEN q ELSE first_packet),
         calc_bufpos_general(q, there)
  PROVE  /\ current_seq' \in Seqs /\ current_seq' \in {current_seq, q}
         /\ ~Started => current_seq' = q
         /\ seqstart_current' \in Int
         /\ first_packet' \in Seqs
         /\ i' \in 0..N /\ inc' \in Nat /\ buf' \in Contents
         /\ i' = current_seq' - seqstart_current' + 1
         /\ seqstart_current' = first_packet' + N * cumul' + 0
<1> USE Numbers
<1>1. Started => first_packet' = first_packet
  BY Marks
<1>2. ASSUME FirstPacket(q, there) PROVE seqstart_current' = first_packet' + N * cumul' + 0
  BY <1>2, NextFileStart DEF FirstPacket, WindowInv, Beginning
<1>3. CASE FirstPacket(q, there)
  BY <1>2, <1>3 DEF FirstPacket, WindowInv, Beginning
<1>4. CASE InOrder(q, there)
  BY <1>1, <1>4 DEF InOrder, Own
<1>5. CASE Dropped(q, there)
  BY <1>1, <1>5 DEF Dropped, Own, counters
<1>6. CASE LateForBufferBefore(q, there)
  BY <1>1, <1>6 DEF LateForBufferBefore, Own, counters
<1>7. CASE LateInBuffer(q, there)
  <2>1. Offset(q) \in Places
    BY <1>7 DEF LateInBuffer, Places
  <2>2. buf' \in Contents
    BY <1>7, <2>1, BufferTypes DEF LateInBuffer
  <2> QED BY <1>1, <1>7, <2>2 DEF LateInBuffer, Own
<1>8. CASE AheadInBuffer(q, there)
  <2>1. Offset(q) \in Places
    BY <1>8 DEF AheadInBuffer, Places
  <2>2. buf' \in Contents
    BY <1>8, <2>1, BufferTypes DEF AheadInBuffer
  <2> QED BY <1>1, <1>8, <2>2 DEF AheadInBuffer, Own
<1>9. CASE AheadInNextBuffer(q, there)
  <2>1. Offset(q) - N \in Places
    BY <1>9 DEF AheadInNextBuffer, Places
  <2>2. cumul' = cumul + 1
    BY <1>9 DEF AheadInNextBuffer, JumpToNextBuf
  <2>3. seqstart_current' = first_packet' + N * cumul' + 0
    <3>1. first_packet + N * (cumul + 1) + 0 = first_packet + N * cumul + 0 + N
      BY <1>9, NextFileStart DEF AheadInNextBuffer
    <3> QED BY <1>1, <1>9, <2>2, <3>1 DEF AheadInNextBuffer, Own
  <2>4. buf' \in Contents
    BY <1>9, <2>1, BufferTypes DEF AheadInNextBuffer
  <2> QED BY <1>1, <1>9, <2>3, <2>4 DEF AheadInNextBuffer
<1> QED BY <1>3, <1>4, <1>5, <1>6, <1>7, <1>8, <1>9 DEF calc_bufpos_general

\* What it does to the buffer that is kept.
LEMMA BeforeMoves ==
  ASSUME WindowInv, NEW q \in Seqs, NEW there \in Contents, calc_bufpos_general(q, there)
  PROVE  /\ before' \in BOOLEAN /\ inc_before' \in Nat /\ buf_before' \in Contents
         /\ cumul' \in Nat /\ ready' \in SUBSET Files
         /\ before' => cumul' >= 1
<1>1. CASE UNCHANGED <<beforeVars, cumul, ready>>
  BY <1>1 DEF WindowInv, TypeOK, Beginning, beforeVars
<1>2. CASE LateForBufferBefore(q, there)
  <2> DEFINE places == [buf_before EXCEPT ![N + Offset(q)] = q]
  <2>1. N + Offset(q) \in Places
    BY <1>2, Numbers DEF LateForBufferBefore, Places
  <2>2. places \in Contents
    BY <2>1, BufferTypes DEF WindowInv, TypeOK
  <2>3. before /\ cumul' = cumul
    BY <1>2 DEF LateForBufferBefore
  <2>4. File(cumul - 1, places) \in Files
    BY <2>2, <2>3, BeforeType, FileTypes
  <2>5. \/ before' = before /\ inc_before' = inc_before + 1 /\ buf_before' = places /\ ready' = ready
        \/ /\ ready' = ready \cup {File(cumul - 1, places)}
           /\ before' = FALSE /\ inc_before' = 0 /\ buf_before' = NoPackets
    BY <1>2 DEF LateForBufferBefore
  <2> HIDE DEF places
  <2>6. /\ cumul \in Nat /\ cumul >= 1 /\ before \in BOOLEAN /\ inc_before \in Nat
        /\ ready \in SUBSET Files
    BY <2>3 DEF WindowInv, TypeOK, Beginning
  <2>7. CASE before' = before /\ inc_before' = inc_before + 1 /\ buf_before' = places /\ ready' = ready
    BY <2>2, <2>3, <2>6, <2>7
  <2>8. CASE /\ ready' = ready \cup {File(cumul - 1, places)}
             /\ before' = FALSE /\ inc_before' = 0 /\ buf_before' = NoPackets
    BY <2>3, <2>4, <2>6, <2>8, BufferTypes
  <2> QED BY <2>5, <2>7, <2>8
<1>3. CASE JumpToNextBuf(there)
  BY <1>3, JumpTypes
<1> QED BY <1>1, <1>2, <1>3
        DEF calc_bufpos_general, FirstPacket, InOrder, Dropped, LateInBuffer, AheadInBuffer,
            AheadInNextBuffer

LEMMA WindowReceive ==
  ASSUME WindowInv, NEW q \in Seqs, Receive(q)
  PROVE  WindowInv'
<1> DEFINE there == [buf EXCEPT ![i] = q]
<1>1. there \in Contents
  BY BufferTypes, ConstantsAssumption DEF Receive, WindowInv, TypeOK, Places
<1>2. /\ seen' \in SUBSET Seqs /\ seen \subseteq seen' /\ q \in seen'
      /\ repeated' \in BOOLEAN
  BY DEF Receive, Delivers, WindowInv, TypeOK
<1>3. /\ status = "running" /\ i < N
      /\ UNCHANGED <<n_packets, wrongsizeerrors, written, numbered>>
  BY DEF Receive
<1>4. CASE numbered
  <2>1. /\ calc_bufpos_general(q, there)
        /\ first_packet' = (IF first_packet = NoSeq THEN q ELSE first_packet)
        /\ status' \in {"running", "aborted"}
    BY <1>4 DEF Receive
  <2> HIDE DEF there
  <2>2. TypeOK'
    BY <1>1, <1>2, <1>3, <1>4, <2>1, PositionMoves, BeforeMoves DEF WindowInv, TypeOK
  <2>3. Started'
    BY <1>1, <1>3, <1>4, <2>1, PositionMoves, Marks DEF Started
  <2>4. current_seq' \in seen'
    BY <1>1, <1>2, <1>3, <1>4, <2>1, PositionMoves DEF WindowInv, Beginning, Started
  <2>5. Beginning'
    BY <1>1, <1>2, <1>3, <1>4, <2>1, <2>3, <2>4, PositionMoves, BeforeMoves DEF Beginning
  <2>6. PositionFollowsSequence'
    BY <1>1, <1>3, <1>4, <2>1, PositionMoves DEF PositionFollowsSequence, Own
  <2> QED BY <2>2, <2>5, <2>6 DEF WindowInv
<1>5. CASE ~numbered
  <2>1. /\ i' = i + 1 /\ inc' = inc + 1 /\ buf' = there
        /\ UNCHANGED <<current_seq, seqstart_current, beforeVars, cumul, ready, first_packet, status>>
    BY <1>5 DEF Receive, Unnumbered
  <2> HIDE DEF there
  <2>2. TypeOK'
    BY <1>1, <1>2, <1>3, <2>1, ConstantsAssumption DEF WindowInv, TypeOK, beforeVars
  <2>3. ~numbered' /\ ~Started' /\ ~before'
    BY <1>3, <1>5, <2>1 DEF WindowInv, Beginning, Started, beforeVars
  <2>4. Beginning'
    BY <2>3, Zenon DEF Beginning
  <2>5. PositionFollowsSequence'
    BY <2>3, Zenon DEF PositionFollowsSequence, Numbering
  <2> QED BY <2>2, <2>4, <2>5 DEF WindowInv
<1> QED BY <1>4, <1>5

LEMMA WindowStep == WindowInv /\ [Next]_vars => WindowInv'
<1> SUFFICES ASSUME WindowInv, [Next]_vars PROVE WindowInv'
  OBVIOUS
<1> QED BY WindowUnchanged, WindowSwitchBuffer, WindowSwitchUnnumbered, WindowReceive,
           WindowReceiveWithoutBuffer, WindowWaits, WindowWrongSize, WindowEnd, WindowWriteFile
        DEF Next

-----------------------------------------------------------------------------
(* Which packets are in place                                                *)

LEMMA InPlaceCounts ==
  ASSUME NEW b, NEW s
  PROVE  /\ IsFiniteSet(InPlace(b, s))
         /\ Cardinality(InPlace(b, s)) \in Nat
         /\ Cardinality(InPlace(b, s)) <= N
<1>1. IsFiniteSet(Places) /\ Cardinality(Places) = N
  BY FS_Interval, ConstantsAssumption DEF Places
<1>2. InPlace(b, s) \subseteq Places
  BY DEF InPlace
<1>3. IsFiniteSet(InPlace(b, s)) /\ Cardinality(InPlace(b, s)) <= N
  BY <1>1, <1>2, FS_Subset
<1> QED BY <1>3, FS_CardinalityType

LEMMA NothingInPlace ==
  ASSUME NEW s \in Int
  PROVE  InPlace(NoPackets, s) = {}
BY ConstantsAssumption DEF InPlace, NoPackets, Places

\* A packet put where it belongs, over whatever was there.
LEMMA PutInPlace ==
  ASSUME NEW b, NEW c, NEW s \in Int, NEW p \in Places,
         \A r \in Places : c[r] = IF r = p THEN s + p ELSE b[r]
  PROVE  InPlace(c, s) = InPlace(b, s) \cup {p}
BY DEF InPlace

LEMMA PutOnePacket ==
  ASSUME NEW c, NEW s \in Int, NEW p \in Places,
         \A r \in Places : c[r] = IF r = p THEN s + p ELSE Empty
  PROVE  InPlace(c, s) = {p}
BY ConstantsAssumption DEF InPlace, Places

\* Anything else at a place where nothing was in place.
LEMMA PutElsewhere ==
  ASSUME NEW b, NEW c, NEW s \in Int, NEW p \in Places, NEW x,
         \A r \in Places : c[r] = IF r = p THEN x ELSE b[r],
         p \notin InPlace(b, s), x # s + p
  PROVE  InPlace(c, s) = InPlace(b, s)
BY DEF InPlace

LEMMA CountOneMore ==
  ASSUME NEW b, NEW s, NEW c, NEW r, NEW p, InPlace(c, r) = InPlace(b, s) \cup {p},
         p \notin InPlace(b, s)
  PROVE  Cardinality(InPlace(c, r)) = Cardinality(InPlace(b, s)) + 1
BY InPlaceCounts, FS_AddElement

\* A place whose packet was never seen is not taken by it.
LEMMA UnseenNotInPlace ==
  ASSUME HoldsSeen, numbered, NEW q \in Seqs, q \notin seen, NEW s \in Int, NEW p \in Places,
         q = s + p
  PROVE  p \notin InPlace(buf, s) /\ p \notin InPlace(buf_before, s)
BY DEF HoldsSeen, InPlace

\* The five things that can become of packet q.
BeginsBuffer(q) ==
  /\ ~Started /\ seqstart_current' = q
  /\ InPlace(buf', seqstart_current') = {0}
  /\ inc' = 1 /\ ~before'

JoinsBuffer(q) ==
  /\ Started /\ seqstart_current' = seqstart_current
  /\ Offset(q) \in Places
  /\ InPlace(buf', seqstart_current) = InPlace(buf, seqstart_current) \cup {Offset(q)}
  /\ inc' = inc + 1
  /\ UNCHANGED beforeVars

LeavesBuffers ==
  /\ Started /\ seqstart_current' = seqstart_current
  /\ InPlace(buf', seqstart_current) = InPlace(buf, seqstart_current)
  /\ inc' = inc
  /\ UNCHANGED beforeVars

JoinsBefore(q) ==
  /\ Started /\ seqstart_current' = seqstart_current
  /\ InPlace(buf', seqstart_current) = InPlace(buf, seqstart_current)
  /\ inc' = inc
  /\ before /\ N + Offset(q) \in Places
  /\ before' => /\ inc_before' = inc_before + 1
                /\ InPlace(buf_before', seqstart_current - N) =
                     InPlace(buf_before, seqstart_current - N) \cup {N + Offset(q)}

BeginsNextBuffer(q) ==
  /\ Started /\ seqstart_current' = seqstart_current + N
  /\ Offset(q) - N \in Places
  /\ InPlace(buf', seqstart_current') = {Offset(q) - N}
  /\ inc' = 1
  /\ before' => /\ inc_before' = inc
                /\ InPlace(buf_before', seqstart_current) = InPlace(buf, seqstart_current)

\* These five are all there is, and none puts anything in place from the next place on.
LEMMA PlacesMove ==
  ASSUME WindowInv, NothingAhead, NEW q \in Seqs, status = "running", i < N, numbered,
         calc_bufpos_general(q, [buf EXCEPT ![i] = q])
  PROVE  /\ \/ BeginsBuffer(q) \/ JoinsBuffer(q) \/ LeavesBuffers
            \/ JoinsBefore(q) \/ BeginsNextBuffer(q)
         /\ \A p \in Places : p >= i' => buf'[p] # seqstart_current' + p
<1> DEFINE there == [buf EXCEPT ![i] = q]
           s == seqstart_current
<1>0. /\ q \in Int /\ N \in Nat /\ N > 0
      /\ i \in Int /\ i >= 0 /\ i <= N /\ inc \in Nat
      /\ Started => /\ current_seq \in Int /\ s \in Int
                    /\ Offset(q) \in Int /\ Offset(q) = q - s
                    /\ i = current_seq - s + 1
  BY Numbers
<1> USE <1>0
<1>1. i \in Places /\ buf \in Contents /\ buf_before \in Contents /\ there \in Contents
  BY BufferTypes, ConstantsAssumption DEF WindowInv, TypeOK, Places
<1>2. /\ \A p \in Places : there[p] = IF p = i THEN q ELSE buf[p]
      /\ \A x \in Places, r \in Places :
           /\ [there EXCEPT ![x] = q][r] = IF r = x THEN q ELSE there[r]
           /\ [buf_before EXCEPT ![x] = q][r] = IF r = x THEN q ELSE buf_before[r]
           /\ [NoPackets EXCEPT ![x] = q][r] = IF r = x THEN q ELSE Empty
  BY <1>1 DEF Contents, NoPackets
<1>3. Started => \A p \in Places : p >= i => buf[p] # s + p
  BY DEF NothingAhead, Numbering
<1>t. there = [buf EXCEPT ![i] = q]
  OBVIOUS
<1> HIDE DEF there
<1>4. ASSUME Started, Offset(q) # i PROVE InPlace(there, s) = InPlace(buf, s)
  <2>1. i \notin InPlace(buf, s)
    BY <1>1, <1>3, <1>4 DEF InPlace
  <2>2. s \in Int /\ q # s + i
    BY <1>4
  <2>3. \A r \in Places : there[r] = IF r = i THEN q ELSE buf[r]
    BY <1>2
  <2> HIDE <1>0
  <2> QED BY <1>1, <2>1, <2>2, <2>3, PutElsewhere
<1>5. CASE FirstPacket(q, there)
  <2>1. /\ i = 0 /\ inc = 0 /\ ~before
        /\ \A p \in Places : p # 0 => buf[p] = Empty
    BY <1>5 DEF FirstPacket, WindowInv, Beginning
  <2>2. \A r \in Places : there[r] = IF r = 0 THEN q + 0 ELSE Empty
    BY <1>2, <2>1
  <2>3. InPlace(there, q) = {0}
    BY <1>1, <2>1, <2>2, PutOnePacket
  <2>4. \A p \in Places : p >= 1 => there[p] # q + p
    BY <2>2, ConstantsAssumption DEF Places
  <2> QED BY <1>5, <2>1, <2>3, <2>4 DEF FirstPacket, BeginsBuffer, beforeVars
<1>6. CASE InOrder(q, there)
  <2>1. Offset(q) = i /\ q = s + i
    BY <1>6 DEF InOrder
  <2>2. InPlace(there, s) = InPlace(buf, s) \cup {i}
    BY <1>1, <1>2, <1>6, <2>1, PutInPlace DEF InOrder
  <2>3. \A p \in Places : p >= i + 1 => there[p] # s + p
    BY <1>2, <1>3, <1>6 DEF InOrder, Places
  <2> QED BY <1>1, <1>6, <2>1, <2>2, <2>3 DEF InOrder, JoinsBuffer
<1>7. CASE Dropped(q, there)
  <2>1. Offset(q) # i
    BY <1>7 DEF Dropped
  <2>2. \A p \in Places : p >= i => there[p] # s + p
    BY <1>2, <1>3, <1>7, <2>1 DEF Dropped, Places
  <2> QED BY <1>4, <1>7, <2>1, <2>2 DEF Dropped, LeavesBuffers, counters
<1>8. CASE LateForBufferBefore(q, there)
  <2>1. Offset(q) # i /\ N + Offset(q) \in Places /\ q = (s - N) + (N + Offset(q)) /\ s - N \in Int
    BY <1>8 DEF LateForBufferBefore, Places
  <2>2. \A p \in Places : p >= i => there[p] # s + p
    BY <1>2, <1>3, <1>8, <2>1 DEF LateForBufferBefore, Places
  <2>3. InPlace([buf_before EXCEPT ![N + Offset(q)] = q], s - N) =
          InPlace(buf_before, s - N) \cup {N + Offset(q)}
    <3> DEFINE places == [buf_before EXCEPT ![N + Offset(q)] = q]
    <3>1. \A r \in Places : places[r] = IF r = N + Offset(q) THEN (s - N) + (N + Offset(q))
                                                             ELSE buf_before[r]
      BY <1>2, <2>1
    <3> HIDE DEF places
    <3>2. InPlace(places, s - N) = InPlace(buf_before, s - N) \cup {N + Offset(q)}
      BY <2>1, <3>1, PutInPlace
    <3> QED BY <3>2 DEF places
  <2> QED BY <1>4, <1>8, <2>1, <2>2, <2>3 DEF LateForBufferBefore, JoinsBefore, counters
<1>9. CASE LateInBuffer(q, there)
  <2>1. Offset(q) \in Places /\ Offset(q) < i /\ q = s + Offset(q)
    BY <1>9 DEF LateInBuffer, Places
  <2>2. InPlace(buf', s) = InPlace(buf, s) \cup {Offset(q)}
    <3>1. \A r \in Places : buf'[r] = IF r = Offset(q) THEN s + Offset(q) ELSE there[r]
      BY <1>2, <1>9, <2>1 DEF LateInBuffer
    <3>2. Started /\ s \in Int /\ Offset(q) # i
      BY <1>9, <2>1 DEF LateInBuffer
    <3>3. InPlace(there, s) = InPlace(buf, s)
      BY <1>4, <3>2
    <3> HIDE <1>0
    <3>4. InPlace(buf', s) = InPlace(there, s) \cup {Offset(q)}
      BY <2>1, <3>1, <3>2, PutInPlace
    <3> QED BY <3>3, <3>4
  <2>3. \A p \in Places : p >= i => buf'[p] # s + p
    BY <1>2, <1>3, <1>9, <2>1 DEF LateInBuffer, Places
  <2> QED BY <1>9, <2>1, <2>2, <2>3 DEF LateInBuffer, JoinsBuffer
<1>10. CASE AheadInBuffer(q, there)
  <2>1. Offset(q) \in Places /\ Offset(q) > i /\ q = s + Offset(q) /\ i' = Offset(q) + 1
    BY <1>10 DEF AheadInBuffer, Places
  <2>2. InPlace(buf', s) = InPlace(buf, s) \cup {Offset(q)}
    <3>1. \A r \in Places : buf'[r] = IF r = Offset(q) THEN s + Offset(q) ELSE there[r]
      BY <1>2, <1>10, <2>1 DEF AheadInBuffer
    <3>2. Started /\ s \in Int /\ Offset(q) # i
      BY <1>10, <2>1 DEF AheadInBuffer
    <3>3. InPlace(there, s) = InPlace(buf, s)
      BY <1>4, <3>2
    <3> HIDE <1>0
    <3>4. InPlace(buf', s) = InPlace(there, s) \cup {Offset(q)}
      BY <2>1, <3>1, <3>2, PutInPlace
    <3> QED BY <3>3, <3>4
  <2>3. \A p \in Places : p >= i' => buf'[p] # s + p
    BY <1>2, <1>3, <1>10, <2>1 DEF AheadInBuffer, Places
  <2> QED BY <1>10, <2>1, <2>2, <2>3 DEF AheadInBuffer, JoinsBuffer
<1>11. CASE AheadInNextBuffer(q, there)
  <2>1. /\ Offset(q) - N \in Places /\ Offset(q) # i
        /\ s + N \in Int /\ q = (s + N) + (Offset(q) - N)
        /\ i' = Offset(q) - N + 1
    BY <1>11 DEF AheadInNextBuffer, Places
  <2>2. InPlace(buf', s + N) = {Offset(q) - N}
    <3>1. \A r \in Places : buf'[r] = IF r = Offset(q) - N THEN (s + N) + (Offset(q) - N) ELSE Empty
      BY <1>2, <1>11, <2>1 DEF AheadInNextBuffer
    <3> QED BY <2>1, <3>1, PutOnePacket
  <2>3. \A p \in Places : p >= i' => buf'[p] # (s + N) + p
    <3>1. \A p \in Places : p # Offset(q) - N => p \notin InPlace(buf', s + N)
      BY <2>2
    <3> QED BY <2>1, <3>1 DEF InPlace, Places
  <2>4. before' => inc_before' = inc /\ buf_before' = there
    BY <1>11 DEF AheadInNextBuffer, JumpToNextBuf
  <2> QED BY <1>4, <1>11, <2>1, <2>2, <2>3, <2>4 DEF AheadInNextBuffer, BeginsNextBuffer
<1> QED BY <1>5, <1>6, <1>7, <1>8, <1>9, <1>10, <1>11, <1>t DEF calc_bufpos_general

\* Nothing is written into a buffer but what the network delivered.
LEMMA HoldsSeenMoves ==
  ASSUME WindowInv, HoldsSeen, numbered, status = "running", NEW q \in Seqs, i < N,
         calc_bufpos_general(q, [buf EXCEPT ![i] = q]),
         q \in seen', seen \subseteq seen'
  PROVE  HoldsSeen'
<1> DEFINE there == [buf EXCEPT ![i] = q]
           Known(b) == \A p \in Places : b[p] \in Seqs => b[p] \in seen'
<1>1. i \in Places /\ buf \in Contents /\ buf_before \in Contents /\ there \in Contents
  BY BufferTypes, ConstantsAssumption DEF WindowInv, TypeOK, Places
<1>2. Known(buf) /\ Known(buf_before) /\ Known(NoPackets)
  BY Marks DEF HoldsSeen, NoPackets
<1>3. ASSUME NEW b \in Contents, Known(b), NEW p \in Places
      PROVE  Known([b EXCEPT ![p] = q])
  BY <1>3 DEF Contents
<1>4. Known(there)
  BY <1>1, <1>2, <1>3
<1>5. NoPackets \in Contents
  BY BufferTypes
<1>6. /\ q \in Int /\ N \in Nat /\ i \in 0..N
      /\ Started => /\ seqstart_current \in Int /\ current_seq \in Int
                    /\ Offset(q) = q - seqstart_current
                    /\ i = current_seq - seqstart_current + 1
  BY Numbers
<1>t. there = [buf EXCEPT ![i] = q]
  OBVIOUS
<1> HIDE DEF there, Known
<1>7. CASE FirstPacket(q, there) \/ InOrder(q, there) \/ Dropped(q, there)
  <2>1. buf' = there /\ buf_before' = buf_before
    BY <1>7 DEF FirstPacket, InOrder, Dropped, beforeVars
  <2> QED BY <1>2, <1>4, <2>1 DEF HoldsSeen, Known
<1>8. CASE LateForBufferBefore(q, there)
  <2>1. N + Offset(q) \in Places
    BY <1>6, <1>8 DEF LateForBufferBefore, Places
  <2>2. Known([buf_before EXCEPT ![N + Offset(q)] = q])
    BY <1>1, <1>2, <1>3, <2>1
  <2>3. buf' = there /\ buf_before' \in {[buf_before EXCEPT ![N + Offset(q)] = q], NoPackets}
    BY <1>8 DEF LateForBufferBefore
  <2>4. Known(buf') /\ Known(buf_before')
    BY <1>2, <1>4, <2>2, <2>3
  <2> QED BY <2>4 DEF HoldsSeen, Known
<1>9. CASE LateInBuffer(q, there) \/ AheadInBuffer(q, there)
  <2>1. Offset(q) \in Places
    BY <1>6, <1>9 DEF LateInBuffer, AheadInBuffer, Places
  <2>2. Known([there EXCEPT ![Offset(q)] = q])
    BY <1>1, <1>3, <1>4, <2>1
  <2>3. buf' = [there EXCEPT ![Offset(q)] = q] /\ buf_before' = buf_before
    BY <1>9 DEF LateInBuffer, AheadInBuffer, beforeVars
  <2>4. Known(buf') /\ Known(buf_before')
    BY <1>2, <2>2, <2>3
  <2> QED BY <2>4 DEF HoldsSeen, Known
<1>10. CASE AheadInNextBuffer(q, there)
  <2>1. Offset(q) - N \in Places
    BY <1>6, <1>10 DEF AheadInNextBuffer, Places
  <2>2. Known([NoPackets EXCEPT ![Offset(q) - N] = q])
    BY <1>2, <1>3, <1>5, <2>1
  <2>3. /\ buf' = [NoPackets EXCEPT ![Offset(q) - N] = q]
        /\ buf_before' \in {there, NoPackets}
    BY <1>10 DEF AheadInNextBuffer, JumpToNextBuf
  <2>4. Known(buf') /\ Known(buf_before')
    BY <1>2, <1>4, <2>2, <2>3
  <2> QED BY <2>4 DEF HoldsSeen, Known
<1> QED BY <1>7, <1>8, <1>9, <1>10, <1>t DEF calc_bufpos_general

\* Counting one packet that was never seen counts one place.
LEMMA CountsMove ==
  ASSUME WindowInv, HoldsSeen, CountsPackets, NEW q \in Seqs, q \notin seen,
         status = "running", numbered, ~repeated,
         \/ BeginsBuffer(q) \/ JoinsBuffer(q) \/ LeavesBuffers
         \/ JoinsBefore(q) \/ BeginsNextBuffer(q)
  PROVE  /\ inc' = Cardinality(InPlace(buf', seqstart_current'))
         /\ before' => inc_before' = Cardinality(InPlace(buf_before', seqstart_current' - N))
<1> DEFINE s == seqstart_current
<1>0. /\ q \in Int /\ N \in Nat
      /\ Started => s \in Int /\ s - N \in Int /\ Offset(q) \in Int /\ Offset(q) = q - s
  BY Numbers
<1>1. Started => /\ inc = Cardinality(InPlace(buf, s))
                 /\ before => inc_before = Cardinality(InPlace(buf_before, s - N))
  BY DEF CountsPackets, Numbering
<1>2. CASE BeginsBuffer(q)
  BY <1>2, FS_Singleton DEF BeginsBuffer
<1>3. CASE JoinsBuffer(q)
  <2>1. Started /\ Offset(q) \in Places /\ s \in Int /\ q = s + Offset(q)
    BY <1>0, <1>3 DEF JoinsBuffer
  <2>2. Offset(q) \notin InPlace(buf, s)
    BY <2>1, UnseenNotInPlace
  <2>3. Cardinality(InPlace(buf', s)) = Cardinality(InPlace(buf, s)) + 1
    BY <1>3, <2>2, CountOneMore DEF JoinsBuffer
  <2> QED BY <1>1, <1>3, <2>1, <2>3 DEF JoinsBuffer, beforeVars
<1>4. CASE LeavesBuffers
  BY <1>1, <1>4 DEF LeavesBuffers, beforeVars
<1>5. CASE JoinsBefore(q)
  <2>1. Started /\ N + Offset(q) \in Places /\ s - N \in Int /\ q = (s - N) + (N + Offset(q))
    BY <1>0, <1>5 DEF JoinsBefore
  <2>2. N + Offset(q) \notin InPlace(buf_before, s - N)
    BY <2>1, UnseenNotInPlace
  <2>3. before' => Cardinality(InPlace(buf_before', s - N)) = Cardinality(InPlace(buf_before, s - N)) + 1
    BY <1>5, <2>2, CountOneMore DEF JoinsBefore
  <2> QED BY <1>1, <1>5, <2>1, <2>3 DEF JoinsBefore
<1>6. CASE BeginsNextBuffer(q)
  <2>1. Started /\ seqstart_current' - N = s
    BY <1>0, <1>6 DEF BeginsNextBuffer
  <2>2. Cardinality(InPlace(buf', seqstart_current')) = 1
    BY <1>6, FS_Singleton DEF BeginsNextBuffer
  <2> QED BY <1>1, <1>6, <2>1, <2>2 DEF BeginsNextBuffer
<1> QED BY <1>2, <1>3, <1>4, <1>5, <1>6

LEMMA PlacesReceive ==
  ASSUME WindowInv, PlacesInv, NEW q \in Seqs, Receive(q)
  PROVE  PlacesInv'
<1> USE DEF PlacesInv
<1>1. status = "running" /\ i < N /\ numbered' = numbered
  BY DEF Receive
<1>2. q \in seen' /\ seen \subseteq seen' /\ (~repeated' => ~repeated /\ q \notin seen)
  BY DEF Receive, Delivers
<1>3. CASE numbered
  <2>1. calc_bufpos_general(q, [buf EXCEPT ![i] = q])
    BY <1>3 DEF Receive
  <2>2. /\ \/ BeginsBuffer(q) \/ JoinsBuffer(q) \/ LeavesBuffers
           \/ JoinsBefore(q) \/ BeginsNextBuffer(q)
        /\ \A p \in Places : p >= i' => buf'[p] # seqstart_current' + p
    BY <1>1, <1>3, <2>1, PlacesMove
  <2>3. HoldsSeen'
    BY <1>1, <1>2, <1>3, <2>1, HoldsSeenMoves
  <2>4. ASSUME ~repeated'
        PROVE  /\ inc' = Cardinality(InPlace(buf', seqstart_current'))
               /\ before' => inc_before' = Cardinality(InPlace(buf_before', seqstart_current' - N))
    BY <1>1, <1>2, <1>3, <2>2, <2>4, CountsMove
  <2>5. AssertNeedsRepeat'
    <3>1. status' = IF inc' <= N THEN "running" ELSE "aborted"
      BY <1>3 DEF Receive
    <3>2. ~repeated' => inc' <= N
      BY <2>4, InPlaceCounts
    <3> QED BY <3>1, <3>2 DEF AssertNeedsRepeat
  <2> QED BY <2>2, <2>3, <2>4, <2>5 DEF NothingAhead, CountsPackets
<1>4. CASE ~numbered
  <2>1. status' = status
    BY <1>4 DEF Receive
  <2> QED BY <1>1, <1>4, <2>1 DEF NothingAhead, HoldsSeen, CountsPackets, Numbering, AssertNeedsRepeat
<1> QED BY <1>3, <1>4

LEMMA PlacesReceiveWithoutBuffer ==
  ASSUME WindowInv, PlacesInv, NEW q \in Seqs, ReceiveWithoutBuffer(q)
  PROVE  PlacesInv'
<1> USE DEF PlacesInv
<1> DEFINE there == [buf EXCEPT ![i] = q]
<1>1. status' = "no_buffer" /\ numbered /\ q \in seen' /\ seen \subseteq seen'
  BY DEF ReceiveWithoutBuffer, NoBuffer, Delivers
<1>2. buf' = NoPackets /\ buf_before' \in {there, NoPackets}
  BY DEF ReceiveWithoutBuffer, NoBuffer, JumpToNextBuf
<1>3. \A p \in Places : there[p] \in {buf[p], q}
  BY DEF WindowInv, TypeOK, Contents
<1>4. \A p \in Places : NoPackets[p] \notin Seqs
  BY Marks DEF NoPackets
<1> HIDE DEF there
<1>5. HoldsSeen'
  BY <1>1, <1>2, <1>3, <1>4 DEF HoldsSeen
<1> QED BY <1>1, <1>5 DEF NothingAhead, CountsPackets, AssertNeedsRepeat

LEMMA PlacesSwitchBuffer == WindowInv /\ PlacesInv /\ SwitchBuffer => PlacesInv'
<1> SUFFICES ASSUME WindowInv, PlacesInv, SwitchBuffer PROVE PlacesInv'
  OBVIOUS
<1> USE DEF PlacesInv
<1>1. /\ status = "running" /\ numbered /\ i = N /\ Started
      /\ seqstart_current \in Int /\ N \in Nat /\ N > 0
  BY ConstantsAssumption
     DEF SwitchBuffer, WindowInv, Beginning
<1>2. /\ buf' = NoPackets /\ buf_before' \in {buf, NoPackets}
      /\ numbered' = numbered /\ seen' = seen /\ repeated' = repeated
      /\ status' \in {"running", "no_buffer"}
      /\ status' = "running" => inc' = 0 /\ seqstart_current' = seqstart_current + N
      /\ before' => inc_before' = inc /\ buf_before' = buf
  BY <1>1 DEF SwitchBuffer, NoBuffer, JumpToNextBuf, network
<1>3. \A p \in Places : NoPackets[p] = Empty
  BY DEF NoPackets
<1>4. HoldsSeen'
  BY <1>1, <1>2, <1>3, Marks DEF HoldsSeen
<1>5. NothingAhead'
  BY <1>1, <1>2, <1>3, ConstantsAssumption DEF NothingAhead, Places
<1>6. CountsPackets'
  <2> SUFFICES ASSUME status' = "running", ~repeated
               PROVE  /\ inc' = Cardinality(InPlace(buf', seqstart_current'))
                      /\ before' => inc_before' =
                                      Cardinality(InPlace(buf_before', seqstart_current' - N))
    BY <1>2 DEF CountsPackets
  <2>1. inc = Cardinality(InPlace(buf, seqstart_current))
    BY <1>1 DEF CountsPackets, Numbering
  <2>2. InPlace(buf', seqstart_current') = {}
    BY <1>1, <1>2, NothingInPlace
  <2>3. seqstart_current' - N = seqstart_current
    BY <1>1, <1>2
  <2> QED BY <1>2, <2>1, <2>2, <2>3, FS_EmptySet
<1> QED BY <1>2, <1>4, <1>5, <1>6 DEF AssertNeedsRepeat

LEMMA PlacesWrongSize == WindowInv /\ PlacesInv /\ ReceiveWrongSize => PlacesInv'
<1> SUFFICES ASSUME WindowInv, PlacesInv, ReceiveWrongSize PROVE PlacesInv'
  OBVIOUS
<1> USE DEF PlacesInv
<1>1. /\ status = "running" /\ status' \in {"running", "error"}
      /\ buf' = [buf EXCEPT ![i] = Empty]
      /\ UNCHANGED <<current_seq, seqstart_current, i, inc, before, inc_before, buf_before,
                     numbered, seen, repeated>>
  BY DEF ReceiveWrongSize, counters, beforeVars, network
<1>2. i \in Places /\ buf \in Contents
  BY ConstantsAssumption DEF ReceiveWrongSize, WindowInv, TypeOK, Places
<1>3. \A r \in Places : buf'[r] = IF r = i THEN Empty ELSE buf[r]
  BY <1>1, <1>2 DEF Contents
<1>4. HoldsSeen'
  BY <1>1, <1>3, Marks DEF HoldsSeen
<1>5. Numbering => seqstart_current \in Int
  BY DEF WindowInv, Beginning, Numbering
<1>6. NothingAhead'
  BY <1>1, <1>2, <1>3, <1>5, ConstantsAssumption DEF NothingAhead, Numbering, Started, Places
<1>7. Numbering => InPlace(buf', seqstart_current) = InPlace(buf, seqstart_current)
  <2> SUFFICES ASSUME Numbering PROVE InPlace(buf', seqstart_current) = InPlace(buf, seqstart_current)
    OBVIOUS
  <2>1. i \notin InPlace(buf, seqstart_current)
    BY <1>1, <1>2 DEF NothingAhead, InPlace, Places
  <2>2. Empty # seqstart_current + i
    BY <1>2, <1>5, ConstantsAssumption DEF Places
  <2> QED BY <1>2, <1>3, <1>5, <2>1, <2>2, PutElsewhere
<1>8. CountsPackets'
  BY <1>1, <1>7 DEF CountsPackets, Numbering, Started
<1> QED BY <1>1, <1>4, <1>6, <1>8 DEF AssertNeedsRepeat

\* Before the recording starts nothing is in place, whatever was left at its first place.
LEMMA PlacesWait ==
  ASSUME WindowInv, PlacesInv, NEW q \in Seqs, WaitForStart(q)
  PROVE  PlacesInv'
<1> USE DEF PlacesInv
<1>1. /\ ~Started /\ ~Started' /\ numbered' = numbered
      /\ status = "running" /\ status' \in {"running", "error"}
      /\ buf' = [buf EXCEPT ![i] = q] /\ buf_before' = buf_before
      /\ seen' = seen \cup {q}
  BY DEF WaitForStart, Delivers, Started, counters, beforeVars
<1>2. i \in Places /\ buf \in Contents
  BY ConstantsAssumption DEF WaitForStart, WindowInv, TypeOK, Places
<1>3. \A r \in Places : buf'[r] = IF r = i THEN q ELSE buf[r]
  BY <1>1, <1>2 DEF Contents
<1>4. HoldsSeen'
  BY <1>1, <1>3 DEF HoldsSeen
<1> QED BY <1>1, <1>4 DEF NothingAhead, CountsPackets, Numbering, AssertNeedsRepeat

LEMMA PlacesStep == WindowInv /\ PlacesInv /\ [Next]_vars => PlacesInv'
<1> SUFFICES ASSUME WindowInv, PlacesInv, [Next]_vars PROVE PlacesInv'
  OBVIOUS
<1> USE DEF PlacesInv
<1>1. CASE UNCHANGED vars
  BY <1>1 DEF vars, counters, beforeVars, network, NothingAhead, HoldsSeen, CountsPackets,
              AssertNeedsRepeat, Numbering, Started
<1>2. CASE SwitchUnnumbered
  BY <1>2 DEF SwitchUnnumbered, network, NothingAhead, HoldsSeen, CountsPackets,
              AssertNeedsRepeat, Numbering
<1>3. CASE End
  <2>1. /\ status' = "ended" /\ buf' = buf /\ buf_before' = NoPackets
        /\ numbered' = numbered /\ seen' = seen
    BY <1>3 DEF End, network
  <2>2. \A p \in Places : NoPackets[p] \notin Seqs
    BY Marks DEF NoPackets
  <2>3. HoldsSeen'
    BY <2>1, <2>2 DEF HoldsSeen
  <2> QED BY <2>1, <2>3 DEF NothingAhead, CountsPackets, AssertNeedsRepeat
<1>4. CASE WriteFile
  BY <1>4 DEF WriteFile, counters, beforeVars, network, NothingAhead, HoldsSeen, CountsPackets,
              AssertNeedsRepeat, Numbering, Started
<1> QED BY <1>1, <1>2, <1>3, <1>4, PlacesReceive, PlacesReceiveWithoutBuffer, PlacesSwitchBuffer,
           PlacesWait, PlacesWrongSize DEF Next

LEMMA PlacesInit == Init => PlacesInv
<1> SUFFICES ASSUME Init PROVE PlacesInv
  OBVIOUS
<1>1. ~Started
  BY DEF Init, Started
<1>2. \A p \in Places : NoPackets[p] \notin Seqs
  BY Marks DEF NoPackets
<1> QED BY <1>1, <1>2 DEF Init, PlacesInv, NothingAhead, HoldsSeen, CountsPackets, Numbering,
                          AssertNeedsRepeat

-----------------------------------------------------------------------------
(* Files and their numbers                                                   *)

\* Files with new numbers keep the numbers apart.
LEMMA NewNumbers ==
  ASSUME FilesInv, NEW new, ready' = ready \cup new, written' = written,
         \A b \in new : \A c \in ready \cup written : b.id # c.id,
         \A b, c \in new : b.id = c.id => b = c
  PROVE  NotWrittenYet' /\ HandedOverOnce'
BY DEF FilesInv, NotWrittenYet, HandedOverOnce

LEMMA FileNumber ==
  ASSUME NEW n, NEW places
  PROVE  File(n, places).id = n
BY DEF File

LEMMA FilesUnchanged ==
  ASSUME FilesInv, UNCHANGED <<before, cumul, ready, written>>,
         status' = status \/ (status = "running" /\ status' \in {"error", "aborted"})
  PROVE  FilesInv'
BY DEF FilesInv, NumbersAreOld, NotWrittenYet, HandedOverOnce, OnlyBeforeOutstanding,
       AllFilesHandedOver

\* A jump gives the buffer before to its writer, and the current one too or keeps it.
LEMMA FilesJump ==
  ASSUME WindowInv, FilesInv, NEW places, JumpToNextBuf(places), written' = written,
         status = "running", status' # "ended"
  PROVE  FilesInv'
<1> DEFINE new == BeforeAsFile \cup (IF inc = N THEN {File(cumul, places)} ELSE {})
<1>1. /\ cumul \in Nat /\ cumul' = cumul + 1 /\ before' = (inc # N)
      /\ before \in BOOLEAN /\ ready' = ready \cup new
      /\ \A b \in ready \cup written : b.id \in Nat
  BY DEF JumpToNextBuf, WindowInv, TypeOK, Files
<1>2. \A b \in new : \/ before /\ b = File(cumul - 1, buf_before) /\ b.id = cumul - 1
                     \/ inc = N /\ b = File(cumul, places) /\ b.id = cumul
  BY FileNumber DEF BeforeAsFile
<1>3. /\ before => \E b \in new : b.id = cumul - 1
      /\ inc = N => \E b \in new : b.id = cumul
  <2>1. /\ before => File(cumul - 1, buf_before) \in new
        /\ inc = N => File(cumul, places) \in new
    BY DEF BeforeAsFile
  <2> HIDE DEF new
  <2> QED BY <2>1, FileNumber
<1>4. NumbersAreOld
  BY DEF FilesInv
<1> HIDE DEF new
<1>5. NotWrittenYet' /\ HandedOverOnce'
  <2>1. \A b \in new : \A c \in ready \cup written : b.id # c.id
    BY <1>1, <1>2, <1>4 DEF NumbersAreOld
  <2>2. \A b, c \in new : b.id = c.id => b = c
    BY <1>1, <1>2
  <2> QED BY <1>1, <2>1, <2>2, NewNumbers
<1>6. NumbersAreOld'
  <2>1. \A b \in ready \cup written : b.id < cumul' /\ b.id # cumul' - 1
    BY <1>1, <1>4 DEF NumbersAreOld
  <2>2. \A b \in new : b.id < cumul' /\ (before' => b.id # cumul' - 1)
    <3>1. before' => inc # N
      BY <1>1, Zenon
    <3>2. \A b \in new : b.id = cumul - 1 \/ (inc = N /\ b.id = cumul)
      BY <1>2, Zenon
    <3>3. cumul \in Nat /\ cumul' = cumul + 1
      BY <1>1
    <3> QED BY <3>1, <3>2, <3>3
  <2> QED BY <1>1, <2>1, <2>2 DEF NumbersAreOld
<1>7. OnlyBeforeOutstanding'
  <2> SUFFICES ASSUME NEW f \in 0..(cumul' - 1)
               PROVE  (before' /\ f = cumul' - 1) \/ \E b \in (ready \cup written)' : b.id = f
    BY DEF OnlyBeforeOutstanding
  <2>1. CASE f = cumul
    <3>1. cumul' - 1 = cumul
      BY <1>1
    <3> QED BY <1>1, <1>3, <2>1, <3>1
  <2>2. CASE f = cumul - 1 /\ before
    BY <1>1, <1>3, <2>2
  <2>3. CASE f # cumul /\ ~(f = cumul - 1 /\ before)
    <3>1. f \in 0..(cumul - 1)
      BY <1>1, <2>3
    <3>2. \E b \in ready \cup written : b.id = f
      BY <2>3, <3>1 DEF FilesInv, OnlyBeforeOutstanding
    <3> QED BY <1>1, <3>2
  <2> QED BY <2>1, <2>2, <2>3
<1> QED BY <1>5, <1>6, <1>7 DEF FilesInv, AllFilesHandedOver

\* The buffer before is complete and goes to its writer.
LEMMA FilesBeforeDone ==
  ASSUME WindowInv, FilesInv, before, NEW places,
         ready' = ready \cup {File(cumul - 1, places)}, before' = FALSE,
         cumul' = cumul, written' = written,
         status = "running", status' \in {"running", "aborted"}
  PROVE  FilesInv'
<1>1. /\ cumul \in Nat /\ cumul >= 1 /\ File(cumul - 1, places).id = cumul - 1
      /\ \A b \in ready \cup written : b.id \in Nat
  BY DEF WindowInv, TypeOK, Beginning, File, Files
<1>2. NotWrittenYet' /\ HandedOverOnce'
  <2> DEFINE new == {File(cumul - 1, places)}
  <2>1. \A b \in new : \A c \in ready \cup written : b.id # c.id
    BY <1>1 DEF FilesInv, NumbersAreOld
  <2>2. (\A b, c \in new : b.id = c.id => b = c) /\ ready' = ready \cup new
    BY <1>1
  <2> HIDE DEF new
  <2> QED BY <1>1, <2>1, <2>2, NewNumbers
<1>3. NumbersAreOld'
  BY <1>1 DEF FilesInv, NumbersAreOld
<1>4. OnlyBeforeOutstanding'
  BY <1>1 DEF FilesInv, OnlyBeforeOutstanding
<1> QED BY <1>2, <1>3, <1>4 DEF FilesInv, AllFilesHandedOver

LEMMA FilesReceive ==
  ASSUME WindowInv, FilesInv, NEW q \in Seqs, Receive(q)
  PROVE  FilesInv'
<1> DEFINE there == [buf EXCEPT ![i] = q]
           places == [buf_before EXCEPT ![N + Offset(q)] = q]
<1>1. status = "running" /\ written' = written
  BY DEF Receive
<1>2. CASE ~numbered
  <2>1. UNCHANGED <<before, cumul, ready, status>>
    BY <1>2 DEF Receive, Unnumbered, beforeVars
  <2> QED BY <1>1, <2>1, FilesUnchanged
<1>3. CASE numbered
  <2>1. calc_bufpos_general(q, there) /\ status' \in {"running", "aborted"}
    BY <1>3 DEF Receive
  <2>2. CASE LateForBufferBefore(q, there)
    <3>1. /\ before /\ cumul' = cumul
          /\ \/ before' = before /\ ready' = ready
             \/ ready' = ready \cup {File(cumul - 1, places)} /\ before' = FALSE
      BY <2>2 DEF LateForBufferBefore
    <3> HIDE DEF places
    <3> QED BY <1>1, <2>1, <3>1, FilesUnchanged, FilesBeforeDone
  <2>3. CASE AheadInNextBuffer(q, there)
    <3>1. JumpToNextBuf(there)
      BY <2>3 DEF AheadInNextBuffer
    <3> HIDE DEF there
    <3> QED BY <1>1, <2>1, <3>1, FilesJump
  <2>4. CASE UNCHANGED <<before, cumul, ready>>
    BY <1>1, <2>1, <2>4, FilesUnchanged
  <2> QED BY <2>1, <2>2, <2>3, <2>4
          DEF calc_bufpos_general, FirstPacket, InOrder, Dropped, LateInBuffer, AheadInBuffer,
              beforeVars
<1> QED BY <1>2, <1>3

LEMMA FilesSwitchUnnumbered ==
  ASSUME WindowInv, FilesInv, SwitchUnnumbered
  PROVE  FilesInv'
<1>1. /\ cumul \in Nat /\ cumul' = cumul + 1 /\ ~before /\ ~before'
      /\ ready' = ready \cup {File(cumul, buf)} /\ written' = written
      /\ File(cumul, buf).id = cumul
      /\ status = "running" /\ status' # "ended"
      /\ \A b \in ready \cup written : b.id \in Nat
  BY DEF SwitchUnnumbered, WindowInv, TypeOK, Beginning, beforeVars, File, Files
<1>2. NotWrittenYet' /\ HandedOverOnce'
  <2> DEFINE new == {File(cumul, buf)}
  <2>1. \A b \in new : \A c \in ready \cup written : b.id # c.id
    BY <1>1 DEF FilesInv, NumbersAreOld
  <2>2. (\A b, c \in new : b.id = c.id => b = c) /\ ready' = ready \cup new
    BY <1>1
  <2> HIDE DEF new
  <2> QED BY <1>1, <2>1, <2>2, NewNumbers
<1>3. NumbersAreOld'
  BY <1>1 DEF FilesInv, NumbersAreOld
<1>4. OnlyBeforeOutstanding'
  BY <1>1 DEF FilesInv, OnlyBeforeOutstanding
<1> QED BY <1>1, <1>2, <1>3, <1>4 DEF FilesInv, AllFilesHandedOver

\* At the end the buffer before and what the current one has are handed over.
LEMMA FilesEnd ==
  ASSUME WindowInv, FilesInv, End
  PROVE  FilesInv'
<1> DEFINE new == BeforeAsFile \cup (IF inc > 0 THEN {File(cumul, buf)} ELSE {})
<1>1. /\ cumul \in Nat /\ cumul' = (IF inc > 0 THEN cumul + 1 ELSE cumul)
      /\ before' = FALSE /\ ready' = ready \cup new /\ written' = written
      /\ status \in {"running", "error"} /\ status' = "ended"
      /\ \A b \in ready \cup written : b.id \in Nat
  BY DEF End, WindowInv, TypeOK, Files
<1>2. \A b \in new : \/ before /\ b = File(cumul - 1, buf_before) /\ b.id = cumul - 1
                     \/ inc > 0 /\ b = File(cumul, buf) /\ b.id = cumul
  BY FileNumber DEF BeforeAsFile
<1>3. /\ before => \E b \in new : b.id = cumul - 1
      /\ inc > 0 => \E b \in new : b.id = cumul
  <2>1. /\ before => File(cumul - 1, buf_before) \in new
        /\ inc > 0 => File(cumul, buf) \in new
    BY DEF BeforeAsFile
  <2> HIDE DEF new
  <2> QED BY <2>1, FileNumber
<1>4. NumbersAreOld
  BY DEF FilesInv
<1> HIDE DEF new
<1>5. NotWrittenYet' /\ HandedOverOnce'
  <2>1. \A b \in new : \A c \in ready \cup written : b.id # c.id
    BY <1>1, <1>2, <1>4 DEF NumbersAreOld
  <2>2. \A b, c \in new : b.id = c.id => b = c
    BY <1>1, <1>2
  <2> QED BY <1>1, <2>1, <2>2, NewNumbers
<1>6. NumbersAreOld'
  BY <1>1, <1>2, <1>4 DEF NumbersAreOld
<1>7. AllFilesHandedOver'
  <2> SUFFICES ASSUME NEW f \in 0..(cumul' - 1)
               PROVE  \E b \in (ready \cup written)' : b.id = f
    BY DEF AllFilesHandedOver
  <2>1. CASE f = cumul
    BY <1>1, <1>3, <2>1
  <2>2. CASE f = cumul - 1 /\ before
    BY <1>1, <1>3, <2>2
  <2>3. CASE f # cumul /\ ~(f = cumul - 1 /\ before)
    <3>1. f \in 0..(cumul - 1)
      BY <1>1, <2>3
    <3>2. \E b \in ready \cup written : b.id = f
      BY <1>1, <2>3, <3>1 DEF FilesInv, OnlyBeforeOutstanding
    <3> QED BY <1>1, <3>2
  <2> QED BY <2>1, <2>2, <2>3
<1> QED BY <1>1, <1>5, <1>6, <1>7 DEF FilesInv, OnlyBeforeOutstanding

\* The writer fills a file in; it is still the only one with its number.
LEMMA FilesWriteFile ==
  ASSUME FilesInv, WriteFile
  PROVE  FilesInv'
<1>1. PICK b \in ready : /\ ready' = ready \ {b}
                         /\ written' = written \cup {IF numbered THEN File(b.id, Filled(b)) ELSE b}
  BY DEF WriteFile
<1> DEFINE c == IF numbered THEN File(b.id, Filled(b)) ELSE b
<1>2. written' = written \cup {c} /\ c.id = b.id
  BY <1>1, FileNumber
<1> HIDE DEF c
<1>3. UNCHANGED <<before, cumul, status>>
  BY DEF WriteFile, beforeVars
<1>4. \A x \in ready : x # b => x.id # b.id
  BY DEF FilesInv, HandedOverOnce
<1>5. \A x \in written : x.id # b.id
  BY DEF FilesInv, NotWrittenYet
<1>6. NotWrittenYet'
  BY <1>1, <1>2, <1>4 DEF FilesInv, NotWrittenYet
<1>7. HandedOverOnce'
  BY <1>1, <1>2, <1>4, <1>5 DEF FilesInv, HandedOverOnce
<1>8. \A f : (\E x \in ready \cup written : x.id = f) => \E x \in (ready \cup written)' : x.id = f
  BY <1>1, <1>2
<1>9. NumbersAreOld'
  BY <1>1, <1>2, <1>3 DEF FilesInv, NumbersAreOld
<1>10. OnlyBeforeOutstanding' /\ AllFilesHandedOver'
  BY <1>3, <1>8 DEF FilesInv, OnlyBeforeOutstanding, AllFilesHandedOver
<1> QED BY <1>6, <1>7, <1>9, <1>10 DEF FilesInv

LEMMA FilesStep == WindowInv /\ FilesInv /\ [Next]_vars => FilesInv'
<1> SUFFICES ASSUME WindowInv, FilesInv, [Next]_vars PROVE FilesInv'
  OBVIOUS
<1>1. CASE UNCHANGED vars
  BY <1>1, FilesUnchanged DEF vars, beforeVars, fileVars
<1>2. CASE SwitchBuffer
  <2>1. /\ JumpToNextBuf(buf) /\ written' = written
        /\ status = "running" /\ status' # "ended"
    BY <1>2 DEF SwitchBuffer, NoBuffer
  <2> QED BY <2>1, FilesJump
<1>3. ASSUME NEW q \in Seqs, ReceiveWithoutBuffer(q) PROVE FilesInv'
  <2>1. /\ JumpToNextBuf([buf EXCEPT ![i] = q]) /\ written' = written
        /\ status = "running" /\ status' # "ended"
    BY <1>3 DEF ReceiveWithoutBuffer, NoBuffer
  <2> QED BY <2>1, FilesJump
<1>4. CASE ReceiveWrongSize
  BY <1>4, FilesUnchanged DEF ReceiveWrongSize, beforeVars, fileVars
<1>5. ASSUME NEW q \in Seqs, WaitForStart(q) PROVE FilesInv'
  BY <1>5, FilesUnchanged DEF WaitForStart, beforeVars, fileVars
<1> QED BY <1>1, <1>2, <1>3, <1>4, <1>5, FilesReceive, FilesSwitchUnnumbered, FilesEnd, FilesWriteFile
        DEF Next

LEMMA FilesInit == Init => FilesInv
BY DEF Init, FilesInv, NumbersAreOld, NotWrittenYet, HandedOverOnce, OnlyBeforeOutstanding,
       AllFilesHandedOver

-----------------------------------------------------------------------------
(* What one step may do                                                      *)

\* A step in which the receiver goes on in the same buffer keeps what is in place.
LEMMA StaysInPlaceStep ==
  ASSUME IInv, [Next]_vars, Numbering, seqstart_current' = seqstart_current, status' = "running"
  PROVE  /\ InPlace(buf, seqstart_current) \subseteq InPlace(buf', seqstart_current)
         /\ before' => InPlace(buf_before, seqstart_current - N)
                         \subseteq InPlace(buf_before', seqstart_current - N)
<1> USE DEF IInv
<1>1. N \in Nat /\ N > 0 /\ seqstart_current \in Int /\ numbered /\ Started
  BY ConstantsAssumption DEF Numbering, WindowInv, Beginning
<1>2. CASE UNCHANGED <<buf, buf_before>>
  BY <1>2
<1>3. ASSUME NEW q \in Seqs, Receive(q)
      PROVE  /\ InPlace(buf, seqstart_current) \subseteq InPlace(buf', seqstart_current)
             /\ before' => InPlace(buf_before, seqstart_current - N)
                             \subseteq InPlace(buf_before', seqstart_current - N)
  <2>1. /\ status = "running" /\ i < N
        /\ calc_bufpos_general(q, [buf EXCEPT ![i] = q])
    BY <1>1, <1>3 DEF Receive
  <2>2. \/ BeginsBuffer(q) \/ JoinsBuffer(q) \/ LeavesBuffers
        \/ JoinsBefore(q) \/ BeginsNextBuffer(q)
    BY <1>1, <2>1, PlacesMove DEF PlacesInv
  <2>3. ~BeginsBuffer(q) /\ ~BeginsNextBuffer(q)
    BY <1>1 DEF BeginsBuffer, BeginsNextBuffer
  <2> QED BY <2>2, <2>3 DEF JoinsBuffer, LeavesBuffers, JoinsBefore, beforeVars
<1>4. CASE ReceiveWrongSize
  <2>1. /\ status = "running" /\ i \in Places /\ buf \in Contents
        /\ buf' = [buf EXCEPT ![i] = Empty] /\ buf_before' = buf_before
    BY <1>1, <1>4 DEF ReceiveWrongSize, WindowInv, TypeOK, Places, beforeVars
  <2>2. \A r \in Places : buf'[r] = IF r = i THEN Empty ELSE buf[r]
    BY <2>1 DEF Contents
  <2>3. i \notin InPlace(buf, seqstart_current)
    BY <2>1 DEF PlacesInv, NothingAhead, InPlace, Places
  <2>4. InPlace(buf, seqstart_current) \subseteq InPlace(buf', seqstart_current)
    BY <2>2, <2>3 DEF InPlace
  <2> QED BY <2>1, <2>4
<1>5. ~SwitchBuffer
  <2>1. SwitchBuffer => seqstart_current' = seqstart_current + N \/ status' = "no_buffer"
    BY Zenon DEF SwitchBuffer, NoBuffer
  <2> QED BY <1>1, <2>1
<1>6. ~SwitchUnnumbered
  BY <1>1 DEF SwitchUnnumbered
<1>7. \A q \in Seqs : ~ReceiveWithoutBuffer(q)
  BY DEF ReceiveWithoutBuffer, NoBuffer
<1>8. ~End /\ \A q \in Seqs : ~WaitForStart(q)
  BY <1>1 DEF End, WaitForStart
<1> QED BY <1>2, <1>3, <1>4, <1>5, <1>6, <1>7, <1>8 DEF Next, WriteFile, beforeVars, vars

\* A new packet in the window is in one of the two buffers, or in the file it completed.
LEMMA WindowIsKeptStep ==
  ASSUME IInv, [Next]_vars, NEW q \in Seqs,
         Numbering, status = "running", status' = "running", q \in seen' \ seen,
         Offset(q) \in (IF before THEN -N ELSE 0)..(2 * N - 1)
  PROVE  \/ q - seqstart_current' \in InPlace(buf', seqstart_current')
         \/ q - seqstart_current' + N \in InPlace(buf_before', seqstart_current' - N)
         \/ \E b \in ready' : \E p \in Places : b.places[p] = q /\ Own(b.id, p) = q
<1> USE DEF IInv
<1> DEFINE there == [buf EXCEPT ![i] = q]
           s == seqstart_current
<1>1. /\ numbered /\ Started /\ q \in Int /\ N \in Nat /\ N > 0
      /\ s \in Int /\ current_seq \in Int /\ cumul \in Nat /\ first_packet \in Seqs
      /\ first_packet \in Int
      /\ Offset(q) = q - s /\ Offset(q) \in Int
      /\ i = current_seq - s + 1 /\ s = Own(cumul, 0)
      /\ current_seq \in seen
  BY Numbers DEF Numbering, WindowInv, Beginning
<1>2. Receive(q)
  <2>1. \A r \in Seqs : Receive(r) => r = q
    BY DEF Receive, Delivers
  <2>2. \E r \in Seqs : Receive(r)
    BY <1>1 DEF Next, SwitchBuffer, SwitchUnnumbered, ReceiveWithoutBuffer, NoBuffer, WaitForStart,
                ReceiveWrongSize, End, WriteFile, network, vars
  <2> QED BY <2>1, <2>2
<1>3. i < N /\ calc_bufpos_general(q, there)
  BY <1>1, <1>2 DEF Receive
<1>4. \/ BeginsBuffer(q) \/ JoinsBuffer(q) \/ LeavesBuffers
      \/ JoinsBefore(q) \/ BeginsNextBuffer(q)
  BY <1>1, <1>3, PlacesMove DEF PlacesInv
<1>5. CASE JoinsBuffer(q)
  BY <1>1, <1>5 DEF JoinsBuffer
<1>6. CASE BeginsNextBuffer(q)
  <2>1. q - seqstart_current' = Offset(q) - N
    BY <1>1, <1>6 DEF BeginsNextBuffer
  <2> QED BY <1>6, <2>1 DEF BeginsNextBuffer
<1>7. CASE LateForBufferBefore(q, there)
  <2> DEFINE places == [buf_before EXCEPT ![N + Offset(q)] = q]
  <2>1. N + Offset(q) \in Places /\ before /\ cumul - 1 \in Nat
    BY <1>1, <1>7, BeforeType DEF LateForBufferBefore, Places
  <2>2. places[N + Offset(q)] = q
    BY <2>1 DEF WindowInv, TypeOK, Contents
  <2>3. seqstart_current' = s
    BY <1>7 DEF LateForBufferBefore, counters
  <2>4. \/ buf_before' = places
        \/ ready' = ready \cup {File(cumul - 1, places)}
    BY <1>7 DEF LateForBufferBefore
  <2> HIDE DEF places
  <2>5. CASE buf_before' = places
    <3>1. /\ q - seqstart_current' + N = N + Offset(q)
          /\ q = (seqstart_current' - N) + (N + Offset(q))
      BY <1>1, <2>3
    <3> QED BY <2>1, <2>2, <2>5, <3>1 DEF InPlace
  <2>6. CASE ready' = ready \cup {File(cumul - 1, places)}
    <3>1. Own(cumul - 1, N + Offset(q)) = q
      <4>1. first_packet + N * ((cumul - 1) + 1) + 0 = first_packet + N * (cumul - 1) + 0 + N
        BY <1>1, <2>1, NextFileStart
      <4>2. (cumul - 1) + 1 = cumul
        BY <1>1
      <4>3. N * (cumul - 1) \in Int /\ N * cumul \in Int
        BY <1>1
      <4> QED BY <1>1, <4>1, <4>2, <4>3 DEF Own
    <3>2. File(cumul - 1, places).places[N + Offset(q)] = q /\ File(cumul - 1, places).id = cumul - 1
      BY <2>2 DEF File
    <3> QED BY <2>1, <2>6, <3>1, <3>2
  <2> QED BY <2>4, <2>5, <2>6
<1>8. ~Dropped(q, there) /\ ~FirstPacket(q, there)
  BY <1>1 DEF Dropped, FirstPacket
<1>9. CASE InOrder(q, there) \/ LateInBuffer(q, there) \/ AheadInBuffer(q, there)
  <2>1. inc' = inc + 1 /\ seqstart_current' = s /\ Started
    BY <1>1, <1>9 DEF InOrder, LateInBuffer, AheadInBuffer
  <2>2. inc \in Nat
    BY DEF WindowInv, TypeOK
  <2>3. ~BeginsBuffer(q) /\ ~LeavesBuffers /\ ~JoinsBefore(q)
    BY <2>1, <2>2 DEF BeginsBuffer, LeavesBuffers, JoinsBefore
  <2> QED BY <1>4, <1>5, <1>6, <2>3
<1>10. CASE AheadInNextBuffer(q, there)
  <2>1. Started /\ seqstart_current' = s + N
    BY <1>1, <1>10 DEF AheadInNextBuffer
  <2>2. BeginsNextBuffer(q)
    BY <1>1, <1>4, <2>1 DEF BeginsBuffer, JoinsBuffer, LeavesBuffers, JoinsBefore
  <2> QED BY <1>6, <2>2
<1> QED BY <1>3, <1>7, <1>8, <1>9, <1>10 DEF calc_bufpos_general

-----------------------------------------------------------------------------
(* The theorems                                                              *)

\* The inductive invariant of the receiver (udp_receiver and what it calls).
THEOREM Invariance == Spec => []IInv
<1>1. Init => IInv
  BY WindowInit, PlacesInit, FilesInit DEF IInv
<1>2. IInv /\ [Next]_vars => IInv'
  BY WindowStep, PlacesStep, FilesStep DEF IInv
<1> QED BY <1>1, <1>2, PTL DEF Spec

\* Types, and with them that recv never writes past the end of a buffer.
THEOREM TypeCorrect == Spec => []TypeOK
<1>1. IInv => TypeOK
  BY DEF IInv, WindowInv
<1> QED BY <1>1, Invariance, PTL

\* The next place is always right behind the last packet ("i has to keep on running").
THEOREM PositionCorrect == Spec => []PositionFollowsSequence
<1>1. IInv => PositionFollowsSequence
  BY DEF IInv, WindowInv
<1> QED BY <1>1, Invariance, PTL

\* Without repeated packets *inc and inc_before count the packets in place.
THEOREM CountsCorrect == Spec => []CountsPackets
<1>1. IInv => CountsPackets
  BY DEF IInv, PlacesInv
<1> QED BY <1>1, Invariance, PTL

\* ASSERT(*resq->inc <= ...) fails only after the network repeated a packet.
THEOREM AssertCorrect == Spec => []AssertNeedsRepeat
<1>1. IInv => AssertNeedsRepeat
  BY DEF IInv, PlacesInv
<1> QED BY <1>1, Invariance, PTL

\* When udp_receiver came to its end, every file was given to a writer.
THEOREM NoFileForgotten == Spec => []AllFilesHandedOver
<1>1. IInv => AllFilesHandedOver
  BY DEF IInv, FilesInv
<1> QED BY <1>1, Invariance, PTL

\* No two buffers are written under one file number.
THEOREM NoFileTwice == Spec => []HandedOverOnce
<1>1. IInv => HandedOverOnce
  BY DEF IInv, FilesInv
<1> QED BY <1>1, Invariance, PTL

\* recv and the memcpys of calc_bufpos_general never overwrite a packet in place.
THEOREM NothingOverwritten == Spec => StaysInPlace
<1>1. IInv /\ [Next]_vars =>
        (Numbering /\ seqstart_current' = seqstart_current /\ status' = "running" =>
           /\ InPlace(buf, seqstart_current) \subseteq InPlace(buf', seqstart_current)
           /\ before' => InPlace(buf_before, seqstart_current - N)
                           \subseteq InPlace(buf_before', seqstart_current - N))
  BY StaysInPlaceStep
<1> QED BY <1>1, Invariance, PTL DEF Spec, StaysInPlace

\* What is early or late by less than the window is recorded at its place.
THEOREM WindowCorrect == Spec => WindowIsKept
<1>1. IInv /\ [Next]_vars =>
        \A q \in Seqs :
          /\ Numbering /\ status = "running" /\ status' = "running"
          /\ q \in seen' \ seen
          /\ Offset(q) \in (IF before THEN -N ELSE 0)..(2 * N - 1)
          => \/ q - seqstart_current' \in InPlace(buf', seqstart_current')
             \/ q - seqstart_current' + N \in InPlace(buf_before', seqstart_current' - N)
             \/ \E b \in ready' : \E p \in Places : b.places[p] = q /\ Own(b.id, p) = q
  BY WindowIsKeptStep
<1> QED BY <1>1, Invariance, PTL DEF Spec, WindowIsKept

=============================================================================
