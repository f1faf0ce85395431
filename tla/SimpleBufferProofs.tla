------------------------- MODULE SimpleBufferProofs -------------------------
(***************************************************************************)
(* For any buffers, recording points, sizes and faults:                    *)
(*                                                                         *)
(*   - nobody fills a buffer that its thread is writing, and a recording   *)
(*     point is busy exactly while one thread uses it;                     *)
(*   - a file that the write loop reports on disk is there whole;          *)
(*   - what the buffer threads do is what Archive promises a receiver.     *)
(*                                                                         *)
(* The first needs where each thread is in its loop (BuffersInv, RecerInv),*)
(* the others what of a file has landed and what is under way (StoreInv).  *)
(***************************************************************************)
EXTENDS SimpleBuffer, FiniteSetTheorems, TLAPS

-----------------------------------------------------------------------------
(* Who uses a buffer and a recording point                                   *)

\* The types the two invariants need, without the bounds of TypeOK.
Shape ==
  /\ receiving \in BOOLEAN
  /\ filling \in Seq(Buffers)
  /\ list \in [Buffers -> {"free", "busy", "removed"}]
  /\ ready_to_act \in [Buffers -> BOOLEAN]
  /\ running \in [Buffers -> BOOLEAN]
  /\ headlock \in [Buffers -> BOOLEAN]
  /\ recer \in [Buffers -> Disks \cup {None}]
  /\ pc \in [Buffers -> PCs]
  /\ disklist \in [Disks -> {"free", "busy", "removed"}]

Filled(b) == \E i \in DOMAIN filling : filling[i] = b

\* What each buffer, its thread and the receiver know of one another.  WriterAlone is
\* its second and third part; it needs that ready_to_act outlives the buffer's time on
\* busylist only while the thread still has headlock.
BufferInv(b) ==
  /\ pc[b] = "freed" => headlock[b]
  /\ pc[b] \in Working => list[b] = "busy" /\ ready_to_act[b]
  /\ Filled(b) => list[b] = "busy" /\ pc[b] \notin Working /\ (ready_to_act[b] => pc[b] = "freed")
  /\ ready_to_act[b] /\ pc[b] # "freed" => list[b] = "busy" \/ (list[b] = "removed" /\ ~running[b])
  /\ pc[b] = "work" /\ running[b] => ready_to_act[b]

NoneTwice == \A i, j \in DOMAIN filling : filling[i] = filling[j] => i = j

BuffersInv == NoneTwice /\ \A b \in Buffers : BufferInv(b)

\* A thread has a recording point from OpenFile to ReleaseRec, and no two the same.
RecerInv ==
  /\ \A b \in Buffers : recer[b] # None <=> pc[b] \in {"write", "poll", "release"}
  /\ RecerAccounted

-----------------------------------------------------------------------------
(* Every step keeps the shapes                                              *)

\* The types are kept by every action.
LEMMA ShapeStep == ASSUME Shape, [Next]_vars PROVE Shape'
<1>1. ASSUME NEW b \in Buffers, LoopTop(b) PROVE Shape'
  BY <1>1 DEF LoopTop, Goes, KeepsBuffer, KeepsRest, receiver, buffer, thread, points,
      index, Shape, PCs
<1>2. ASSUME NEW b \in Buffers, LockHead(b) PROVE Shape'
  BY <1>2 DEF LockHead, Goes, KeepsBuffer, KeepsRest, receiver, buffer, thread, points,
      index, Shape, PCs
<1>3. ASSUME NEW b \in Buffers, CheckReady(b) PROVE Shape'
  BY <1>3 DEF CheckReady, Goes, KeepsBuffer, KeepsRest, receiver, buffer, thread, points,
      index, Shape, PCs
<1>4. ASSUME NEW b \in Buffers, Sleep(b) PROVE Shape'
  BY <1>4 DEF Sleep, Goes, KeepsBuffer, KeepsRest, receiver, buffer, thread, points,
      index, Shape, PCs
<1>5. ASSUME NEW b \in Buffers, SpuriousWakeup(b) PROVE Shape'
  BY <1>5 DEF SpuriousWakeup, Goes, KeepsBuffer, KeepsRest, receiver, buffer, thread,
      points, index, Shape, PCs
<1>6. ASSUME NEW b \in Buffers, WokeUp(b) PROVE Shape'
  BY <1>6 DEF WokeUp, Goes, KeepsBuffer, KeepsRest, receiver, buffer, thread, points,
      index, Shape, PCs
<1>7. ASSUME NEW b \in Buffers, StartWork(b) PROVE Shape'
  BY <1>7 DEF StartWork, Goes, KeepsBuffer, receiver, buffer, thread, points, index,
      Shape, PCs
<1>8. ASSUME NEW b \in Buffers, NoRecPoint(b) PROVE Shape'
  BY <1>8 DEF NoRecPoint, Retry, Fit, receiver, buffer, thread, points, index, Shape, PCs
<1>9. ASSUME NEW b \in Buffers, WriteBytes(b) PROVE Shape'
  BY <1>9 DEF WriteBytes, AfterWrite, receiver, buffer, thread, points, index, Shape, PCs
<1>10. ASSUME NEW b \in Buffers, WriteError(b) PROVE Shape'
  BY <1>10 DEF WriteError, AfterWrite, receiver, buffer, thread, points, index, Shape, PCs
<1>11. ASSUME NEW b \in Buffers, EventDone(b) \/ EventShort(b) PROVE Shape'
  BY <1>11 DEF EventDone, EventShort, Reported, AfterPoll, receiver, buffer, thread, points,
      index, Shape, PCs
<1>12. ASSUME NEW b \in Buffers, NoEvent(b) PROVE Shape'
  BY <1>12 DEF NoEvent, Goes, KeepsBuffer, KeepsRest, receiver, buffer, thread, points,
      index, Shape, PCs
<1>13. ASSUME NEW b \in Buffers, EventError(b) PROVE Shape'
  BY <1>13 DEF EventError, Retry, HandleError, receiver, buffer, thread, points, index,
      Shape, PCs
<1>14. ASSUME NEW b \in Buffers, ReleaseRec(b) PROVE Shape'
  BY <1>14 DEF ReleaseRec, Goes, receiver, buffer, thread, points, index, Shape, PCs
<1>15. ASSUME NEW b \in Buffers, MarkWritten(b) PROVE Shape'
  BY <1>15 DEF MarkWritten, Goes, KeepsBuffer, receiver, buffer, thread, points, index,
      Shape, PCs
<1>16. ASSUME NEW b \in Buffers, FreeBuffer(b) PROVE Shape'
  BY <1>16 DEF FreeBuffer, Goes, receiver, buffer, thread, points, index, Shape, PCs
<1>17. ASSUME NEW b \in Buffers, ClearReady(b) PROVE Shape'
  BY <1>17 DEF ClearReady, Goes, receiver, buffer, thread, points, index, Shape, PCs
<1>18. ASSUME NEW b \in Buffers, NEW d \in Disks, OpenFile(b, d) PROVE Shape'
  BY <1>18 DEF OpenFile, Goes, Fit, receiver, buffer, thread, points, index, Shape, PCs
<1>19. ASSUME NEW b \in Buffers, NEW d \in Disks, OpenFails(b, d) PROVE Shape'
  BY <1>19 DEF OpenFails, Retry, HandleError, Fit, receiver, buffer, thread, points,
      index, Shape, PCs
<1>20. ASSUME NEW b \in Buffers, FlagStop(b) PROVE Shape'
  BY <1>20 DEF FlagStop, receiver, buffer, thread, points, index, Shape, PCs
<1>21. ASSUME NEW b \in Buffers, SignalStop(b) PROVE Shape'
  BY <1>21 DEF SignalStop, KeepsBuffer, Wake, receiver, buffer, thread, points, index,
      Shape, PCs
<1>22. ASSUME NoBuffer PROVE Shape'
  BY <1>22 DEF NoBuffer, receiver, buffer, thread, points, index, Shape, PCs
<1>23. ASSUME StopReceiving PROVE Shape'
  BY <1>23 DEF StopReceiving, receiver, buffer, thread, points, index, Shape, PCs
<1>24. ASSUME HandOver PROVE Shape'
  BY <1>24 DEF HandOver, Wake, receiver, buffer, thread, points, index, Shape, PCs
<1>25. ASSUME CancelWritebuf PROVE Shape'
  <2>1. /\ ready_to_act' = [ready_to_act EXCEPT ![Head(filling)] = FALSE]
        /\ list' = [list EXCEPT ![Head(filling)] = "free"]
        /\ filling' = <<>>
    BY <1>25 DEF CancelWritebuf
  <2>2. filling' \in Seq(Buffers)
    BY <2>1
  <2>3. ready_to_act' \in [Buffers -> BOOLEAN] /\ list' \in [Buffers -> {"free", "busy", "removed"}]
    BY <2>1 DEF Shape
  <2>. QED BY <2>2, <2>3, <1>25 DEF CancelWritebuf, thread, points, Shape
<1>26. ASSUME NEW b \in Buffers, Take(b) PROVE Shape'
  BY <1>26 DEF Take, receiver, buffer, thread, points, index, Shape, PCs
<1>27. ASSUME NEW i \in 1..2, NEW n \in LastSizes \cup {BufSize}, Fill(i, n) PROVE Shape'
  BY <1>27 DEF Fill, receiver, buffer, thread, points, index, Shape, PCs
<1>28. CASE UNCHANGED vars
  BY <1>28 DEF vars, receiver, buffer, thread, points, index, Shape, PCs
<1>. QED BY <1>1, <1>2, <1>3, <1>4, <1>5, <1>6, <1>7, <1>8, <1>9, <1>10, <1>11, <1>12,
    <1>13, <1>14, <1>15, <1>16, <1>17, <1>18, <1>19, <1>20, <1>21, <1>22, <1>23, <1>24,
    <1>25, <1>26, <1>27, <1>28 DEF Next, Receive, PassOn, Stop, Continue

-----------------------------------------------------------------------------
(* Buffers                                                                  *)

\* No step breaks what buffers, threads and the receiver know of one another.
LEMMA BuffersStep == ASSUME Shape, BuffersInv, [Next]_vars PROVE BuffersInv'
<1>1. ASSUME NEW b \in Buffers, LoopTop(b) PROVE BuffersInv'
  BY <1>1 DEF LoopTop, Goes, KeepsBuffer, KeepsRest, receiver, buffer, thread, points,
      index, Shape, BuffersInv, BufferInv, NoneTwice, Filled, Working
<1>2. ASSUME NEW b \in Buffers, LockHead(b) PROVE BuffersInv'
  BY <1>2 DEF LockHead, Goes, KeepsBuffer, KeepsRest, receiver, buffer, thread, points,
      index, Shape, BuffersInv, BufferInv, NoneTwice, Filled, Working
<1>3. ASSUME NEW b \in Buffers, CheckReady(b) PROVE BuffersInv'
  BY <1>3 DEF CheckReady, Goes, KeepsBuffer, KeepsRest, receiver, buffer, thread, points,
      index, Shape, BuffersInv, BufferInv, NoneTwice, Filled, Working
<1>4. ASSUME NEW b \in Buffers, Sleep(b) PROVE BuffersInv'
  BY <1>4 DEF Sleep, Goes, KeepsBuffer, KeepsRest, receiver, buffer, thread, points,
      index, Shape, BuffersInv, BufferInv, NoneTwice, Filled, Working
<1>5. ASSUME NEW b \in Buffers, SpuriousWakeup(b) PROVE BuffersInv'
  BY <1>5 DEF SpuriousWakeup, Goes, KeepsBuffer, KeepsRest, receiver, buffer, thread,
      points, index, Shape, BuffersInv, BufferInv, NoneTwice, Filled, Working
<1>6. ASSUME NEW b \in Buffers, WokeUp(b) PROVE BuffersInv'
  BY <1>6 DEF WokeUp, Goes, KeepsBuffer, KeepsRest, receiver, buffer, thread, points,
      index, Shape, BuffersInv, BufferInv, NoneTwice, Filled, Working
<1>7. ASSUME NEW b \in Buffers, StartWork(b) PROVE BuffersInv'
  BY <1>7 DEF StartWork, Goes, KeepsBuffer, receiver, buffer, thread, points, index,
      Shape, BuffersInv, BufferInv, NoneTwice, Filled, Working
<1>8. ASSUME NEW b \in Buffers, NoRecPoint(b) PROVE BuffersInv'
  BY <1>8 DEF NoRecPoint, Retry, Fit, receiver, buffer, thread, points, index, Shape,
      BuffersInv, BufferInv, NoneTwice, Filled, Working
<1>9. ASSUME NEW b \in Buffers, WriteBytes(b) PROVE BuffersInv'
  BY <1>9 DEF WriteBytes, AfterWrite, receiver, buffer, thread, points, index, Shape,
      BuffersInv, BufferInv, NoneTwice, Filled, Working
<1>10. ASSUME NEW b \in Buffers, WriteError(b) PROVE BuffersInv'
  BY <1>10 DEF WriteError, AfterWrite, receiver, buffer, thread, points, index, Shape,
      BuffersInv, BufferInv, NoneTwice, Filled, Working
<1>11. ASSUME NEW b \in Buffers, EventDone(b) \/ EventShort(b) PROVE BuffersInv'
  BY <1>11 DEF EventDone, EventShort, Reported, AfterPoll, receiver, buffer, thread, points,
      index, Shape, BuffersInv, BufferInv, NoneTwice, Filled, Working
<1>12. ASSUME NEW b \in Buffers, NoEvent(b) PROVE BuffersInv'
  BY <1>12 DEF NoEvent, Goes, KeepsBuffer, KeepsRest, receiver, buffer, thread, points,
      index, Shape, BuffersInv, BufferInv, NoneTwice, Filled, Working
<1>13. ASSUME NEW b \in Buffers, EventError(b) PROVE BuffersInv'
  BY <1>13 DEF EventError, Retry, HandleError, receiver, buffer, thread, points, index,
      Shape, BuffersInv, BufferInv, NoneTwice, Filled, Working
<1>14. ASSUME NEW b \in Buffers, ReleaseRec(b) PROVE BuffersInv'
  BY <1>14 DEF ReleaseRec, Goes, receiver, buffer, thread, points, index, Shape,
      BuffersInv, BufferInv, NoneTwice, Filled, Working
<1>15. ASSUME NEW b \in Buffers, MarkWritten(b) PROVE BuffersInv'
  BY <1>15 DEF MarkWritten, Goes, KeepsBuffer, receiver, buffer, thread, points, index,
      Shape, BuffersInv, BufferInv, NoneTwice, Filled, Working
<1>16. ASSUME NEW b \in Buffers, FreeBuffer(b) PROVE BuffersInv'
  BY <1>16 DEF FreeBuffer, Goes, receiver, buffer, thread, points, index, Shape,
      BuffersInv, BufferInv, NoneTwice, Filled, Working
<1>17. ASSUME NEW b \in Buffers, ClearReady(b) PROVE BuffersInv'
  BY <1>17 DEF ClearReady, Goes, receiver, buffer, thread, points, index, Shape,
      BuffersInv, BufferInv, NoneTwice, Filled, Working
<1>18. ASSUME NEW b \in Buffers, NEW d \in Disks, OpenFile(b, d) PROVE BuffersInv'
  BY <1>18 DEF OpenFile, Goes, Fit, receiver, buffer, thread, points, index, Shape,
      BuffersInv, BufferInv, NoneTwice, Filled, Working
<1>19. ASSUME NEW b \in Buffers, NEW d \in Disks, OpenFails(b, d) PROVE BuffersInv'
  BY <1>19 DEF OpenFails, Retry, HandleError, Fit, receiver, buffer, thread, points,
      index, Shape, BuffersInv, BufferInv, NoneTwice, Filled, Working
<1>20. ASSUME NEW b \in Buffers, FlagStop(b) PROVE BuffersInv'
  BY <1>20 DEF FlagStop, receiver, buffer, thread, points, index, Shape, BuffersInv,
      BufferInv, NoneTwice, Filled, Working
<1>21. ASSUME NEW b \in Buffers, SignalStop(b) PROVE BuffersInv'
  BY <1>21 DEF SignalStop, KeepsBuffer, Wake, receiver, buffer, thread, points, index,
      Shape, BuffersInv, BufferInv, NoneTwice, Filled, Working
<1>22. ASSUME NoBuffer PROVE BuffersInv'
  BY <1>22 DEF NoBuffer, receiver, buffer, thread, points, index, Shape, BuffersInv,
      BufferInv, NoneTwice, Filled, Working
<1>23. ASSUME StopReceiving PROVE BuffersInv'
  BY <1>23 DEF StopReceiving, receiver, buffer, thread, points, index, Shape, BuffersInv,
      BufferInv, NoneTwice, Filled, Working
<1>24. ASSUME HandOver PROVE BuffersInv'
  BY <1>24 DEF HandOver, Wake, receiver, buffer, thread, points, index, Shape, BuffersInv,
      BufferInv, NoneTwice, Filled, Working
<1>25. ASSUME CancelWritebuf PROVE BuffersInv'
  BY <1>25 DEF CancelWritebuf, receiver, buffer, thread, points, index, Shape, BuffersInv,
      BufferInv, NoneTwice, Filled, Working
<1>26. ASSUME NEW b \in Buffers, Take(b) PROVE BuffersInv'
  BY <1>26 DEF Take, receiver, buffer, thread, points, index, Shape, BuffersInv,
      BufferInv, NoneTwice, Filled, Working
<1>27. ASSUME NEW i \in 1..2, NEW n \in LastSizes \cup {BufSize}, Fill(i, n) PROVE BuffersInv'
  BY <1>27 DEF Fill, receiver, buffer, thread, points, index, Shape, BuffersInv,
      BufferInv, NoneTwice, Filled, Working
<1>28. CASE UNCHANGED vars
  BY <1>28 DEF vars, receiver, buffer, thread, points, index, Shape, BuffersInv,
      BufferInv, NoneTwice, Filled, Working
<1>. QED BY <1>1, <1>2, <1>3, <1>4, <1>5, <1>6, <1>7, <1>8, <1>9, <1>10, <1>11, <1>12,
    <1>13, <1>14, <1>15, <1>16, <1>17, <1>18, <1>19, <1>20, <1>21, <1>22, <1>23, <1>24,
    <1>25, <1>26, <1>27, <1>28 DEF Next, Receive, PassOn, Stop, Continue

-----------------------------------------------------------------------------
(* Recording points                                                         *)

\* No step breaks what threads know of their recording points.
LEMMA RecerStep == ASSUME Shape, RecerInv, [Next]_vars PROVE RecerInv'
<1>1. ASSUME NEW b \in Buffers, LoopTop(b) PROVE RecerInv'
  BY ConstantsAssumption, <1>1 DEF LoopTop, Goes, KeepsBuffer, KeepsRest, receiver,
      buffer, thread, points, index, Shape, RecerInv, RecerAccounted
<1>2. ASSUME NEW b \in Buffers, LockHead(b) PROVE RecerInv'
  BY ConstantsAssumption, <1>2 DEF LockHead, Goes, KeepsBuffer, KeepsRest, receiver,
      buffer, thread, points, index, Shape, RecerInv, RecerAccounted
<1>3. ASSUME NEW b \in Buffers, CheckReady(b) PROVE RecerInv'
  BY ConstantsAssumption, <1>3 DEF CheckReady, Goes, KeepsBuffer, KeepsRest, receiver,
      buffer, thread, points, index, Shape, RecerInv, RecerAccounted
<1>4. ASSUME NEW b \in Buffers, Sleep(b) PROVE RecerInv'
  BY ConstantsAssumption, <1>4 DEF Sleep, Goes, KeepsBuffer, KeepsRest, receiver, buffer,
      thread, points, index, Shape, RecerInv, RecerAccounted
<1>5. ASSUME NEW b \in Buffers, SpuriousWakeup(b) PROVE RecerInv'
  BY ConstantsAssumption, <1>5 DEF SpuriousWakeup, Goes, KeepsBuffer, KeepsRest, receiver,
      buffer, thread, points, index, Shape, RecerInv, RecerAccounted
<1>6. ASSUME NEW b \in Buffers, WokeUp(b) PROVE RecerInv'
  BY ConstantsAssumption, <1>6 DEF WokeUp, Goes, KeepsBuffer, KeepsRest, receiver, buffer,
      thread, points, index, Shape, RecerInv, RecerAccounted
<1>7. ASSUME NEW b \in Buffers, StartWork(b) PROVE RecerInv'
  <2>1. \A c \in Buffers : pc'[c] = pc[c] \/ (pc[c] = "work" /\ pc'[c] \in {"acquire", "top"})
    BY <1>7 DEF StartWork, Shape
  <2>2. UNCHANGED <<recer, disklist>>
    BY <1>7 DEF StartWork, KeepsBuffer, points
  <2>. QED BY <2>1, <2>2 DEF RecerInv, RecerAccounted
<1>8. ASSUME NEW b \in Buffers, NoRecPoint(b) PROVE RecerInv'
  BY ConstantsAssumption, <1>8 DEF NoRecPoint, Retry, Fit, receiver, buffer, thread,
      points, index, Shape, RecerInv, RecerAccounted
<1>9. ASSUME NEW b \in Buffers, WriteBytes(b) PROVE RecerInv'
  BY ConstantsAssumption, <1>9 DEF WriteBytes, AfterWrite, receiver, buffer, thread,
      points, index, Shape, RecerInv, RecerAccounted
<1>10. ASSUME NEW b \in Buffers, WriteError(b) PROVE RecerInv'
  BY ConstantsAssumption, <1>10 DEF WriteError, AfterWrite, receiver, buffer, thread,
      points, index, Shape, RecerInv, RecerAccounted
<1>11. ASSUME NEW b \in Buffers, EventDone(b) \/ EventShort(b) PROVE RecerInv'
  BY ConstantsAssumption, <1>11 DEF EventDone, EventShort, Reported, AfterPoll, receiver,
      buffer, thread, points, index, Shape, RecerInv, RecerAccounted
<1>12. ASSUME NEW b \in Buffers, NoEvent(b) PROVE RecerInv'
  BY ConstantsAssumption, <1>12 DEF NoEvent, Goes, KeepsBuffer, KeepsRest, receiver,
      buffer, thread, points, index, Shape, RecerInv, RecerAccounted
<1>13. ASSUME NEW b \in Buffers, EventError(b) PROVE RecerInv'
  BY ConstantsAssumption, <1>13 DEF EventError, Retry, HandleError, receiver, buffer,
      thread, points, index, Shape, RecerInv, RecerAccounted
<1>14. ASSUME NEW b \in Buffers, ReleaseRec(b) PROVE RecerInv'
  BY ConstantsAssumption, <1>14 DEF ReleaseRec, Goes, receiver, buffer, thread, points,
      index, Shape, RecerInv, RecerAccounted
<1>15. ASSUME NEW b \in Buffers, MarkWritten(b) PROVE RecerInv'
  BY ConstantsAssumption, <1>15 DEF MarkWritten, Goes, KeepsBuffer, receiver, buffer,
      thread, points, index, Shape, RecerInv, RecerAccounted
<1>16. ASSUME NEW b \in Buffers, FreeBuffer(b) PROVE RecerInv'
  BY ConstantsAssumption, <1>16 DEF FreeBuffer, Goes, receiver, buffer, thread, points,
      index, Shape, RecerInv, RecerAccounted
<1>17. ASSUME NEW b \in Buffers, ClearReady(b) PROVE RecerInv'
  BY ConstantsAssumption, <1>17 DEF ClearReady, Goes, receiver, buffer, thread, points,
      index, Shape, RecerInv, RecerAccounted
<1>18. ASSUME NEW b \in Buffers, NEW d \in Disks, OpenFile(b, d) PROVE RecerInv'
  <2>1. recer[b] = None /\ \A c \in Buffers : recer[c] # d
    BY <1>18 DEF OpenFile, Goes, Fit, Shape, RecerInv, RecerAccounted
  <2>2. /\ recer' = [recer EXCEPT ![b] = d] /\ disklist' = [disklist EXCEPT ![d] = "busy"]
        /\ pc' = [pc EXCEPT ![b] = "write"]
    BY <1>18 DEF OpenFile, Goes
  <2>3. \A c \in Buffers : recer'[c] # None <=> pc'[c] \in {"write", "poll", "release"}
    BY <2>2, ConstantsAssumption DEF Shape, RecerInv
  <2>4. RecerAccounted'
    BY <2>1, <2>2, ConstantsAssumption DEF Shape, RecerInv, RecerAccounted
  <2>. QED BY <2>3, <2>4 DEF RecerInv
<1>19. ASSUME NEW b \in Buffers, NEW d \in Disks, OpenFails(b, d) PROVE RecerInv'
  BY ConstantsAssumption, <1>19 DEF OpenFails, Retry, HandleError, Fit, receiver, buffer,
      thread, points, index, Shape, RecerInv, RecerAccounted
<1>20. ASSUME NEW b \in Buffers, FlagStop(b) PROVE RecerInv'
  BY ConstantsAssumption, <1>20 DEF FlagStop, receiver, buffer, thread, points, index,
      Shape, RecerInv, RecerAccounted
<1>21. ASSUME NEW b \in Buffers, SignalStop(b) PROVE RecerInv'
  BY ConstantsAssumption, <1>21 DEF SignalStop, KeepsBuffer, Wake, receiver, buffer,
      thread, points, index, Shape, RecerInv, RecerAccounted
<1>22. ASSUME NoBuffer PROVE RecerInv'
  BY ConstantsAssumption, <1>22 DEF NoBuffer, receiver, buffer, thread, points, index,
      Shape, RecerInv, RecerAccounted
<1>23. ASSUME StopReceiving PROVE RecerInv'
  BY ConstantsAssumption, <1>23 DEF StopReceiving, receiver, buffer, thread, points,
      index, Shape, RecerInv, RecerAccounted
<1>24. ASSUME HandOver PROVE RecerInv'
  BY ConstantsAssumption, <1>24 DEF HandOver, Wake, receiver, buffer, thread, points,
      index, Shape, RecerInv, RecerAccounted
<1>25. ASSUME CancelWritebuf PROVE RecerInv'
  BY ConstantsAssumption, <1>25 DEF CancelWritebuf, receiver, buffer, thread, points,
      index, Shape, RecerInv, RecerAccounted
<1>26. ASSUME NEW b \in Buffers, Take(b) PROVE RecerInv'
  BY ConstantsAssumption, <1>26 DEF Take, receiver, buffer, thread, points, index, Shape,
      RecerInv, RecerAccounted
<1>27. ASSUME NEW i \in 1..2, NEW n \in LastSizes \cup {BufSize}, Fill(i, n) PROVE RecerInv'
  BY ConstantsAssumption, <1>27 DEF Fill, receiver, buffer, thread, points, index, Shape,
      RecerInv, RecerAccounted
<1>28. CASE UNCHANGED vars
  BY ConstantsAssumption, <1>28 DEF vars, receiver, buffer, thread, points, index, Shape,
      RecerInv, RecerAccounted
<1>. QED BY <1>1, <1>2, <1>3, <1>4, <1>5, <1>6, <1>7, <1>8, <1>9, <1>10, <1>11, <1>12,
    <1>13, <1>14, <1>15, <1>16, <1>17, <1>18, <1>19, <1>20, <1>21, <1>22, <1>23, <1>24,
    <1>25, <1>26, <1>27, <1>28 DEF Next, Receive, PassOn, Stop, Continue

-----------------------------------------------------------------------------
(* The theorems                                                             *)

\* The invariants hold from the start on.
THEOREM Invariance == Spec => [](Shape /\ BuffersInv /\ RecerInv)
<1>1. Init => Shape /\ BuffersInv /\ RecerInv
  BY ConstantsAssumption
  DEF Init, Shape, PCs, BuffersInv, BufferInv, NoneTwice, Filled, Working, RecerInv, RecerAccounted
<1>2. Shape /\ BuffersInv /\ RecerInv /\ [Next]_vars => (Shape /\ BuffersInv /\ RecerInv)'
  BY ShapeStep, BuffersStep, RecerStep
<1>. QED BY <1>1, <1>2, PTL DEF Spec

\* While a thread writes its buffer, from the time it looks for a recording point until
\* it is about to free the buffer, nobody else has the buffer and no receiver fills it
\* (sbuf_simple_write_loop against sbuf_acquire and sbuf_set_ready_and_signal).
THEOREM WritersAreAlone == Spec => []WriterAlone
<1>1. Shape /\ BuffersInv => WriterAlone
  BY DEF Shape, BuffersInv, BufferInv, Filled, WriterAlone
<1>. QED BY <1>1, Invariance, PTL

\* A recording point is on busylist exactly while one thread has it as its recer,
\* whichever way write_buffer ends.
THEOREM RecersAreAccounted == Spec => []RecerAccounted
<1>1. RecerInv => RecerAccounted
  BY DEF RecerInv
<1>. QED BY <1>1, Invariance, PTL

-----------------------------------------------------------------------------
(* What is written                                                           *)

\* def_write reports what it could not write as written; nothing else does.
Honest == backend = "aio" \/ "write" \notin Faults

Aligned(x) == x % BLOCK_ALIGN = 0

\* The places that requests write to; no two write to the same.
Span(r) == r.at..(r.at + r.count - 1)
UnitsOf(S) == UNION {Span(r) : r \in S}
Separate(S) == \A r, q \in S : r # q => r.at + r.count <= q.at \/ q.at + q.count <= r.at
Within(S, n) == \A r \in S : r.at + r.count <= n

\* How much of a recording point's file is not under way any more.
Landed(d) == offset[d] - Cardinality(UnitsOf(inflight[d]))

\* The bounds of TypeOK, where Shape has none.
Bounds ==
  /\ begun \in 0..NFiles
  /\ given \in [Files -> 0..BufSize]
  /\ fileid \in [Buffers -> Files \cup {-1}]
  /\ diff \in [Buffers -> 0..BufSize]
  /\ bufoffset \in [Buffers -> 0..BufSize]
  /\ asyncdiff \in [Buffers -> 0..(ULONG - 1)]
  /\ savedif \in [Buffers -> 0..BufSize]
  /\ stopping \in [Buffers -> {"no", "flagged", "signalled"}]
  /\ full \in SUBSET Disks
  /\ offset \in [Disks -> 0..BufSize]
  /\ inflight \in [Disks -> SUBSET Requests]
  /\ disk \in [Disks -> [Files -> SUBSET (Places \X Places)]]
  /\ status \in [Files -> SUBSET {"ONDISK", "MISSING", "BUSY"}]
  /\ diskid \in [Files -> Disks \cup {None}]
  /\ n_files \in 0..NFiles
  /\ backend \in Backends

\* The buffer's content was handed over, and it is not known to be stored.
Handed(b) == list[b] # "free" /\ ready_to_act[b] /\ pc[b] \notin {"done", "freed"}

\* What a buffer knows of its file.
FileInv(b) ==
  /\ fileid[b] < begun
  /\ Filled(b) => fileid[b] \in Files /\ given[fileid[b]] = 0 /\ status[fileid[b]] = {}
  /\ Handed(b) => fileid[b] \in Files /\ given[fileid[b]] > 0 /\ ~SaysWritten(fileid[b])
  /\ Handed(b) /\ pc[b] \notin Working => diff[b] = given[fileid[b]]
  /\ pc[b] \in Working \ {"done"} => savedif[b] = given[fileid[b]]
  /\ pc[b] = "acquire" => diff[b] = savedif[b]
  /\ list[b] = "busy" /\ pc[b] \notin Working \ {"acquire"} => bufoffset[b] = 0
  /\ list[b] = "removed" => Handed(b) /\ pc[b] \notin Working /\ ~running[b]

\* What is under way and what is there while a thread writes.
TransferInv(d, f) ==
  /\ \A r \in inflight[d] : r.from = r.at /\ Aligned(r.count)
  /\ Separate(inflight[d]) /\ Within(inflight[d], offset[d])
  /\ \A k \in 0..(offset[d] - 1) : k \in UnitsOf(inflight[d]) \/ <<k, k>> \in disk[d][f]
  /\ Aligned(Landed(d))

WriteInv(b) ==
  pc[b] \in {"write", "poll"} =>
    LET d == recer[b]
        f == fileid[b]
    IN /\ diskid[f] = d
       /\ TransferInv(d, f)
       /\ offset[d] = Padded(bufoffset[b])
       /\ bufoffset[b] <= savedif[b]
       /\ diff[b] > 0 => bufoffset[b] + diff[b] = savedif[b] /\ Aligned(bufoffset[b])
       /\ pc[b] = "write" => diff[b] > 0
       /\ backend = "aio" => asyncdiff[b] = (savedif[b] - Landed(d)) % ULONG
       /\ backend = "def" => pc[b] = "write" /\ inflight[d] = {}

\* A thread that has left its write loop, with and without its recording point.
WroteInv(b) ==
  /\ pc[b] = "release" => diskid[fileid[b]] = recer[b] /\ inflight[recer[b]] = {}
  /\ pc[b] \in {"release", "mark"} =>
       diskid[fileid[b]] \in Disks /\ (Honest => Whole(diskid[fileid[b]], fileid[b]))

StoreInv ==
  /\ Bounds
  /\ \A b \in Buffers : FileInv(b) /\ WriteInv(b) /\ WroteInv(b)
  /\ \A b, c \in Buffers : fileid[b] = fileid[c] /\ fileid[b] # -1 => b = c
  /\ \A f \in Files : f >= begun => given[f] = 0 /\ status[f] = {}
  /\ \A d \in Disks : disklist[d] # "busy" => inflight[d] = {}
  /\ Honest => WrittenWhole

-----------------------------------------------------------------------------
(* Whole blocks                                                              *)

\* A block has a size.
LEMMA BlockIs == BLOCK_ALIGN \in Nat /\ BLOCK_ALIGN > 0
BY ConstantsAssumption

LEMMA AlignedIs ==
  ASSUME NEW x \in Nat
  PROVE  /\ Aligned(x) => \E k \in Nat : x = k * BLOCK_ALIGN
         /\ \A k \in Nat : x = k * BLOCK_ALIGN => Aligned(x)
<1> DEFINE B == BLOCK_ALIGN
<1>1. x \div B \in Nat /\ x % B \in 0..(B - 1) /\ x = (x \div B) * B + (x % B)
  BY BlockIs
<1>2. ASSUME NEW k \in Nat, x = k * B PROVE x % B = 0
  BY BlockIs, <1>2
<1>3. Aligned(x) => x = (x \div B) * B
  <2> DEFINE y == (x \div B) * B
             z == x % B
  <2>1. x = y + z /\ y \in Nat /\ z \in Nat /\ (Aligned(x) => z = 0)
    BY <1>1, BlockIs DEF Aligned
  <2> HIDE DEF y, z
  <2>2. Aligned(x) => x = y
    BY <2>1
  <2> QED
    BY <2>2 DEF y
<1> QED
  BY <1>1, <1>2, <1>3 DEF Aligned

\* Sums and differences of whole blocks are whole blocks.
LEMMA AlignedSum ==
  ASSUME NEW x \in Nat, NEW y \in Nat, Aligned(x), Aligned(y)
  PROVE  /\ Aligned(x + y)
         /\ y <= x => Aligned(x - y)
<1>1. PICK j \in Nat : x = j * BLOCK_ALIGN
  BY AlignedIs
<1>2. PICK k \in Nat : y = k * BLOCK_ALIGN
  BY AlignedIs
<1>3. x + y = (j + k) * BLOCK_ALIGN /\ j + k \in Nat /\ x + y \in Nat
  BY <1>1, <1>2, BlockIs
<1>4. ASSUME y <= x PROVE Aligned(x - y)
  <2>1. k <= j
    <3>1. SUFFICES ASSUME j + 1 <= k PROVE FALSE
      BY <1>1, <1>2
    <3>2. PICK m \in Nat : k = j + 1 + m
      <4>1. k - (j + 1) \in Nat /\ k = j + 1 + (k - (j + 1))
        BY <1>1, <1>2, <3>1
      <4> QED
        BY <4>1
    <3>3. k * BLOCK_ALIGN = j * BLOCK_ALIGN + BLOCK_ALIGN + m * BLOCK_ALIGN
      BY <3>2, <1>1, BlockIs
    <3>4. m * BLOCK_ALIGN \in Nat /\ j * BLOCK_ALIGN \in Nat
      BY <3>2, <1>1, BlockIs
    <3> DEFINE p == m * BLOCK_ALIGN
               q == j * BLOCK_ALIGN
    <3>5. y = q + BLOCK_ALIGN + p /\ x = q /\ p \in Nat /\ q \in Nat
      BY <1>1, <1>2, <3>3, <3>4
    <3> HIDE DEF p, q
    <3> QED
      BY <1>4, <3>5, BlockIs
  <2>2. j - k \in Nat /\ x - y \in Nat
    BY <1>1, <1>2, <1>4, <2>1
  <2>3. x - y = (j - k) * BLOCK_ALIGN
    BY <1>1, <1>2, BlockIs
  <2> QED
    BY <2>2, <2>3, AlignedIs
<1> QED
  BY <1>3, <1>4, AlignedIs

\* Padding fills the last block.
LEMMA PaddedIs ==
  ASSUME NEW n \in Nat
  PROVE  /\ Padded(n) \in Nat /\ Aligned(Padded(n))
         /\ n <= Padded(n) /\ Padded(n) < n + BLOCK_ALIGN
<1> DEFINE B == BLOCK_ALIGN
           m == n + B - 1
           q == m \div B
           r == m % B
<1>1. m \in Nat
  BY BlockIs
<1> HIDE DEF m
<1>2. q \in Nat /\ r \in 0..(B - 1) /\ m = q * B + r
  BY <1>1, BlockIs
<1>3. Padded(n) = q * B /\ q * B \in Nat
  BY <1>2, BlockIs DEF Padded, m
<1> HIDE DEF q, r
<1>4. Aligned(q * B)
  BY <1>2, <1>3, AlignedIs
<1> DEFINE p == q * B
<1>5. p \in Nat /\ m = p + r
  BY <1>2, <1>3
<1> HIDE DEF p
<1>6. n <= p /\ p < n + B
  BY <1>2, <1>5, BlockIs DEF m
<1> QED
  BY <1>3, <1>4, <1>5, <1>6 DEF p

\* Two whole blocks are equal or a block apart.
LEMMA BlocksApart ==
  ASSUME NEW x \in Nat, NEW y \in Nat, Aligned(x), Aligned(y), x < y + BLOCK_ALIGN
  PROVE  x <= y
<1>1. SUFFICES ASSUME y < x PROVE FALSE
  OBVIOUS
<1>2. Aligned(x - y) /\ x - y \in Nat /\ x - y > 0 /\ x - y < BLOCK_ALIGN
  BY <1>1, AlignedSum, BlockIs
<1> DEFINE z == x - y
<1>3. z \in Nat /\ z > 0 /\ z < BLOCK_ALIGN /\ Aligned(z)
  BY <1>2
<1> HIDE DEF z
<1>4. PICK k \in Nat : z = k * BLOCK_ALIGN
  BY <1>3, AlignedIs
<1>5. k # 0
  BY <1>3, <1>4, BlockIs
<1>6. k - 1 \in Nat /\ k * BLOCK_ALIGN = (k - 1) * BLOCK_ALIGN + BLOCK_ALIGN
  BY <1>5, BlockIs
<1>7. (k - 1) * BLOCK_ALIGN \in Nat
  BY <1>6, BlockIs
<1> QED
  BY <1>3, <1>4, <1>6, <1>7, BlockIs

\* What fits into whole blocks fits when it is padded.
LEMMA PaddedFits ==
  ASSUME NEW n \in Nat, NEW y \in Nat, Aligned(y)
  PROVE  /\ n <= y => Padded(n) <= y
         /\ n = y => Padded(n) = n
<1>1. /\ Padded(n) \in Nat /\ Aligned(Padded(n)) /\ n <= Padded(n)
      /\ Padded(n) < n + BLOCK_ALIGN
  BY PaddedIs
<1>2. n <= y => Padded(n) < y + BLOCK_ALIGN
  BY <1>1, BlockIs
<1> QED
  BY <1>1, <1>2, BlocksApart

\* Padding what is added to whole blocks.
LEMMA PaddedSum ==
  ASSUME NEW x \in Nat, NEW n \in Nat, Aligned(x)
  PROVE  Padded(x + n) = x + Padded(n)
<1>1. /\ Padded(n) \in Nat /\ Aligned(Padded(n)) /\ n <= Padded(n) /\ Padded(n) < n + BLOCK_ALIGN
  BY PaddedIs
<1>2. x + n \in Nat /\ x + Padded(n) \in Nat /\ Aligned(x + Padded(n))
  BY <1>1, AlignedSum
<1>3. /\ Padded(x + n) \in Nat /\ Aligned(Padded(x + n)) /\ x + n <= Padded(x + n)
      /\ Padded(x + n) < x + n + BLOCK_ALIGN
  BY <1>2, PaddedIs
<1>4. Padded(x + n) <= x + Padded(n)
  BY <1>1, <1>2, PaddedFits
<1>5. x + Padded(n) <= Padded(x + n)
  <2>1. x + Padded(n) < Padded(x + n) + BLOCK_ALIGN
    BY <1>1, <1>3, BlockIs
  <2> QED
    BY <1>2, <1>3, <2>1, BlocksApart
<1> QED
  BY <1>2, <1>3, <1>4, <1>5

\* A write and the buffer are whole blocks.
LEMMA SizesAligned ==
  /\ Limit \in Nat /\ Limit > 0 /\ Aligned(Limit)
  /\ BufSize \in Nat /\ BufSize > 0 /\ Aligned(BufSize) /\ BufSize < ULONG /\ ULONG \in Nat
  /\ Aligned(0) /\ Padded(0) = 0
<1>1. /\ Limit \in Nat /\ Limit > 0 /\ BufSize \in Nat /\ BufSize > 0 /\ BufSize < ULONG
      /\ ULONG \in Nat /\ Limit % BLOCK_ALIGN = 0 /\ BufSize % Limit = 0
  BY ConstantsAssumption, SizesAssumption
<1>2. BufSize \div Limit \in Nat /\ BufSize = (BufSize \div Limit) * Limit + (BufSize % Limit)
  BY <1>1
<1>3. BufSize = (BufSize \div Limit) * Limit
  <2> DEFINE y == (BufSize \div Limit) * Limit
  <2>1. y \in Nat /\ BufSize = y + 0
    BY <1>1, <1>2
  <2> HIDE DEF y
  <2>2. BufSize = y
    BY <2>1
  <2> QED
    BY <2>2 DEF y
<1>4. PICK k \in Nat : Limit = k * BLOCK_ALIGN
  BY <1>1, AlignedIs DEF Aligned
<1> DEFINE q == BufSize \div Limit
<1>5. q \in Nat /\ BufSize = q * Limit
  BY <1>2, <1>3
<1> HIDE DEF q
<1>6. BufSize = (q * k) * BLOCK_ALIGN /\ q * k \in Nat
  BY <1>4, <1>5, BlockIs
<1>7. Aligned(BufSize)
  BY <1>1, <1>6, AlignedIs
<1>8. Aligned(0)
  BY BlockIs DEF Aligned
<1>9. Padded(0) = 0
  BY <1>8, PaddedFits
<1> QED
  BY <1>1, <1>7, <1>8, <1>9 DEF Aligned

-----------------------------------------------------------------------------
(* Counting what is under way                                                *)

LEMMA SpanIs ==
  ASSUME NEW r \in Requests
  PROVE  /\ IsFiniteSet(Span(r)) /\ Cardinality(Span(r)) = r.count
         /\ Span(r) \subseteq Nat /\ r.at \in Span(r)
         /\ r.at \in Nat /\ r.count \in Nat /\ r.count > 0
         /\ \A k \in Span(r) : k >= r.at /\ k < r.at + r.count
<1>1. r.at \in 0..BufSize /\ r.count \in 1..BufSize /\ BufSize \in Nat
  BY SizesAligned DEF Requests
<1>2. r.at \in Nat /\ r.count \in Nat /\ r.count > 0
  BY <1>1
<1> DEFINE a == r.at
           n == r.count
<1>3. a \in Nat /\ n \in Nat /\ n > 0
  BY <1>2
<1> HIDE DEF a, n
<1>4. a \in Int /\ a + n - 1 \in Int /\ ~(a > a + n - 1) /\ (a + n - 1) - a + 1 = n
  BY <1>3
<1>5. IsFiniteSet(a..(a + n - 1)) /\ Cardinality(a..(a + n - 1)) = (a + n - 1) - a + 1
  BY <1>4, FS_Interval
<1>6. Span(r) = a..(a + n - 1)
  BY DEF Span, a, n
<1>7. /\ Span(r) \subseteq Nat /\ a \in Span(r)
      /\ \A k \in Span(r) : k >= a /\ k < a + n
  BY <1>3, <1>6
<1> QED
  BY <1>3, <1>4, <1>5, <1>6, <1>7 DEF a, n

\* What is under way is part of what was submitted.
LEMMA Submitted ==
  ASSUME NEW S \in SUBSET Requests, NEW n \in Nat, Within(S, n)
  PROVE  /\ IsFiniteSet(UnitsOf(S)) /\ UnitsOf(S) \subseteq 0..(n - 1)
         /\ Cardinality(UnitsOf(S)) \in 0..n
         /\ S = {} <=> UnitsOf(S) = {}
<1>1. UnitsOf(S) \subseteq 0..(n - 1)
  <2>1. ASSUME NEW r \in S, NEW k \in Span(r) PROVE k \in 0..(n - 1)
    <3>1. k \in Nat /\ k < r.at + r.count /\ r.at \in Nat /\ r.count \in Nat
      BY <2>1, SpanIs
    <3>2. r.at + r.count <= n
      BY DEF Within
    <3> QED
      BY <3>1, <3>2
  <2> QED
    BY <2>1 DEF UnitsOf
<1>2. IsFiniteSet(0..(n - 1)) /\ Cardinality(0..(n - 1)) = n
  <2>1. n - 1 \in Int /\ (0 > n - 1 => n = 0) /\ (n - 1) - 0 + 1 = n
    OBVIOUS
  <2> QED
    BY <2>1, FS_Interval
<1>3. IsFiniteSet(UnitsOf(S)) /\ Cardinality(UnitsOf(S)) <= n
  BY <1>1, <1>2, FS_Subset
<1>4. Cardinality(UnitsOf(S)) \in 0..n
  BY <1>3, FS_CardinalityType
<1>5. S = {} <=> UnitsOf(S) = {}
  BY SpanIs DEF UnitsOf
<1> QED
  BY <1>1, <1>3, <1>4, <1>5

\* One more write is submitted, behind the others.
LEMMA Submits ==
  ASSUME NEW S \in SUBSET Requests, NEW n \in Nat, Within(S, n), Separate(S),
         NEW r \in Requests, r.at = n
  PROVE  /\ Separate(S \cup {r}) /\ Within(S \cup {r}, n + r.count)
         /\ UnitsOf(S \cup {r}) = UnitsOf(S) \cup Span(r)
         /\ Cardinality(UnitsOf(S \cup {r})) = Cardinality(UnitsOf(S)) + r.count
<1>1. \A q \in S : q.at + q.count <= n /\ q.at \in Nat /\ q.count \in Nat
  BY SpanIs DEF Within
<1>2. r.at = n /\ r.count \in Nat
  BY SpanIs
<1>3. Separate(S \cup {r})
  BY <1>1, <1>2 DEF Separate
<1>4. Within(S \cup {r}, n + r.count)
  BY <1>1, <1>2 DEF Within
<1>5. UnitsOf(S \cup {r}) = UnitsOf(S) \cup Span(r)
  BY DEF UnitsOf
<1>6. UnitsOf(S) \cap Span(r) = {}
  <2>1. UnitsOf(S) \subseteq 0..(n - 1)
    BY Submitted
  <2>2. \A k \in Span(r) : k >= n
    BY <1>2, SpanIs
  <2> QED
    BY <2>1, <2>2
<1>7. /\ IsFiniteSet(UnitsOf(S)) /\ IsFiniteSet(Span(r)) /\ Cardinality(Span(r)) = r.count
      /\ Cardinality(UnitsOf(S)) \in Nat
  BY Submitted, SpanIs, FS_CardinalityType
<1>8. Cardinality(UnitsOf(S) \cup Span(r)) = Cardinality(UnitsOf(S)) + r.count - Cardinality({})
  BY <1>6, <1>7, FS_Union
<1>9. Cardinality(UnitsOf(S) \cup Span(r)) = Cardinality(UnitsOf(S)) + r.count
  <2> DEFINE c == Cardinality(UnitsOf(S))
             m == r.count
             z == Cardinality({})
  <2>1. z = 0 /\ c \in Nat /\ m \in Nat /\ Cardinality(UnitsOf(S) \cup Span(r)) = c + m - z
    BY <1>2, <1>7, <1>8, FS_EmptySet
  <2> HIDE DEF c, m, z
  <2>2. c + m - z = c + m
    BY <2>1
  <2> QED
    BY <2>1, <2>2 DEF c, m
<1>10. Cardinality(UnitsOf(S \cup {r})) = Cardinality(UnitsOf(S)) + r.count
  BY <1>5, <1>9
<1> QED
  BY <1>3, <1>4, <1>5, <1>10

\* One of the writes completes.
LEMMA Completes ==
  ASSUME NEW S \in SUBSET Requests, NEW n \in Nat, Within(S, n), Separate(S), NEW r \in S
  PROVE  /\ Separate(S \ {r}) /\ Within(S \ {r}, n)
         /\ UnitsOf(S \ {r}) = UnitsOf(S) \ Span(r)
         /\ Cardinality(UnitsOf(S \ {r})) = Cardinality(UnitsOf(S)) - r.count
<1>1. Separate(S \ {r}) /\ Within(S \ {r}, n)
  BY DEF Separate, Within
<1>2. ASSUME NEW q \in S \ {r} PROVE Span(q) \cap Span(r) = {}
  <2>1. r.at + r.count <= q.at \/ q.at + q.count <= r.at
    BY <1>2 DEF Separate
  <2>2. /\ \A k \in Span(r) : k \in Nat /\ k >= r.at /\ k < r.at + r.count
        /\ \A k \in Span(q) : k \in Nat /\ k >= q.at /\ k < q.at + q.count
        /\ r.at \in Nat /\ r.count \in Nat /\ q.at \in Nat /\ q.count \in Nat
    BY SpanIs
  <2> QED
    BY <2>1, <2>2
<1>3. UnitsOf(S \ {r}) = UnitsOf(S) \ Span(r)
  BY <1>2 DEF UnitsOf
<1>4. UnitsOf(S) \cap Span(r) = Span(r)
  BY DEF UnitsOf
<1>5. IsFiniteSet(UnitsOf(S)) /\ Cardinality(Span(r)) = r.count
  BY Submitted, SpanIs
<1>6. /\ Cardinality(UnitsOf(S) \ Span(r))
           = Cardinality(UnitsOf(S)) - Cardinality(UnitsOf(S) \cap Span(r))
  BY <1>5, FS_Difference
<1>7. Cardinality(UnitsOf(S) \ Span(r)) = Cardinality(UnitsOf(S)) - r.count
  BY <1>4, <1>5, <1>6
<1> QED
  BY <1>1, <1>3, <1>7

\* One of the writes ends, all of it or a part: the rest still counts.
LEMMA Ends ==
  ASSUME NEW S \in SUBSET Requests, NEW n \in 0..BufSize, Within(S, n), Separate(S),
         \A q \in S : q.from = q.at /\ Aligned(q.count),
         NEW r \in S, NEW m \in Nat, m > 0, m <= r.count, Aligned(m),
         NEW T, T = (S \ {r}) \cup Rest(r, m)
  PROVE  /\ T \in SUBSET Requests /\ Separate(T) /\ Within(T, n)
         /\ \A q \in T : q.from = q.at /\ Aligned(q.count)
         /\ UnitsOf(T) = UnitsOf(S) \ (r.at..(r.at + m - 1))
         /\ Cardinality(UnitsOf(T)) = Cardinality(UnitsOf(S)) - m
<1>1. n \in Nat /\ n <= BufSize /\ r \in Requests
  BY SizesAligned
<1>2. /\ r.at \in Nat /\ r.count \in Nat /\ r.count > 0 /\ r.from = r.at
      /\ Aligned(r.count) /\ r.at + r.count <= n
  BY <1>1, SpanIs DEF Within
<1> DEFINE R == S \ {r}
<1>3. /\ R \in SUBSET Requests /\ Separate(R) /\ Within(R, n)
      /\ UnitsOf(R) = UnitsOf(S) \ Span(r)
      /\ Cardinality(UnitsOf(R)) = Cardinality(UnitsOf(S)) - r.count
  BY <1>1, Completes
<1>4. IsFiniteSet(UnitsOf(R)) /\ Cardinality(UnitsOf(R)) \in Nat
  <2>1. n \in Nat /\ R \in SUBSET Requests /\ Within(R, n)
    BY <1>1, <1>3
  <2> HIDE DEF R
  <2>2. IsFiniteSet(UnitsOf(R)) /\ Cardinality(UnitsOf(R)) \in 0..n
    BY <2>1, Submitted
  <2> QED
    BY <2>1, <2>2
<1>5. Cardinality(UnitsOf(S)) \in Nat
  BY <1>1, Submitted
<1>6. CASE m = r.count
  <2>1. T = R
    BY <1>6 DEF Rest
  <2>2. Span(r) = r.at..(r.at + m - 1)
    BY <1>6 DEF Span
  <2> HIDE DEF R
  <2>3. UnitsOf(T) = UnitsOf(S) \ (r.at..(r.at + m - 1))
    BY <1>3, <2>1, <2>2
  <2>4. Cardinality(UnitsOf(T)) = Cardinality(UnitsOf(S)) - m
    BY <1>3, <1>6, <2>1
  <2>5. \A q \in T : q \in S
    BY <2>1 DEF R
  <2> QED
    BY <1>3, <2>1, <2>3, <2>4, <2>5
<1>7. CASE m # r.count
  <2> DEFINE q == [at |-> r.at + m, from |-> r.from + m, count |-> r.count - m, lost |-> TRUE]
  <2>1. T = R \cup {q}
    BY <1>7 DEF Rest
  <2>2. q.at = r.at + m /\ q.from = q.at /\ q.count = r.count - m
    BY <1>2
  <2>3. q \in Requests
    <3>1. r.at + m \in 0..BufSize /\ r.count - m \in 1..BufSize
      BY <1>1, <1>2, <1>7, SizesAligned
    <3> QED
      BY <1>2, <3>1 DEF Requests
  <2>4. Aligned(q.count)
    BY <1>2, <2>2, AlignedSum
  <2>5. q.at \in Nat /\ q.count \in Nat /\ q.at + q.count = r.at + r.count
    BY <1>2, <2>2
  <2>6. Span(q) = (r.at + m)..(r.at + r.count - 1)
    <3> HIDE DEF q
    <3>1. q.at + q.count - 1 = r.at + r.count - 1
      BY <1>2, <2>5
    <3> QED
      BY <2>2, <3>1 DEF Span
  <2> HIDE DEF q
  <2>7. \A p \in R : p.at \in Nat /\ p.count \in Nat
                     /\ (r.at + r.count <= p.at \/ p.at + p.count <= r.at)
    <3>1. ASSUME NEW p \in R
          PROVE  /\ p.at \in Nat /\ p.count \in Nat
                 /\ r.at + r.count <= p.at \/ p.at + p.count <= r.at
      <4>1. p \in S /\ p # r /\ p \in Requests
        OBVIOUS
      <4> QED
        BY <4>1, SpanIs DEF Separate
    <3> QED
      BY <3>1
  <2>8. \A p \in R : q.at + q.count <= p.at \/ p.at + p.count <= q.at
    <3>1. ASSUME NEW p \in R PROVE q.at + q.count <= p.at \/ p.at + p.count <= q.at
      <4>1. /\ p.at \in Nat /\ p.count \in Nat
            /\ r.at + r.count <= p.at \/ p.at + p.count <= r.at
        BY <2>7
      <4> QED
        BY <1>2, <2>2, <2>5, <4>1
    <3> QED
      BY <3>1
  <2>9. Separate(T)
    <3> HIDE DEF R
    <3> QED
      BY <1>3, <2>1, <2>8 DEF Separate
  <2>10. Within(T, n)
    <3> HIDE DEF R
    <3> QED
      BY <1>2, <1>3, <2>1, <2>5 DEF Within
  <2>11. UnitsOf(T) = UnitsOf(R) \cup Span(q)
    <3> HIDE DEF R
    <3> QED
      BY <2>1 DEF UnitsOf
  <2>12. Span(q) \subseteq Span(r) /\ Span(r) \subseteq UnitsOf(S)
    <3>1. \A k \in Span(q) : k \in Span(r)
      <4>1. \A k \in (r.at + m)..(r.at + r.count - 1) : k \in r.at..(r.at + r.count - 1)
        BY <1>2
      <4> QED
        BY <2>6, <4>1 DEF Span
    <3>2. Span(r) \subseteq UnitsOf(S)
      BY DEF UnitsOf
    <3> QED
      BY <3>1, <3>2
  <2>13. \A k \in Span(r) : k \in Span(q) \/ k \in r.at..(r.at + m - 1)
    <3>1. \A k \in r.at..(r.at + r.count - 1) :
            k \in (r.at + m)..(r.at + r.count - 1) \/ k \in r.at..(r.at + m - 1)
      BY <1>2
    <3> QED
      BY <2>6, <3>1 DEF Span
  <2>14. Span(q) \cap (r.at..(r.at + m - 1)) = {}
    BY <1>2, <2>6
  <2>15. (r.at..(r.at + m - 1)) \subseteq Span(r)
    BY <1>2 DEF Span
  <2>16. UnitsOf(T) = UnitsOf(S) \ (r.at..(r.at + m - 1))
    <3> HIDE DEF R
    <3> QED
      BY <1>3, <2>11, <2>12, <2>13, <2>14, <2>15
  <2>17. Cardinality(UnitsOf(T)) = Cardinality(UnitsOf(S)) - m
    <3> DEFINE a == Cardinality(UnitsOf(R))
               z == Cardinality(UnitsOf(S))
               e == Cardinality({})
    <3>1. IsFiniteSet(Span(q)) /\ Cardinality(Span(q)) = q.count
      BY <2>3, SpanIs
    <3>2. UnitsOf(R) \cap Span(q) = {}
      <4> HIDE DEF R
      <4> QED
        BY <1>3, <2>12
    <3>3. Cardinality(UnitsOf(R) \cup Span(q)) = a + q.count - e
      <4> DEFINE U == UnitsOf(R)
                 V == Span(q)
      <4>1. IsFiniteSet(U) /\ IsFiniteSet(V) /\ U \cap V = {} /\ Cardinality(V) = q.count
        BY <1>4, <3>1, <3>2
      <4> HIDE DEF U, V, R
      <4>2. Cardinality(U \cup V) = Cardinality(U) + Cardinality(V) - Cardinality(U \cap V)
        BY <4>1, FS_Union
      <4>3. Cardinality(U \cup V) = Cardinality(U) + q.count - Cardinality({})
        BY <4>1, <4>2
      <4> QED
        BY <4>3 DEF U, V
    <3>4. e = 0 /\ a = z - r.count /\ a \in Nat /\ z \in Nat
      BY <1>3, <1>4, <1>5, FS_EmptySet
    <3> HIDE DEF a, z, e
    <3>5. a + q.count - e = z - m
      BY <1>2, <2>2, <2>5, <3>4
    <3> QED
      BY <2>11, <3>3, <3>5 DEF z
  <2>18. T \in SUBSET Requests /\ \A p \in T : p.from = p.at /\ Aligned(p.count)
    <3>1. \A p \in R : p.from = p.at /\ Aligned(p.count)
      OBVIOUS
    <3> HIDE DEF R
    <3>2. T \in SUBSET Requests
      BY <1>3, <2>1, <2>3
    <3>3. \A p \in T : p.from = p.at /\ Aligned(p.count)
      BY <2>1, <2>2, <2>4, <3>1
    <3> QED
      BY <3>2, <3>3
  <2> QED
    BY <2>9, <2>10, <2>16, <2>17, <2>18
<1> QED
  BY <1>6, <1>7

-----------------------------------------------------------------------------
(* What a step leaves alone                                                  *)

\* The places of the loop where the thread has no work.
Idle == {"top", "lock", "check", "sleep", "asleep", "woken", "work", "exited"}

\* A buffer and its thread, but for its sleep.
Still(c) ==
  /\ fileid'[c] = fileid[c] /\ diff'[c] = diff[c] /\ bufoffset'[c] = bufoffset[c]
  /\ savedif'[c] = savedif[c] /\ asyncdiff'[c] = asyncdiff[c] /\ recer'[c] = recer[c]
  /\ list'[c] = list[c] /\ ready_to_act'[c] = ready_to_act[c]
  /\ pc'[c] = pc[c] \/ {pc[c], pc'[c]} \subseteq Idle
  /\ running'[c] => running[c]
  /\ Filled(c)' => Filled(c)

\* What the index knows of its file, and the recording point it has.
FileStill(c) ==
  fileid[c] \in Files =>
    given'[fileid[c]] = given[fileid[c]] /\ status'[fileid[c]] = status[fileid[c]]
      /\ diskid'[fileid[c]] = diskid[fileid[c]]
PointStill(c) ==
  recer[c] \in Disks =>
    offset'[recer[c]] = offset[recer[c]] /\ inflight'[recer[c]] = inflight[recer[c]]

\* Nothing that was written is lost.
Grows == \A d \in Disks, f \in Files : disk[d][f] \subseteq disk'[d][f]

LEMMA WorkingIsHanded ==
  ASSUME Shape, BuffersInv, StoreInv, NEW b \in Buffers, pc[b] \in Working \ {"done"}
  PROVE  /\ Handed(b) /\ list[b] = "busy" /\ fileid[b] \in Files
         /\ savedif[b] = given[fileid[b]] /\ savedif[b] \in 1..BufSize
         /\ ~SaysWritten(fileid[b])
<1>1. BufferInv(b) /\ FileInv(b) /\ Bounds
  BY DEF BuffersInv, StoreInv
<1>2. list[b] = "busy" /\ ready_to_act[b] /\ pc[b] \notin {"done", "freed"}
  BY <1>1 DEF BufferInv, Working
<1>3. Handed(b)
  BY <1>2 DEF Handed
<1>4. /\ fileid[b] \in Files /\ given[fileid[b]] > 0 /\ ~SaysWritten(fileid[b])
      /\ savedif[b] = given[fileid[b]]
  BY <1>1, <1>3 DEF FileInv
<1>5. savedif[b] \in 0..BufSize
  BY <1>1 DEF Bounds
<1> QED
  BY <1>2, <1>3, <1>4, <1>5, SizesAligned

\* A buffer that a step leaves alone keeps what it knows.
LEMMA Frame ==
  ASSUME Shape, BuffersInv, RecerInv, StoreInv, NEW c \in Buffers,
         Still(c), FileStill(c), PointStill(c), Grows, begun' >= begun, begun' \in Nat,
         backend' = backend
  PROVE  FileInv(c)' /\ WriteInv(c)' /\ WroteInv(c)'
<1>1. BufferInv(c) /\ FileInv(c) /\ WriteInv(c) /\ WroteInv(c) /\ Bounds
  BY DEF BuffersInv, StoreInv
<1>2. /\ Handed(c)' <=> Handed(c)
      /\ \A S \in {Working, Working \ {"done"}, Working \ {"acquire"}, {"acquire"},
                   {"write", "poll"}, {"write"}, {"poll"}, {"release"}, {"release", "mark"}} :
           pc'[c] \in S <=> pc[c] \in S
  BY DEF Still, Handed, Idle, Working
<1>3. /\ pc'[c] \in Working <=> pc[c] \in Working
      /\ pc'[c] \in Working \ {"done"} <=> pc[c] \in Working \ {"done"}
      /\ pc'[c] \in Working \ {"acquire"} <=> pc[c] \in Working \ {"acquire"}
      /\ pc'[c] = "acquire" <=> pc[c] = "acquire"
      /\ pc'[c] \in {"write", "poll"} <=> pc[c] \in {"write", "poll"}
      /\ pc'[c] = "write" <=> pc[c] = "write"
      /\ pc'[c] = "release" <=> pc[c] = "release"
      /\ pc'[c] \in {"release", "mark"} <=> pc[c] \in {"release", "mark"}
  BY <1>2
<1>4. /\ fileid'[c] = fileid[c] /\ diff'[c] = diff[c] /\ bufoffset'[c] = bufoffset[c]
      /\ savedif'[c] = savedif[c] /\ asyncdiff'[c] = asyncdiff[c] /\ recer'[c] = recer[c]
      /\ list'[c] = list[c] /\ (Filled(c)' => Filled(c)) /\ (running'[c] => running[c])
  BY DEF Still
<1>5. FileInv(c)'
  <2>1. fileid'[c] < begun'
    <3>1. fileid[c] \in Int /\ begun \in Nat /\ fileid[c] < begun
      BY <1>1, ConstantsAssumption DEF Bounds, Files, FileInv
    <3> QED
      BY <1>4, <3>1
  <2>2. /\ Filled(c)' => fileid'[c] \in Files /\ given'[fileid'[c]] = 0 /\ status'[fileid'[c]] = {}
    BY <1>1, <1>4 DEF FileInv, FileStill
  <2>3. Handed(c)' => /\ fileid'[c] \in Files /\ given'[fileid'[c]] > 0
                      /\ ~SaysWritten(fileid[c])'
    BY <1>1, <1>2, <1>4 DEF FileInv, FileStill, SaysWritten
  <2>4. Handed(c)' /\ pc'[c] \notin Working => diff'[c] = given'[fileid'[c]]
    BY <1>1, <1>2, <1>3, <1>4 DEF FileInv, FileStill
  <2>5. pc'[c] \in Working \ {"done"} => savedif'[c] = given'[fileid'[c]]
    <3>1. pc[c] \in Working \ {"done"} => fileid[c] \in Files
      BY WorkingIsHanded
    <3> QED
      BY <1>1, <1>3, <1>4, <3>1 DEF FileInv, FileStill
  <2>6. /\ pc'[c] = "acquire" => diff'[c] = savedif'[c]
        /\ list'[c] = "busy" /\ pc'[c] \notin Working \ {"acquire"} => bufoffset'[c] = 0
        /\ list'[c] = "removed" => Handed(c)' /\ pc'[c] \notin Working /\ ~running'[c]
    BY <1>1, <1>2, <1>3, <1>4 DEF FileInv
  <2> QED
    BY <2>1, <2>2, <2>3, <2>4, <2>5, <2>6 DEF FileInv
<1>6. ASSUME pc[c] \in {"write", "poll", "release", "mark"}
      PROVE  /\ fileid[c] \in Files /\ given'[fileid[c]] = given[fileid[c]]
             /\ diskid'[fileid[c]] = diskid[fileid[c]]
  <2>1. fileid[c] \in Files
    BY <1>6, WorkingIsHanded DEF Working
  <2> QED
    BY <2>1 DEF FileStill
<1>7. ASSUME pc[c] \in {"write", "poll", "release"}
      PROVE  /\ recer[c] \in Disks /\ offset'[recer[c]] = offset[recer[c]]
             /\ inflight'[recer[c]] = inflight[recer[c]]
  <2>1. recer[c] \in Disks
    BY <1>7 DEF RecerInv, Shape
  <2> QED
    BY <2>1 DEF PointStill
<1>8. WriteInv(c)'
  <2> SUFFICES ASSUME pc'[c] \in {"write", "poll"}
               PROVE  WriteInv(c)'
    BY DEF WriteInv
  <2> DEFINE d == recer[c]
             f == fileid[c]
  <2>1. pc[c] \in {"write", "poll"}
    BY <1>3
  <2>2. /\ d \in Disks /\ f \in Files /\ offset'[d] = offset[d] /\ inflight'[d] = inflight[d]
        /\ diskid'[f] = diskid[f] /\ disk[d][f] \subseteq disk'[d][f]
    BY <1>6, <1>7, <2>1 DEF Grows
  <2>3. /\ diskid[f] = d
        /\ TransferInv(d, f)
        /\ offset[d] = Padded(bufoffset[c])
        /\ bufoffset[c] <= savedif[c]
        /\ diff[c] > 0 => bufoffset[c] + diff[c] = savedif[c] /\ Aligned(bufoffset[c])
        /\ pc[c] = "write" => diff[c] > 0
        /\ backend = "aio" => asyncdiff[c] = (savedif[c] - Landed(d)) % ULONG
        /\ backend = "def" => pc[c] = "write" /\ inflight[d] = {}
    BY <1>1, <2>1 DEF WriteInv
  <2>4. recer'[c] = d /\ fileid'[c] = f
    BY <1>4
  <2> HIDE DEF d, f
  <2>5. offset'[d] - Cardinality(UnitsOf(inflight'[d])) = Landed(d)
    BY <2>2 DEF Landed
  <2>6. /\ \A r \in inflight'[d] : r.from = r.at /\ Aligned(r.count)
        /\ Separate(inflight'[d]) /\ Within(inflight'[d], offset'[d])
        /\ \A k \in 0..(offset'[d] - 1) : k \in UnitsOf(inflight'[d]) \/ <<k, k>> \in disk'[d][f]
        /\ Aligned(offset'[d] - Cardinality(UnitsOf(inflight'[d])))
    BY <2>2, <2>3, <2>5 DEF TransferInv
  <2>7. TransferInv(recer[c], fileid[c])'
    BY <2>4, <2>6 DEF TransferInv, Landed
  <2>8. Landed(recer[c])' = Landed(d)
    BY <2>4, <2>5 DEF Landed
  <2> QED
    BY <1>3, <1>4, <2>2, <2>3, <2>4, <2>7, <2>8 DEF WriteInv
<1>9. WroteInv(c)'
  <2>1. pc'[c] = "release" => diskid'[fileid'[c]] = recer'[c] /\ inflight'[recer'[c]] = {}
    BY <1>1, <1>3, <1>4, <1>6, <1>7 DEF WroteInv
  <2>2. ASSUME pc'[c] \in {"release", "mark"}
        PROVE  /\ diskid'[fileid'[c]] \in Disks
               /\ Honest => Whole(diskid[fileid[c]], fileid[c])'
    <3>1. /\ pc[c] \in {"release", "mark"} /\ diskid[fileid[c]] \in Disks
          /\ (Honest => Whole(diskid[fileid[c]], fileid[c]))
      BY <1>1, <1>3, <2>2 DEF WroteInv
    <3> QED
      BY <1>4, <1>6, <3>1 DEF Whole, Grows
  <2> QED
    BY <2>1, <2>2 DEF WroteInv, Honest
<1> QED
  BY <1>5, <1>8, <1>9

\* A step that leaves the recording points and the index alone.
LEMMA QuietStep ==
  ASSUME Shape, BuffersInv, RecerInv, StoreInv, Bounds', \A c \in Buffers : Still(c),
         UNCHANGED <<begun, given, fileid, status, diskid, disk, offset, inflight, disklist, backend>>
  PROVE  StoreInv'
<1>1. Grows /\ \A c \in Buffers : FileStill(c) /\ PointStill(c)
  BY DEF Grows, FileStill, PointStill
<1>2. begun \in Nat /\ begun >= begun
  BY ConstantsAssumption DEF StoreInv, Bounds
<1>3. \A c \in Buffers : FileInv(c)' /\ WriteInv(c)' /\ WroteInv(c)'
  BY <1>1, <1>2, Frame
<1>4. Honest' => WrittenWhole'
  BY DEF StoreInv, Honest, WrittenWhole, SaysWritten, Whole
<1> QED
  BY <1>3, <1>4 DEF StoreInv

\* A step of one buffer's thread, with a recording point that is its own or that nobody has.
LEMMA OneStep ==
  ASSUME Shape, BuffersInv, RecerInv, StoreInv, Bounds',
         NEW b \in Buffers, NEW d \in Disks \cup {None},
         d # None => recer[b] = d \/ disklist[d] = "free",
         \A c \in Buffers \ {b} : Still(c),
         \A f \in Files : f # fileid[b] =>
           given'[f] = given[f] /\ status'[f] = status[f] /\ diskid'[f] = diskid[f],
         \A e \in Disks \ {d} :
           offset'[e] = offset[e] /\ inflight'[e] = inflight[e] /\ disklist'[e] = disklist[e],
         Grows, UNCHANGED <<begun, fileid, backend>>,
         d # None /\ disklist'[d] # "busy" => inflight'[d] = {},
         FileInv(b)', WriteInv(b)', WroteInv(b)',
         fileid[b] \in Files /\ Honest /\ SaysWritten(fileid[b])' =>
           diskid'[fileid[b]] \in Disks /\ Whole(diskid[fileid[b]], fileid[b])'
  PROVE  StoreInv'
<1>1. /\ \A c, e \in Buffers : fileid[c] = fileid[e] /\ fileid[c] # -1 => c = e
      /\ \A f \in Files : f >= begun => given[f] = 0 /\ status[f] = {}
      /\ \A e \in Disks : disklist[e] # "busy" => inflight[e] = {}
      /\ Honest => WrittenWhole
      /\ FileInv(b) /\ Bounds
  BY DEF StoreInv
<1>2. begun \in Nat /\ begun' >= begun /\ begun' \in Nat /\ None \notin Disks /\ -1 \notin Files
  BY <1>1, ConstantsAssumption DEF Bounds, Files
<1>3. ASSUME NEW c \in Buffers \ {b} PROVE FileStill(c)
  <2>1. fileid[c] \in Files => fileid[c] # fileid[b]
    BY <1>1, <1>2
  <2> QED
    BY <2>1 DEF FileStill
<1>4. ASSUME NEW c \in Buffers \ {b} PROVE PointStill(c)
  <2>1. recer[c] \in Disks => recer[c] # d
    <3>1. recer[c] \in Disks => disklist[recer[c]] = "busy"
      BY DEF RecerInv, RecerAccounted
    <3>2. recer[c] \in Disks => recer[c] # recer[b]
      BY DEF RecerInv, RecerAccounted
    <3> QED
      BY <1>2, <3>1, <3>2
  <2> QED
    BY <2>1 DEF PointStill
<1>5. \A c \in Buffers : FileInv(c)' /\ WriteInv(c)' /\ WroteInv(c)'
  BY <1>2, <1>3, <1>4, Frame
<1>6. \A f \in Files : f >= begun' => given'[f] = 0 /\ status'[f] = {}
  <2>1. ASSUME NEW f \in Files, f >= begun PROVE f # fileid[b]
    BY <1>1, <1>2, <2>1, ConstantsAssumption DEF FileInv, Files
  <2> QED
    BY <1>1, <2>1
<1>7. \A e \in Disks : disklist'[e] # "busy" => inflight'[e] = {}
  BY <1>1, <1>2
<1>8. ASSUME Honest PROVE WrittenWhole'
  <2> SUFFICES ASSUME NEW f \in Files, SaysWritten(f)'
               PROVE  diskid'[f] \in Disks /\ Whole(diskid[f], f)'
    BY DEF WrittenWhole
  <2>1. CASE f = fileid[b]
    BY <1>8, <2>1
  <2>2. CASE f # fileid[b]
    <3>1. SaysWritten(f) /\ diskid'[f] = diskid[f] /\ given'[f] = given[f]
      BY <2>2 DEF SaysWritten
    <3>2. diskid[f] \in Disks /\ Whole(diskid[f], f)
      BY <1>1, <1>8, <3>1 DEF WrittenWhole
    <3> QED
      BY <3>1, <3>2 DEF Whole, Grows
  <2> QED
    BY <2>1, <2>2
<1>9. Honest' <=> Honest
  BY DEF Honest
<1> QED
  BY <1>1, <1>5, <1>6, <1>7, <1>8, <1>9 DEF StoreInv

-----------------------------------------------------------------------------
(* The receiver, and threads that have no work                               *)

\* Falling asleep, waking up and being stopped.
LEMMA LoopStep ==
  ASSUME Shape, BuffersInv, RecerInv, StoreInv, NEW b \in Buffers,
         LoopTop(b) \/ LockHead(b) \/ CheckReady(b) \/ Sleep(b) \/ SpuriousWakeup(b)
           \/ WokeUp(b) \/ SignalStop(b) \/ FlagStop(b)
  PROVE  StoreInv'
<1>1. /\ UNCHANGED <<begun, given, filling, fileid, diff, bufoffset, savedif, asyncdiff, recer>>
      /\ UNCHANGED <<list, ready_to_act, status, diskid, n_files, full>>
      /\ UNCHANGED <<disk, offset, inflight, disklist, backend>>
  BY DEF LoopTop, LockHead, CheckReady, Sleep, SpuriousWakeup, WokeUp, SignalStop, FlagStop,
     Goes, KeepsBuffer, KeepsRest, receiver, points, index
<1>2. /\ pc' = pc \/ \E from, to \in Idle : pc[b] = from /\ pc' = [pc EXCEPT ![b] = to]
  <2>1. CASE LoopTop(b) \/ LockHead(b) \/ CheckReady(b) \/ Sleep(b) \/ SpuriousWakeup(b) \/ WokeUp(b)
    BY <2>1 DEF LoopTop, LockHead, CheckReady, Sleep, SpuriousWakeup, WokeUp, Goes, Idle
  <2>2. CASE SignalStop(b)
    BY <2>2 DEF SignalStop, Wake, Idle, Shape
  <2>3. CASE FlagStop(b)
    BY <2>3 DEF FlagStop
  <2> QED
    BY <2>1, <2>2, <2>3
<1>3. /\ stopping' \in [Buffers -> {"no", "flagged", "signalled"}]
      /\ \A c \in Buffers : running'[c] => running[c]
  <2>1. stopping \in [Buffers -> {"no", "flagged", "signalled"}]
    BY DEF StoreInv, Bounds
  <2>2. CASE LoopTop(b) \/ LockHead(b) \/ CheckReady(b) \/ Sleep(b) \/ SpuriousWakeup(b) \/ WokeUp(b)
    BY <2>1, <2>2 DEF LoopTop, LockHead, CheckReady, Sleep, SpuriousWakeup, WokeUp, KeepsBuffer,
       KeepsRest
  <2>3. CASE SignalStop(b)
    BY <2>1, <2>3 DEF SignalStop, KeepsBuffer
  <2>4. CASE FlagStop(b)
    BY <2>1, <2>4 DEF FlagStop, Shape
  <2> QED
    BY <2>2, <2>3, <2>4
<1>4. Bounds'
  BY <1>1, <1>3 DEF StoreInv, Bounds
<1>5. ASSUME NEW c \in Buffers PROVE Still(c)
  <2>1. pc'[c] = pc[c] \/ {pc[c], pc'[c]} \subseteq Idle
    BY <1>2 DEF Shape
  <2>2. Filled(c)' => Filled(c)
    BY <1>1 DEF Filled
  <2> QED
    BY <1>1, <1>3, <2>1, <2>2 DEF Still
<1> QED
  BY <1>1, <1>4, <1>5, QuietStep

\* The session ends, or nothing happens.
LEMMA IdleStep ==
  ASSUME Shape, BuffersInv, RecerInv, StoreInv, NoBuffer \/ StopReceiving \/ UNCHANGED vars
  PROVE  StoreInv'
<1>1. /\ UNCHANGED <<begun, given, filling, fileid, diff, bufoffset, savedif, asyncdiff, recer>>
      /\ UNCHANGED <<list, ready_to_act, running, pc, stopping, status, diskid, n_files, full>>
      /\ UNCHANGED <<disk, offset, inflight, disklist, backend>>
  BY DEF NoBuffer, StopReceiving, vars, receiver, buffer, thread, points, index
<1>2. Bounds'
  BY <1>1 DEF StoreInv, Bounds
<1>3. \A c \in Buffers : Still(c)
  BY <1>1 DEF Still, Filled
<1> QED
  BY <1>1, <1>2, <1>3, QuietStep

\* get_free and sbuf_acquire: the buffer has the next file.
LEMMA TakeStep ==
  ASSUME Shape, BuffersInv, RecerInv, StoreInv, BuffersInv', NEW b \in Buffers, Take(b)
  PROVE  StoreInv'
<1>1. /\ begun < NFiles /\ list[b] = "free"
      /\ list' = [list EXCEPT ![b] = "busy"]
      /\ fileid' = [fileid EXCEPT ![b] = begun]
      /\ diff' = [diff EXCEPT ![b] = 0]
      /\ bufoffset' = [bufoffset EXCEPT ![b] = 0]
      /\ filling' = Append(filling, b)
      /\ begun' = begun + 1
      /\ UNCHANGED <<given, ready_to_act, running, recer, asyncdiff, pc, savedif, stopping>>
      /\ UNCHANGED <<disklist, full, offset, inflight, disk, status, diskid, n_files, backend>>
  BY DEF Take, thread, points, index
<1>2. /\ Bounds
      /\ \A c \in Buffers : FileInv(c) /\ WriteInv(c) /\ WroteInv(c)
      /\ \A c, e \in Buffers : fileid[c] = fileid[e] /\ fileid[c] # -1 => c = e
      /\ \A f \in Files : f >= begun => given[f] = 0 /\ status[f] = {}
      /\ \A d \in Disks : disklist[d] # "busy" => inflight[d] = {}
      /\ Honest => WrittenWhole
  BY DEF StoreInv
<1>3. begun \in Nat /\ NFiles \in Nat /\ begun \in Files /\ begun # -1 /\ 0 \in 0..BufSize
  <2>1. begun \in 0..NFiles /\ NFiles \in Nat
    BY <1>2, ConstantsAssumption DEF Bounds
  <2> QED
    BY <1>1, <2>1, SizesAligned DEF Files
<1>4. Bounds'
  <2>1. begun' \in 0..NFiles
    BY <1>1, <1>3
  <2>2. /\ fileid' \in [Buffers -> Files \cup {-1}]
        /\ diff' \in [Buffers -> 0..BufSize] /\ bufoffset' \in [Buffers -> 0..BufSize]
    BY <1>1, <1>2, <1>3 DEF Bounds
  <2> QED
    BY <1>1, <1>2, <2>1, <2>2 DEF Bounds
<1>5. /\ fileid'[b] = begun /\ diff'[b] = 0 /\ bufoffset'[b] = 0 /\ list'[b] = "busy"
      /\ pc[b] \notin Working
      /\ \A c \in Buffers \ {b} : fileid'[c] = fileid[c] /\ diff'[c] = diff[c]
           /\ bufoffset'[c] = bufoffset[c] /\ list'[c] = list[c]
  BY <1>1, <1>2 DEF Bounds, Shape, BuffersInv, BufferInv
<1>6. Filled(b)' /\ \A c \in Buffers \ {b} : Filled(c)' => Filled(c)
  <2>1. /\ filling \in Seq(Buffers) /\ Len(filling) \in Nat
        /\ DOMAIN filling = 1..Len(filling) /\ DOMAIN filling' = 1..(Len(filling) + 1)
        /\ filling'[Len(filling) + 1] = b
        /\ \A i \in 1..Len(filling) : filling'[i] = filling[i]
    BY <1>1 DEF Shape
  <2>2. \A i \in 1..(Len(filling) + 1) : i \in 1..Len(filling) \/ i = Len(filling) + 1
    BY <2>1
  <2>3. Len(filling) + 1 \in 1..(Len(filling) + 1)
    BY <2>1
  <2> QED
    BY <2>1, <2>2, <2>3 DEF Filled
<1>7. ASSUME NEW c \in Buffers \ {b}
      PROVE  FileInv(c)' /\ WriteInv(c)' /\ WroteInv(c)'
  <2>1. Still(c)
    BY <1>1, <1>5, <1>6 DEF Still
  <2>2. FileStill(c) /\ PointStill(c) /\ Grows
    BY <1>1 DEF FileStill, PointStill, Grows
  <2>3. begun' >= begun /\ begun' \in Nat
    BY <1>1, <1>3
  <2> QED
    BY <1>1, <2>1, <2>2, <2>3, Frame
<1>8. FileInv(b)' /\ WriteInv(b)' /\ WroteInv(b)'
  <2>1. ~Handed(b)'
    <3>1. ready_to_act'[b] => pc'[b] = "freed"
      BY <1>6 DEF BuffersInv, BufferInv
    <3> QED
      BY <3>1 DEF Handed
  <2>2. fileid'[b] < begun' /\ given'[begun] = 0 /\ status'[begun] = {}
    BY <1>1, <1>2, <1>3, <1>5
  <2>3. FileInv(b)'
    BY <1>1, <1>3, <1>5, <2>1, <2>2 DEF FileInv, Working
  <2> QED
    BY <1>1, <1>5, <2>3 DEF WriteInv, WroteInv, Working
<1>9. \A c, e \in Buffers : fileid'[c] = fileid'[e] /\ fileid'[c] # -1 => c = e
  <2>1. \A c \in Buffers : fileid[c] # begun
    <3>1. ASSUME NEW c \in Buffers PROVE fileid[c] # begun
      <4>1. fileid[c] < begun
        BY <1>2 DEF FileInv
      <4> QED
        BY <1>3, <4>1
    <3> QED
      BY <3>1
  <2> QED
    BY <1>2, <1>5, <2>1
<1>10. \A f \in Files : f >= begun' => given'[f] = 0 /\ status'[f] = {}
  <2>1. \A f \in Files : f \in Int
    BY DEF Files
  <2> QED
    BY <1>1, <1>2, <1>3, <2>1
<1>11. Honest' => WrittenWhole'
  BY <1>1, <1>2 DEF Honest, WrittenWhole, SaysWritten, Whole
<1> QED
  BY <1>1, <1>2, <1>4, <1>7, <1>8, <1>9, <1>10, <1>11 DEF StoreInv

\* A buffer that its receiver has was not handed over, and nobody writes it.
LEMMA FilledIs ==
  ASSUME BuffersInv, StoreInv, NEW b \in Buffers, Filled(b)
  PROVE  /\ list[b] = "busy" /\ pc[b] \notin Working /\ (ready_to_act[b] => pc[b] = "freed")
         /\ fileid[b] \in Files /\ given[fileid[b]] = 0 /\ status[fileid[b]] = {}
         /\ fileid[b] < begun /\ bufoffset[b] = 0
BY DEF BuffersInv, BufferInv, StoreInv, FileInv, Working

\* A packet arrives.
LEMMA FillStep ==
  ASSUME Shape, BuffersInv, RecerInv, StoreInv,
         NEW i \in 1..2, NEW n \in LastSizes \cup {BufSize}, Fill(i, n)
  PROVE  StoreInv'
<1>0. PICK b \in Buffers : b = filling[i]
  BY DEF Fill, Shape
<1>1. /\ i \in DOMAIN filling /\ diff' = [diff EXCEPT ![b] = n]
      /\ UNCHANGED <<begun, given, filling, fileid, bufoffset, savedif, asyncdiff, recer>>
      /\ UNCHANGED <<list, ready_to_act, running, pc, stopping, status, diskid, n_files, full>>
      /\ UNCHANGED <<disk, offset, inflight, disklist, backend>>
  BY <1>0 DEF Fill, receiver, thread, points, index
<1>2. Filled(b)
  BY <1>0, <1>1 DEF Filled
<1>3. Bounds /\ FileInv(b)
  BY <1>2 DEF StoreInv
<1>4. n \in 0..BufSize
  <2>1. LastSizes \subseteq 1..BufSize /\ BufSize \in Nat
    BY ConstantsAssumption
  <2> QED
    BY <2>1
<1>5. Bounds'
  <2>1. diff' \in [Buffers -> 0..BufSize]
    BY <1>1, <1>3, <1>4 DEF Bounds
  <2> QED
    BY <1>1, <1>3, <2>1 DEF Bounds
<1>6. \A c \in Buffers \ {b} : Still(c)
  BY <1>1, <1>2, <1>3 DEF Still, Bounds, Filled
<1>7. Grows
  BY <1>1 DEF Grows
<1>8. FileInv(b)' /\ WriteInv(b)' /\ WroteInv(b)'
  <2>1. ~Handed(b)' /\ pc'[b] \notin Working /\ (Filled(b)' => Filled(b))
    BY <1>1, <1>2, FilledIs DEF Handed, Filled
  <2>2. FileInv(b)'
    BY <1>1, <1>2, <1>3, <2>1, FilledIs DEF FileInv, Working
  <2> QED
    BY <2>1, <2>2 DEF WriteInv, WroteInv, Working
<1>9. ~SaysWritten(fileid[b])'
  BY <1>1, <1>2, FilledIs DEF SaysWritten
<1> QED
  BY <1>1, <1>2, <1>5, <1>6, <1>7, <1>8, <1>9, OneStep

\* sbuf_set_ready_and_signal: the content is fixed from now on.
LEMMA HandOverStep ==
  ASSUME Shape, BuffersInv, RecerInv, StoreInv, BuffersInv', HandOver
  PROVE  StoreInv'
<1>0. PICK b \in Buffers : b = Head(filling)
  BY DEF HandOver, Shape
<1>1. /\ filling # <<>> /\ filling' = Tail(filling)
      /\ MayHandOver(diff[b]) /\ ~headlock[b]
      /\ given' = [given EXCEPT ![fileid[b]] = diff[b]]
      /\ ready_to_act' = [ready_to_act EXCEPT ![b] = TRUE]
      /\ pc' = [pc EXCEPT ![b] = IF @ = "asleep" THEN "woken" ELSE @]
      /\ UNCHANGED <<begun, list, fileid, diff, bufoffset, running, recer, asyncdiff>>
      /\ UNCHANGED <<savedif, stopping, status, diskid, n_files, full>>
      /\ UNCHANGED <<disk, offset, inflight, disklist, backend>>
  BY <1>0 DEF HandOver, Wake, points, index
<1>2. /\ filling \in Seq(Buffers) /\ DOMAIN filling = 1..Len(filling) /\ 1 \in DOMAIN filling
      /\ filling[1] = b /\ DOMAIN filling' = 1..(Len(filling) - 1) /\ Len(filling) \in Nat
      /\ \A i \in 1..(Len(filling) - 1) : filling'[i] = filling[i + 1] /\ i + 1 \in DOMAIN filling
  BY <1>0, <1>1 DEF Shape
<1>3. Filled(b) /\ \A c \in Buffers : Filled(c)' => Filled(c)
  BY <1>2 DEF Filled
<1>4. /\ list[b] = "busy" /\ pc[b] \notin Working
      /\ fileid[b] \in Files /\ given[fileid[b]] = 0 /\ status[fileid[b]] = {}
      /\ fileid[b] < begun /\ bufoffset[b] = 0
  BY <1>3, FilledIs
<1>5. pc[b] # "freed" /\ pc'[b] # "freed" /\ ready_to_act'[b] /\ pc'[b] \notin Working
  BY <1>1, <1>4 DEF BuffersInv, BufferInv, Shape, Working
<1>6. ~Filled(b)'
  BY <1>5 DEF BuffersInv, BufferInv
<1>7. Bounds /\ FileInv(b)
  BY DEF StoreInv
<1>8. diff[b] \in 0..BufSize /\ diff[b] > 0
  <2>1. diff[b] \in 0..BufSize
    BY <1>7 DEF Bounds
  <2>2. LastSizes \subseteq 1..BufSize
    BY ConstantsAssumption
  <2> QED
    BY <1>1, <2>1, <2>2, SizesAligned DEF MayHandOver
<1>9. Bounds' /\ given'[fileid[b]] = diff[b]
  <2>1. given' \in [Files -> 0..BufSize] /\ given'[fileid[b]] = diff[b]
    BY <1>1, <1>4, <1>7, <1>8 DEF Bounds
  <2> QED
    BY <1>1, <1>7, <2>1 DEF Bounds
<1>10. \A c \in Buffers \ {b} : Still(c)
  BY <1>1, <1>3 DEF Still, Shape
<1>11. Grows /\ \A f \in Files : f # fileid[b] => given'[f] = given[f]
  BY <1>1, <1>7 DEF Grows, Bounds
<1>12. ~SaysWritten(fileid[b])' /\ ~SaysWritten(fileid[b])
  BY <1>1, <1>4 DEF SaysWritten
<1>13. FileInv(b)' /\ WriteInv(b)' /\ WroteInv(b)'
  <2>1. FileInv(b)'
    BY <1>1, <1>4, <1>5, <1>6, <1>8, <1>9, <1>12 DEF FileInv, Working, SaysWritten
  <2> QED
    BY <1>5, <2>1 DEF WriteInv, WroteInv, Working
<1> QED
  BY <1>1, <1>9, <1>10, <1>11, <1>12, <1>13, OneStep

\* sbuf_cancel_writebuf: the buffer goes back as it came.
LEMMA CancelStep ==
  ASSUME Shape, BuffersInv, RecerInv, StoreInv, CancelWritebuf
  PROVE  StoreInv'
<1>0. PICK b \in Buffers : b = Head(filling) /\ Filled(b)
  <2>1. Len(filling) = 1 /\ filling \in Seq(Buffers)
    BY DEF CancelWritebuf, Shape
  <2>2. Head(filling) = filling[1] /\ 1 \in DOMAIN filling /\ filling[1] \in Buffers
    BY <2>1
  <2> QED
    BY <2>2 DEF Filled
<1>1. /\ filling' = <<>>
      /\ ready_to_act' = [ready_to_act EXCEPT ![b] = FALSE]
      /\ list' = [list EXCEPT ![b] = "free"]
      /\ UNCHANGED <<begun, given, fileid, diff, bufoffset, running, recer, asyncdiff, pc>>
      /\ UNCHANGED <<savedif, stopping, status, diskid, n_files, full>>
      /\ UNCHANGED <<disk, offset, inflight, disklist, backend>>
  BY <1>0 DEF CancelWritebuf, thread, points, index
<1>2. /\ pc[b] \notin Working /\ fileid[b] \in Files
      /\ status[fileid[b]] = {} /\ fileid[b] < begun
  BY <1>0, FilledIs
<1>3. \A c \in Buffers : ~Filled(c)'
  BY <1>1 DEF Filled
<1>4. Bounds /\ FileInv(b)
  BY DEF StoreInv
<1>5. Bounds'
  BY <1>1, <1>4 DEF Bounds
<1>6. \A c \in Buffers \ {b} : Still(c)
  BY <1>1, <1>3 DEF Still, Shape
<1>7. Grows /\ ~SaysWritten(fileid[b])'
  BY <1>1, <1>2 DEF Grows, SaysWritten
<1>8. FileInv(b)' /\ WriteInv(b)' /\ WroteInv(b)'
  <2>1. list'[b] = "free" /\ ~Handed(b)' /\ pc'[b] \notin Working
    BY <1>1, <1>2 DEF Shape, Handed
  <2>2. FileInv(b)'
    BY <1>1, <1>2, <1>3, <2>1 DEF FileInv, Working
  <2> QED
    BY <2>1, <2>2 DEF WriteInv, WroteInv, Working
<1> QED
  BY <1>1, <1>5, <1>6, <1>7, <1>8, OneStep

\* An int holds what a buffer holds.
LEMMA AsIntIs == ASSUME NEW n \in 0..BufSize PROVE AsInt(n) = n /\ n % ULONG = n
<1>1. n \in Nat /\ n <= BufSize /\ BufSize \in Nat /\ 2 * BufSize < INT /\ INT \in Nat
      /\ BufSize < ULONG /\ ULONG \in Nat
  BY ConstantsAssumption, SizesAssumption
<1>2. n % INT = n /\ n % ULONG = n
  BY <1>1
<1>3. 2 * n < INT
  BY <1>1
<1> QED
  BY <1>2, <1>3 DEF AsInt

\* The thread leaves its sleep, with the size of what it is to write.
LEMMA StartStep ==
  ASSUME Shape, BuffersInv, RecerInv, StoreInv, BuffersInv', NEW b \in Buffers, StartWork(b)
  PROVE  StoreInv'
<1>1. /\ pc[b] = "work"
      /\ UNCHANGED <<begun, given, filling, fileid, diff, bufoffset, asyncdiff, recer>>
      /\ UNCHANGED <<list, ready_to_act, running, stopping, status, diskid, n_files, full>>
      /\ UNCHANGED <<disk, offset, inflight, disklist, backend>>
  BY DEF StartWork, KeepsBuffer, receiver, points, index
<1>2. Bounds /\ FileInv(b)
  BY DEF StoreInv
<1>3. Filled(b)' <=> Filled(b)
  BY <1>1 DEF Filled
<1>4. CASE diff[b] > 0 /\ running[b]
  <2>1. /\ savedif' = [savedif EXCEPT ![b] = AsInt(diff[b])]
        /\ pc' = [pc EXCEPT ![b] = "acquire"]
    BY <1>4 DEF StartWork
  <2>2. diff[b] \in 0..BufSize /\ AsInt(diff[b]) = diff[b]
    BY <1>2, AsIntIs DEF Bounds
  <2>3. savedif' \in [Buffers -> 0..BufSize] /\ savedif'[b] = diff[b]
    BY <1>2, <2>1, <2>2 DEF Bounds
  <2>4. Bounds'
    BY <1>1, <1>2, <2>3 DEF Bounds
  <2>5. pc'[b] = "acquire" /\ list[b] = "busy" /\ ready_to_act[b] /\ ~Filled(b)
    BY <1>1, <1>3, <2>1 DEF BuffersInv, BufferInv, Shape, Working
  <2>6. Handed(b) /\ Handed(b)'
    BY <1>1, <2>5 DEF Handed
  <2>7. \A c \in Buffers \ {b} : Still(c)
    BY <1>1, <1>2, <2>1 DEF Still, Shape, Bounds, Filled
  <2>8. FileInv(b)'
    BY <1>1, <1>2, <1>3, <2>3, <2>5, <2>6 DEF FileInv, Working, SaysWritten
  <2>9. WriteInv(b)' /\ WroteInv(b)' /\ ~SaysWritten(fileid[b])' /\ Grows
    BY <1>1, <1>2, <2>5, <2>6 DEF WriteInv, WroteInv, FileInv, SaysWritten, Grows
  <2> QED
    BY <1>1, <2>4, <2>7, <2>8, <2>9, OneStep
<1>5. CASE ~(diff[b] > 0 /\ running[b])
  <2>1. savedif' = savedif /\ pc' = [pc EXCEPT ![b] = "top"]
    BY <1>5 DEF StartWork
  <2>2. Bounds'
    BY <1>1, <1>2, <2>1 DEF Bounds
  <2>3. \A c \in Buffers : Still(c)
    BY <1>1, <2>1 DEF Still, Shape, Idle, Filled
  <2> QED
    BY <1>1, <2>2, <2>3, QuietStep
<1> QED
  BY <1>4, <1>5

-----------------------------------------------------------------------------
(* write_buffer                                                              *)

\* What Retry leaves: the buffer as it was handed over.
LEMMA RetryStep ==
  ASSUME Shape, BuffersInv, RecerInv, StoreInv, NEW b \in Buffers,
         pc[b] \in {"acquire", "poll"}, Retry(b), running'[b] \in BOOLEAN,
         UNCHANGED <<begun, given, filling, fileid, savedif, ready_to_act, status>>,
         list'[b] \in {"busy", "removed"}, list'[b] = "removed" => ~running'[b]
  PROVE  /\ diff' \in [Buffers -> 0..BufSize] /\ bufoffset' \in [Buffers -> 0..BufSize]
         /\ pc'[b] = IF running'[b] THEN "acquire" ELSE "top"
         /\ \A c \in Buffers \ {b} : diff'[c] = diff[c] /\ bufoffset'[c] = bufoffset[c]
                                       /\ pc'[c] = pc[c]
         /\ FileInv(b)'
         /\ WriteInv(b)' /\ WroteInv(b)' /\ ~SaysWritten(fileid[b])'
<1>1. Bounds /\ FileInv(b) /\ BufferInv(b) /\ 0 \in 0..BufSize
  BY SizesAligned DEF StoreInv, BuffersInv
<1>2. /\ Handed(b) /\ list[b] = "busy" /\ fileid[b] \in Files
      /\ savedif[b] = given[fileid[b]] /\ savedif[b] \in 1..BufSize
      /\ ~SaysWritten(fileid[b])
  BY WorkingIsHanded DEF Working
<1>3. savedif[b] \in 0..BufSize /\ savedif[b] % ULONG = savedif[b]
  BY <1>1, AsIntIs DEF Bounds
<1>4. /\ diff' = [diff EXCEPT ![b] = savedif[b]]
      /\ bufoffset' = [bufoffset EXCEPT ![b] = 0]
      /\ pc' = [pc EXCEPT ![b] = IF running'[b] THEN "acquire" ELSE "top"]
  BY <1>3 DEF Retry
<1>5. /\ diff'[b] = savedif[b] /\ bufoffset'[b] = 0
      /\ pc'[b] = IF running'[b] THEN "acquire" ELSE "top"
  BY <1>1, <1>4 DEF Bounds, Shape
<1>6. pc'[b] \in {"acquire", "top"} /\ ~Filled(b)' /\ Handed(b)' /\ ~SaysWritten(fileid[b])'
  <2>1. ~Filled(b) /\ ready_to_act[b]
    BY <1>1 DEF BufferInv, Working
  <2> QED
    BY <1>2, <1>5, <2>1 DEF Filled, Handed, SaysWritten
<1>7. FileInv(b)'
  BY <1>1, <1>2, <1>5, <1>6 DEF FileInv, Working, SaysWritten
<1>8. diff' \in [Buffers -> 0..BufSize] /\ bufoffset' \in [Buffers -> 0..BufSize]
  BY <1>1, <1>3, <1>4 DEF Bounds
<1>9. \A c \in Buffers \ {b} : diff'[c] = diff[c] /\ bufoffset'[c] = bufoffset[c] /\ pc'[c] = pc[c]
  BY <1>1, <1>4 DEF Bounds, Shape
<1> QED
  BY <1>5, <1>6, <1>7, <1>8, <1>9 DEF WriteInv, WroteInv

\* No recording point is left: the buffer is taken out of its branch.
LEMMA NoRecPointStep ==
  ASSUME Shape, BuffersInv, RecerInv, StoreInv, NEW b \in Buffers, NoRecPoint(b)
  PROVE  StoreInv'
<1>1. /\ pc[b] = "acquire" /\ Retry(b)
      /\ running' = [running EXCEPT ![b] = FALSE]
      /\ list' = [list EXCEPT ![b] = "removed"]
      /\ UNCHANGED <<begun, given, filling, fileid, asyncdiff, recer, ready_to_act>>
      /\ UNCHANGED <<savedif, stopping, status, diskid, n_files, full>>
      /\ UNCHANGED <<disk, offset, inflight, disklist, backend>>
  BY DEF NoRecPoint, receiver, points, index
<1>2. list'[b] = "removed" /\ running'[b] = FALSE
  BY <1>1 DEF Shape
<1>3. /\ diff' \in [Buffers -> 0..BufSize] /\ bufoffset' \in [Buffers -> 0..BufSize]
      /\ \A c \in Buffers \ {b} : diff'[c] = diff[c] /\ bufoffset'[c] = bufoffset[c]
                                    /\ pc'[c] = pc[c]
      /\ FileInv(b)' /\ WriteInv(b)' /\ WroteInv(b)' /\ ~SaysWritten(fileid[b])'
  BY <1>1, <1>2, RetryStep
<1>4. Bounds'
  BY <1>1, <1>3 DEF StoreInv, Bounds
<1>5. \A c \in Buffers \ {b} : Still(c)
  BY <1>1, <1>3 DEF Still, Shape, Filled
<1>6. Grows
  BY <1>1 DEF Grows
<1> QED
  BY <1>1, <1>3, <1>4, <1>5, <1>6, OneStep

\* handle_error gives nothing back that is still written to.
LEMMA HandleErrorIs ==
  ASSUME Shape, StoreInv, NEW d \in Disks, NEW isFull \in BOOLEAN, HandleError(d, isFull),
         isFull => disklist[d] = "free"
  PROVE  /\ full' \in SUBSET Disks /\ inflight' \in [Disks -> SUBSET Requests]
         /\ inflight'[d] = {}
         /\ \A e \in Disks \ {d} : inflight'[e] = inflight[e] /\ disklist'[e] = disklist[e]
<1>1. /\ full \in SUBSET Disks /\ inflight \in [Disks -> SUBSET Requests]
      /\ \A e \in Disks : disklist[e] # "busy" => inflight[e] = {}
  BY DEF StoreInv, Bounds
<1>2. CASE isFull
  <2>1. /\ full' = full \cup {d} /\ disklist' = [disklist EXCEPT ![d] = "free"]
        /\ inflight' = inflight /\ disklist[d] = "free"
    BY <1>2 DEF HandleError
  <2>2. inflight'[d] = {}
    BY <1>1, <2>1
  <2> QED
    BY <1>1, <2>1, <2>2 DEF Shape
<1>3. CASE ~isFull
  <2>1. /\ full' = full /\ disklist' = [disklist EXCEPT ![d] = "removed"]
        /\ inflight' = [inflight EXCEPT ![d] = {}]
    BY <1>3 DEF HandleError
  <2> QED
    BY <1>1, <2>1 DEF Shape
<1> QED
  BY <1>2, <1>3

\* The file cannot be opened.
LEMMA OpenFailsStep ==
  ASSUME Shape, BuffersInv, RecerInv, StoreInv, NEW b \in Buffers, NEW d \in Disks,
         OpenFails(b, d)
  PROVE  StoreInv'
<1>1. /\ pc[b] = "acquire" /\ disklist[d] = "free" /\ Retry(b)
      /\ UNCHANGED <<begun, given, filling, fileid, asyncdiff, recer, ready_to_act, list>>
      /\ UNCHANGED <<savedif, stopping, status, diskid, n_files, running>>
      /\ UNCHANGED <<disk, offset, backend>>
  BY DEF OpenFails, Fit, receiver, index
<1>2. PICK isFull \in BOOLEAN : HandleError(d, isFull)
  BY DEF OpenFails
<1>3. /\ full' \in SUBSET Disks /\ inflight' \in [Disks -> SUBSET Requests]
      /\ inflight'[d] = {}
      /\ \A e \in Disks \ {d} : inflight'[e] = inflight[e] /\ disklist'[e] = disklist[e]
  BY <1>1, <1>2, HandleErrorIs
<1>4. list'[b] = "busy" /\ running'[b] \in BOOLEAN
  BY <1>1 DEF Shape, BuffersInv, BufferInv, Working
<1>5. /\ diff' \in [Buffers -> 0..BufSize] /\ bufoffset' \in [Buffers -> 0..BufSize]
      /\ \A c \in Buffers \ {b} : diff'[c] = diff[c] /\ bufoffset'[c] = bufoffset[c]
                                    /\ pc'[c] = pc[c]
      /\ FileInv(b)' /\ WriteInv(b)' /\ WroteInv(b)' /\ ~SaysWritten(fileid[b])'
  BY <1>1, <1>4, RetryStep
<1>6. Bounds'
  BY <1>1, <1>3, <1>5 DEF StoreInv, Bounds
<1>7. \A c \in Buffers \ {b} : Still(c)
  BY <1>1, <1>5 DEF Still, Shape, Filled
<1>8. Grows
  BY <1>1 DEF Grows
<1> QED
  BY <1>1, <1>3, <1>5, <1>6, <1>7, <1>8, OneStep

\* A write failed: the recording point is given up, with all that is under way.
LEMMA EventErrorStep ==
  ASSUME Shape, BuffersInv, RecerInv, StoreInv, NEW b \in Buffers, EventError(b)
  PROVE  StoreInv'
<1>0. PICK d \in Disks : d = recer[b]
  BY DEF EventError, RecerInv, Shape
<1>1. /\ pc[b] = "poll" /\ HandleError(d, FALSE) /\ Retry(b)
      /\ recer' = [recer EXCEPT ![b] = None]
      /\ UNCHANGED <<begun, given, filling, fileid, asyncdiff, ready_to_act, list>>
      /\ UNCHANGED <<savedif, stopping, status, diskid, n_files, running>>
      /\ UNCHANGED <<disk, offset, backend>>
  BY <1>0 DEF EventError, receiver, index
<1>2. /\ full' \in SUBSET Disks /\ inflight' \in [Disks -> SUBSET Requests]
      /\ inflight'[d] = {}
      /\ \A e \in Disks \ {d} : inflight'[e] = inflight[e] /\ disklist'[e] = disklist[e]
  BY <1>1, HandleErrorIs
<1>3. list'[b] = "busy" /\ running'[b] \in BOOLEAN
  BY <1>1 DEF Shape, BuffersInv, BufferInv, Working
<1>4. /\ diff' \in [Buffers -> 0..BufSize] /\ bufoffset' \in [Buffers -> 0..BufSize]
      /\ \A c \in Buffers \ {b} : diff'[c] = diff[c] /\ bufoffset'[c] = bufoffset[c]
                                    /\ pc'[c] = pc[c]
      /\ FileInv(b)' /\ WriteInv(b)' /\ WroteInv(b)' /\ ~SaysWritten(fileid[b])'
  BY <1>1, <1>3, RetryStep
<1>5. Bounds'
  BY <1>1, <1>2, <1>4 DEF StoreInv, Bounds
<1>6. \A c \in Buffers \ {b} : Still(c)
  BY <1>1, <1>4 DEF Still, Shape, Filled
<1>7. Grows
  BY <1>1 DEF Grows
<1> QED
  BY <1>0, <1>1, <1>2, <1>4, <1>5, <1>6, <1>7, OneStep

\* With nothing under way there is nothing to count.
LEMMA NothingUnderWay == UnitsOf({}) = {} /\ \A n \in Nat : n - Cardinality(UnitsOf({})) = n
<1>1. UnitsOf({}) = {}
  BY DEF UnitsOf
<1>2. Cardinality(UnitsOf({})) = 0
  BY <1>1, FS_EmptySet
<1> QED
  BY <1>1, <1>2

\* A file is opened on a recording point that nobody has, and nothing of it is there yet.
LEMMA OpenFileStep ==
  ASSUME Shape, BuffersInv, RecerInv, StoreInv, BuffersInv',
         NEW b \in Buffers, NEW d \in Disks, OpenFile(b, d)
  PROVE  StoreInv'
<1> DEFINE f == fileid[b]
<1>1. /\ pc[b] = "acquire" /\ pc' = [pc EXCEPT ![b] = "write"]
      /\ disklist[d] = "free" /\ disklist' = [disklist EXCEPT ![d] = "busy"]
      /\ offset' = [offset EXCEPT ![d] = 0]
      /\ recer' = [recer EXCEPT ![b] = d]
      /\ asyncdiff' = [asyncdiff EXCEPT ![b] = IF backend = "aio" THEN diff[b] ELSE @]
      /\ n_files' = IF n_files > f THEN n_files ELSE n_files + 1
      /\ diskid' = [diskid EXCEPT ![f] = d]
      /\ status' = [status EXCEPT ![f] = FH_INMEM \cup {"BUSY"}]
      /\ UNCHANGED <<begun, given, filling, fileid, diff, bufoffset, ready_to_act, list>>
      /\ UNCHANGED <<savedif, stopping, full, running, inflight, disk, backend>>
  BY DEF OpenFile, Goes, Fit, AddFile, receiver
<1>2. /\ Bounds /\ FileInv(b) /\ Filled(b)' = Filled(b) /\ inflight[d] = {}
  BY <1>1 DEF StoreInv, Filled
<1>3. /\ Handed(b) /\ list[b] = "busy" /\ f \in Files
      /\ savedif[b] = given[f] /\ savedif[b] \in 1..BufSize
  BY <1>1, WorkingIsHanded DEF Working
<1>4. diff[b] = savedif[b] /\ bufoffset[b] = 0
  BY <1>1, <1>2, <1>3 DEF FileInv, Working
<1>5. diff[b] \in Nat /\ diff[b] > 0 /\ diff[b] \in 0..(ULONG - 1) /\ diff[b] % ULONG = diff[b]
  <2>1. diff[b] \in 0..BufSize /\ BufSize < ULONG /\ ULONG \in Nat /\ BufSize \in Nat
    BY <1>3, <1>4, SizesAligned
  <2>2. diff[b] % ULONG = diff[b]
    BY <2>1, AsIntIs
  <2> QED
    BY <1>3, <1>4, <2>1, <2>2
<1>6. Bounds'
  <2>1. n_files' \in 0..NFiles
    <3>1. n_files \in 0..NFiles /\ f \in 0..(NFiles - 1) /\ NFiles \in Nat
      BY <1>2, <1>3, ConstantsAssumption DEF Bounds, Files
    <3> HIDE DEF f
    <3> QED
      BY <1>1, <3>1
  <2>2. asyncdiff' \in [Buffers -> 0..(ULONG - 1)]
    BY <1>1, <1>2, <1>5 DEF Bounds
  <2>3. offset' \in [Disks -> 0..BufSize]
    BY <1>1, <1>2, SizesAligned DEF Bounds
  <2>4. /\ status' \in [Files -> SUBSET {"ONDISK", "MISSING", "BUSY"}]
        /\ diskid' \in [Files -> Disks \cup {None}]
    BY <1>1, <1>2 DEF Bounds, FH_INMEM
  <2> QED
    BY <1>1, <1>2, <2>1, <2>2, <2>3, <2>4 DEF Bounds
<1>7. /\ pc'[b] = "write" /\ recer'[b] = d /\ offset'[d] = 0 /\ inflight'[d] = {}
      /\ diskid'[f] = d /\ status'[f] = {"ONDISK", "MISSING", "BUSY"}
      /\ (backend = "aio" => asyncdiff'[b] = diff[b])
  BY <1>1, <1>2, <1>3 DEF Bounds, Shape, FH_INMEM
<1>8. \A c \in Buffers \ {b} : Still(c)
  BY <1>1, <1>2 DEF Still, Shape, Bounds, Filled
<1>9. /\ \A g \in Files : g # f => status'[g] = status[g] /\ diskid'[g] = diskid[g]
      /\ \A e \in Disks \ {d} : offset'[e] = offset[e] /\ inflight'[e] = inflight[e]
                                  /\ disklist'[e] = disklist[e]
      /\ Grows /\ disklist'[d] = "busy"
  BY <1>1, <1>2 DEF Bounds, Shape, Grows
<1>10. ~SaysWritten(f)'
  BY <1>1, <1>7 DEF SaysWritten
<1>11. FileInv(b)'
  <2>1. ~Filled(b)
    BY <1>1, <1>2 DEF BuffersInv, BufferInv, Working
  <2>2. pc'[b] \in Working /\ pc'[b] # "acquire" /\ fileid'[b] = f /\ given'[f] = given[f]
    BY <1>1, <1>7 DEF Working
  <2> QED
    BY <1>1, <1>2, <1>3, <1>7, <1>10, <2>1, <2>2 DEF FileInv
<1>12. WriteInv(b)'
  <2>1. offset'[d] - Cardinality(UnitsOf(inflight'[d])) = 0
    BY <1>7, NothingUnderWay
  <2>2. /\ \A r \in inflight'[d] : r.from = r.at /\ Aligned(r.count)
        /\ Separate(inflight'[d]) /\ Within(inflight'[d], offset'[d])
        /\ \A k \in 0..(offset'[d] - 1) : k \in UnitsOf(inflight'[d]) \/ <<k, k>> \in disk'[d][f]
    BY <1>7 DEF Separate, Within
  <2>3. TransferInv(recer[b], fileid[b])'
    BY <1>1, <1>7, <2>1, <2>2, SizesAligned DEF TransferInv, Landed
  <2>4. Landed(recer[b])' = 0
    BY <1>7, <2>1 DEF Landed
  <2>5. /\ recer'[b] = d /\ fileid'[b] = f /\ bufoffset'[b] = 0 /\ diff'[b] = savedif[b]
        /\ savedif'[b] = savedif[b] /\ pc'[b] = "write" /\ backend' = backend
    BY <1>1, <1>4, <1>7
  <2>6. /\ offset'[d] = Padded(bufoffset'[b]) /\ bufoffset'[b] <= savedif'[b]
        /\ bufoffset'[b] + diff'[b] = savedif'[b] /\ Aligned(bufoffset'[b]) /\ diff'[b] > 0
        /\ savedif'[b] - 0 = savedif'[b] /\ savedif'[b] % ULONG = savedif'[b]
    BY <1>4, <1>5, <1>7, <2>5, SizesAligned
  <2>7. backend' = "aio" => asyncdiff'[b] = (savedif'[b] - Landed(recer[b])') % ULONG
    BY <1>4, <1>7, <2>4, <2>5, <2>6
  <2>8. diskid'[fileid'[b]] = recer'[b] /\ inflight'[recer'[b]] = {}
          /\ offset'[recer'[b]] = Padded(bufoffset'[b])
    BY <1>7, <2>5, <2>6
  <2> HIDE DEF f
  <2> QED
    BY <2>3, <2>5, <2>6, <2>7, <2>8 DEF WriteInv
<1>13. WroteInv(b)'
  BY <1>7 DEF WroteInv
<1> QED
  BY <1>1, <1>6, <1>8, <1>9, <1>10, <1>11, <1>12, <1>13, OneStep

\* What is known while a thread writes or waits for its writes.
LEMMA WritingIs ==
  ASSUME Shape, BuffersInv, RecerInv, StoreInv, NEW b \in Buffers, pc[b] \in {"write", "poll"}
  PROVE  \E d \in Disks, f \in Files :
           /\ d = recer[b] /\ f = fileid[b] /\ diskid[f] = d
           /\ Handed(b) /\ list[b] = "busy" /\ ~Filled(b) /\ ~SaysWritten(f) /\ f < begun
           /\ savedif[b] = given[f] /\ savedif[b] \in 1..BufSize
           /\ bufoffset[b] \in Nat /\ diff[b] \in 0..BufSize /\ bufoffset[b] <= savedif[b]
           /\ offset[d] \in 0..BufSize /\ inflight[d] \in SUBSET Requests
           /\ offset[d] = Padded(bufoffset[b])
           /\ TransferInv(d, f) /\ Landed(d) \in 0..BufSize
<1>1. Bounds /\ FileInv(b) /\ WriteInv(b) /\ BufferInv(b)
  BY DEF StoreInv, BuffersInv
<1>2. /\ Handed(b) /\ list[b] = "busy" /\ fileid[b] \in Files
      /\ savedif[b] = given[fileid[b]] /\ savedif[b] \in 1..BufSize
      /\ ~SaysWritten(fileid[b])
  BY WorkingIsHanded DEF Working
<1>3. PICK d \in Disks, f \in Files : d = recer[b] /\ f = fileid[b]
  BY <1>2 DEF RecerInv, Shape
<1>4. f < begun /\ ~Filled(b)
  BY <1>1, <1>3 DEF FileInv, BufferInv, Working
<1>5. /\ bufoffset[b] \in Nat /\ diff[b] \in 0..BufSize
      /\ offset[d] \in 0..BufSize /\ inflight[d] \in SUBSET Requests
  BY <1>1, SizesAligned DEF Bounds
<1>6. /\ diskid[f] = d /\ TransferInv(d, f) /\ offset[d] = Padded(bufoffset[b])
      /\ bufoffset[b] <= savedif[b]
  BY <1>1, <1>3 DEF WriteInv
<1>7. Landed(d) \in 0..BufSize
  <2> DEFINE c == Cardinality(UnitsOf(inflight[d]))
             o == offset[d]
  <2>1. o \in Nat /\ o <= BufSize
    BY <1>5, SizesAligned
  <2>2. Within(inflight[d], o)
    BY <1>6 DEF TransferInv
  <2>3. c \in 0..o
    BY <1>5, <2>1, <2>2, Submitted
  <2>4. Landed(d) = o - c
    BY DEF Landed
  <2> HIDE DEF c, o
  <2> QED
    BY <2>1, <2>3, <2>4, SizesAligned
<1> QED
  BY <1>2, <1>3, <1>4, <1>5, <1>6, <1>7

\* The sizes of one write: x is where it starts and e what is left.
LEMMA NextWrite ==
  ASSUME NEW x \in Nat, NEW e \in Nat, e > 0, x + e <= BufSize, Aligned(x),
         NEW c \in Nat, c = IF e < Limit THEN e ELSE Limit
  PROVE  /\ c > 0 /\ c <= e /\ Padded(x) = x
         /\ Padded(c) \in 1..BufSize /\ Aligned(Padded(c))
         /\ Padded(x + c) = x + Padded(c) /\ x + Padded(c) <= BufSize
         /\ e - c > 0 => Aligned(x + c)
<1>1. c > 0 /\ c <= e /\ (e - c > 0 => c = Limit)
  BY SizesAligned
<1>2. Padded(x) = x
  BY PaddedFits
<1>3. Padded(c) \in Nat /\ c <= Padded(c) /\ Aligned(Padded(c)) /\ Padded(x + c) = x + Padded(c)
  BY PaddedIs, PaddedSum
<1>4. Padded(x + c) <= BufSize
  <2>1. x + c \in Nat /\ x + c <= BufSize
    BY <1>1, SizesAligned
  <2> QED
    BY <2>1, SizesAligned, PaddedFits
<1>5. Padded(c) \in 1..BufSize
  BY <1>1, <1>3, <1>4, SizesAligned
<1>6. ASSUME e - c > 0 PROVE Aligned(x + c)
  <2>1. Aligned(c)
    BY <1>1, <1>6, SizesAligned
  <2> QED
    BY <2>1, AlignedSum
<1> QED
  BY <1>1, <1>2, <1>3, <1>4, <1>5, <1>6

\* Units that land are there, and nothing else changes.
LEMMA LandsIs ==
  ASSUME StoreInv, NEW d \in Disks, NEW f \in Files, NEW x \in Nat, NEW n \in Nat,
         x + n <= BufSize, Lands(d, f, x, x, n)
  PROVE  /\ disk' \in [Disks -> [Files -> SUBSET (Places \X Places)]] /\ Grows
         /\ \A k \in x..(x + n - 1) : <<k, k>> \in disk'[d][f]
<1>1. disk \in [Disks -> [Files -> SUBSET (Places \X Places)]]
  BY DEF StoreInv, Bounds
<1> DEFINE U == {<<x + i, x + i>> : i \in 0..(n - 1)}
<1>2. U \subseteq Places \X Places
  <2>1. \A i \in 0..(n - 1) : x + i \in 0..(BufSize - 1)
    BY SizesAligned
  <2> QED
    BY <2>1 DEF Places
<1>3. \A k \in x..(x + n - 1) : <<k, k>> \in U
  <2>1. ASSUME NEW k \in x..(x + n - 1) PROVE k - x \in 0..(n - 1) /\ x + (k - x) = k
    OBVIOUS
  <2> QED
    BY <2>1
<1>4. disk' = [disk EXCEPT ![d] = [disk[d] EXCEPT ![f] = disk[d][f] \cup U]]
  BY <1>1 DEF Lands
<1> HIDE DEF U
<1>5. disk[d] \in [Files -> SUBSET (Places \X Places)]
  BY <1>1
<1>6. [disk[d] EXCEPT ![f] = disk[d][f] \cup U] \in [Files -> SUBSET (Places \X Places)]
  BY <1>2, <1>5
<1>7. disk' \in [Disks -> [Files -> SUBSET (Places \X Places)]]
  BY <1>1, <1>4, <1>6
<1>8. disk'[d][f] = disk[d][f] \cup U
  BY <1>1, <1>4, <1>5
<1>9. Grows
  <2>1. ASSUME NEW e \in Disks, NEW g \in Files PROVE disk[e][g] \subseteq disk'[e][g]
    BY <1>1, <1>4, <1>5, <1>8
  <2> QED
    BY <2>1 DEF Grows
<1> QED
  BY <1>3, <1>7, <1>8, <1>9

\* What asyncdiff is once s units were to be written and l have landed.
LEMMA OwedIs ==
  ASSUME NEW s \in 0..BufSize, NEW l \in 0..BufSize
  PROVE  /\ (s - l) % ULONG = IF l <= s THEN s - l ELSE s - l + ULONG
         /\ (s - l) % ULONG = 0 => l = s
<1>1. ULONG \in Nat /\ BufSize \in Nat /\ BufSize < ULONG
  BY SizesAligned
<1> DEFINE z == s - l
<1>2. z \in Int /\ z < ULONG /\ -ULONG < z /\ (z >= 0 <=> l <= s) /\ (z = 0 => l = s)
  BY <1>1
<1> HIDE DEF z
<1>3. z >= 0 => z % ULONG = z
  BY <1>1, <1>2
<1>4. z < 0 => z % ULONG = z + ULONG
  BY <1>1, <1>2
<1>5. /\ z % ULONG = IF l <= s THEN z ELSE z + ULONG
      /\ z % ULONG = 0 => l = s
  BY <1>1, <1>2, <1>3, <1>4
<1> QED
  BY <1>5 DEF z

LEMMA OwedAfter ==
  ASSUME NEW s \in 0..BufSize, NEW l \in 0..BufSize, NEW c \in Nat, l + c <= BufSize
  PROVE  (((s - l) % ULONG) - c) % ULONG = (s - (l + c)) % ULONG
<1>1. ULONG \in Nat /\ BufSize \in Nat /\ BufSize < ULONG
  BY SizesAligned
<1>2. l + c \in 0..BufSize
  BY <1>1
<1>3. (s - (l + c)) % ULONG = IF l + c <= s THEN s - (l + c) ELSE s - (l + c) + ULONG
  BY <1>2, OwedIs
<1>4. CASE l <= s
  <2>1. ((s - l) % ULONG) - c = s - (l + c)
    BY <1>1, <1>4, OwedIs
  <2> QED
    BY <2>1
<1>5. CASE ~(l <= s)
  <2>1. ((s - l) % ULONG) - c = s - (l + c) + ULONG
    <3>1. (s - l) % ULONG = s - l + ULONG
      BY <1>5, OwedIs
    <3> QED
      BY <1>1, <3>1
  <2>2. s - (l + c) + ULONG \in 0..(ULONG - 1)
    BY <1>1, <1>5
  <2>3. ~(l + c <= s)
    BY <1>1, <1>5
  <2> DEFINE y == s - (l + c) + ULONG
  <2>4. y \in 0..(ULONG - 1) /\ (((s - l) % ULONG) - c) = y /\ (s - (l + c)) % ULONG = y
    BY <1>3, <2>1, <2>2, <2>3
  <2> HIDE DEF y
  <2>5. y % ULONG = y
    BY <1>1, <2>4
  <2> QED
    BY <2>4, <2>5
<1> QED
  BY <1>4, <1>5

\* simple_write_bytes: one write more, behind the others.
LEMMA WriteStep ==
  ASSUME Shape, BuffersInv, RecerInv, StoreInv, BuffersInv', NEW b \in Buffers, WriteBytes(b)
  PROVE  StoreInv'
<1>0. pc[b] = "write"
  BY DEF WriteBytes
<1>1. PICK d \in Disks, f \in Files :
           /\ d = recer[b] /\ f = fileid[b] /\ diskid[f] = d
           /\ Handed(b) /\ list[b] = "busy" /\ ~Filled(b) /\ ~SaysWritten(f) /\ f < begun
           /\ savedif[b] = given[f] /\ savedif[b] \in 1..BufSize
           /\ bufoffset[b] \in Nat /\ diff[b] \in 0..BufSize /\ bufoffset[b] <= savedif[b]
           /\ offset[d] \in 0..BufSize /\ inflight[d] \in SUBSET Requests
           /\ offset[d] = Padded(bufoffset[b])
           /\ TransferInv(d, f) /\ Landed(d) \in 0..BufSize
  BY <1>0, WritingIs
<1>2. PICK x \in Nat, e \in Nat, c \in Nat, n \in Nat :
        x = bufoffset[b] /\ e = diff[b] /\ c = Count(b) /\ n = Padded(c)
  <2>1. Count(b) \in Nat /\ diff[b] \in Nat
    BY <1>1, SizesAligned DEF Count
  <2>2. Padded(Count(b)) \in Nat
    BY <2>1, PaddedIs
  <2> QED
    BY <1>1, <2>1, <2>2
<1>3. /\ Bounds /\ FileInv(b) /\ e > 0 /\ x + e = savedif[b] /\ Aligned(x) /\ x + e <= BufSize
      /\ backend = "aio" => asyncdiff[b] = (savedif[b] - Landed(d)) % ULONG
      /\ backend = "def" => inflight[d] = {}
  <2>1. FileInv(b) /\ WriteInv(b) /\ Bounds
    BY DEF StoreInv
  <2> QED
    BY <1>0, <1>1, <1>2, <2>1, SizesAligned DEF WriteInv
<1>4. /\ c > 0 /\ c <= e /\ Padded(x) = x /\ n \in 1..BufSize /\ Aligned(n)
      /\ Padded(x + c) = x + n /\ x + n <= BufSize
      /\ e - c > 0 => Aligned(x + c)
  BY <1>2, <1>3, NextWrite DEF Count
<1>5. /\ offset[d] = x /\ Within(inflight[d], x) /\ Separate(inflight[d])
      /\ \A r \in inflight[d] : r.from = r.at /\ Aligned(r.count)
      /\ \A k \in 0..(x - 1) : k \in UnitsOf(inflight[d]) \/ <<k, k>> \in disk[d][f]
  BY <1>1, <1>2, <1>4 DEF TransferInv
<1>6. /\ offset' = [offset EXCEPT ![d] = x + n]
      /\ diff' = [diff EXCEPT ![b] = e - c]
      /\ bufoffset' = [bufoffset EXCEPT ![b] = x + c]
      /\ pc' = [pc EXCEPT ![b] = AfterWrite(e - c)]
      /\ UNCHANGED <<begun, given, filling, list, fileid, ready_to_act, running, recer, asyncdiff>>
      /\ UNCHANGED <<savedif, stopping, disklist, full, status, diskid, n_files, backend>>
  BY <1>1, <1>2, <1>5 DEF WriteBytes, receiver, index
<1>7. /\ backend = "aio" =>
           /\ inflight' = [inflight EXCEPT ![d] = @ \cup {[at |-> x, from |-> x, count |-> n, lost |-> FALSE]}]
           /\ disk' = disk
      /\ backend = "def" => inflight' = inflight /\ Lands(d, f, x, x, n)
  BY <1>1, <1>2, <1>5 DEF WriteBytes
<1>8. backend \in {"aio", "def"}
  BY <1>3, ConstantsAssumption DEF Bounds
<1>9. /\ offset' \in [Disks -> 0..BufSize] /\ diff' \in [Buffers -> 0..BufSize]
      /\ bufoffset' \in [Buffers -> 0..BufSize] /\ offset'[d] = x + n
      /\ diff'[b] = e - c /\ bufoffset'[b] = x + c /\ pc'[b] = AfterWrite(e - c)
      /\ pc'[b] \in {"write", "poll", "release"}
  <2>1. x + n \in 0..BufSize /\ e - c \in 0..BufSize /\ x + c \in 0..BufSize
    BY <1>3, <1>4, SizesAligned
  <2> QED
    BY <1>3, <1>6, <2>1 DEF Bounds, Shape, AfterWrite
<1>10. \A a \in Buffers \ {b} : Still(a)
  BY <1>3, <1>6 DEF Still, Shape, Bounds, Filled
<1>11. \A q \in Disks \ {d} : offset'[q] = offset[q] /\ inflight'[q] = inflight[q]
  BY <1>3, <1>6, <1>7, <1>8 DEF Bounds
<1>12. FileInv(b)'
  BY <1>1, <1>3, <1>6, <1>9 DEF FileInv, Filled, Handed, Working, SaysWritten
<1>13. ~SaysWritten(fileid[b])' /\ disklist'[d] = "busy" /\ given'[f] = given[f]
  <2>1. disklist[d] = "busy"
    BY <1>1 DEF RecerInv, RecerAccounted
  <2> QED
    BY <1>1, <1>6, <2>1 DEF SaysWritten
<1>14. x + c <= savedif[b] /\ (e - c > 0 => x + c + (e - c) = savedif[b]) /\ savedif[b] \in Nat
  BY <1>3, <1>4
<1>15. CASE backend = "aio"
  <2> DEFINE r == [at |-> x, from |-> x, count |-> n, lost |-> FALSE]
             S == inflight[d]
  <2>1. r \in Requests /\ r.at = x /\ r.from = x /\ r.count = n
    <3>1. x \in 0..BufSize /\ n \in 1..BufSize
      BY <1>4, SizesAligned
    <3> QED
      BY <3>1 DEF Requests
  <2>2. inflight'[d] = S \cup {r} /\ disk' = disk /\ inflight' \in [Disks -> SUBSET Requests]
    <3>1. inflight \in [Disks -> SUBSET Requests]
      BY <1>3 DEF Bounds
    <3>2. inflight' = [inflight EXCEPT ![d] = inflight[d] \cup {r}] /\ disk' = disk
      BY <1>7, <1>15
    <3> HIDE DEF r
    <3> QED
      BY <2>1, <3>1, <3>2
  <2>3. S \in SUBSET Requests /\ Within(S, x) /\ Separate(S)
    BY <1>1, <1>5
  <2>4. /\ Separate(S \cup {r}) /\ Within(S \cup {r}, x + n)
        /\ UnitsOf(S \cup {r}) = UnitsOf(S) \cup Span(r)
        /\ Cardinality(UnitsOf(S \cup {r})) = Cardinality(UnitsOf(S)) + n
    BY <2>1, <2>3, Submits
  <2>5. Span(r) = x..(x + n - 1)
    BY <2>1 DEF Span
  <2>6. \A q \in S \cup {r} : q.from = q.at /\ Aligned(q.count)
    BY <1>4, <1>5, <2>1
  <2> HIDE DEF r
  <2>7. (x + n) - Cardinality(UnitsOf(S \cup {r})) = Landed(d)
    <3> DEFINE u == Cardinality(UnitsOf(S))
               v == Cardinality(UnitsOf(S \cup {r}))
    <3>1. u \in Nat
      BY <2>3, Submitted
    <3>2. v = u + n
      BY <2>4
    <3>3. Landed(d) = x - u
      BY <1>5 DEF Landed
    <3> HIDE DEF u, v
    <3>4. (x + n) - v = Landed(d)
      BY <3>1, <3>2, <3>3
    <3> QED
      BY <3>4 DEF v
  <2>8. \A k \in 0..(x + n - 1) : k \in UnitsOf(S \cup {r}) \/ <<k, k>> \in disk[d][f]
    <3>1. \A k \in 0..(x + n - 1) : k \in 0..(x - 1) \/ k \in x..(x + n - 1)
      BY <1>4
    <3> QED
      BY <1>5, <2>4, <2>5, <3>1
  <2>9. Landed(recer[b])' = Landed(d)
    BY <1>1, <1>6, <1>9, <2>2, <2>7 DEF Landed
  <2>10. TransferInv(recer[b], fileid[b])'
    <3>1. Aligned(Landed(d))
      BY <1>1 DEF TransferInv
    <3>2. recer'[b] = d /\ fileid'[b] = f /\ offset'[d] = x + n
      BY <1>1, <1>6, <1>9
    <3>3. Aligned(Landed(recer[b]))'
      BY <2>9, <3>1 DEF Aligned
    <3>4. /\ \A q \in inflight'[d] : q.from = q.at /\ Aligned(q.count)
          /\ Separate(inflight'[d]) /\ Within(inflight'[d], offset'[d])
          /\ \A k \in 0..(offset'[d] - 1) : k \in UnitsOf(inflight'[d]) \/ <<k, k>> \in disk'[d][f]
      <4>1. inflight'[d] = S \cup {r} /\ offset'[d] = x + n /\ disk'[d][f] = disk[d][f]
        BY <2>2, <3>2
      <4> DEFINE R == S \cup {r}
      <4>2. /\ \A q \in R : q.from = q.at /\ Aligned(q.count)
            /\ Separate(R) /\ Within(R, x + n)
            /\ \A k \in 0..(x + n - 1) : k \in UnitsOf(R) \/ <<k, k>> \in disk[d][f]
        BY <2>4, <2>6, <2>8
      <4>3. inflight'[d] = R
        BY <4>1
      <4> HIDE DEF R
      <4>4. /\ \A q \in inflight'[d] : q.from = q.at /\ Aligned(q.count)
            /\ Separate(inflight'[d]) /\ Within(inflight'[d], offset'[d])
        BY <4>1, <4>2, <4>3
      <4>5. ASSUME NEW k \in 0..(offset'[d] - 1)
            PROVE  k \in UnitsOf(inflight'[d]) \/ <<k, k>> \in disk'[d][f]
        <5>1. k \in 0..(x + n - 1)
          BY <4>1
        <5>2. k \in UnitsOf(R) \/ <<k, k>> \in disk[d][f]
          BY <4>2, <5>1
        <5> QED
          BY <4>1, <4>3, <5>2
      <4> QED
        BY <4>4, <4>5
    <3> QED
      BY <3>2, <3>3, <3>4 DEF TransferInv
  <2>11. pc'[b] = "poll"
    BY <1>9, <1>15 DEF AfterWrite
  <2>12. /\ recer'[b] = d /\ fileid'[b] = f /\ diskid'[f] = d /\ savedif'[b] = savedif[b]
         /\ asyncdiff'[b] = asyncdiff[b] /\ offset'[d] = Padded(x + c)
         /\ bufoffset'[b] = x + c /\ diff'[b] = e - c /\ backend' = "aio"
    BY <1>1, <1>4, <1>6, <1>9, <1>15
  <2>13. asyncdiff'[b] = (savedif'[b] - Landed(recer[b])') % ULONG
    BY <1>3, <1>15, <2>9, <2>12
  <2>14. WriteInv(b)'
    <3>1. bufoffset'[b] <= savedif'[b]
      BY <1>14, <2>12
    <3>2. diff'[b] > 0 => bufoffset'[b] + diff'[b] = savedif'[b] /\ Aligned(bufoffset'[b])
      BY <1>4, <1>14, <2>12
    <3> QED
      BY <2>10, <2>11, <2>12, <2>13, <3>1, <3>2 DEF WriteInv
  <2>15. WroteInv(b)' /\ Grows
    BY <2>2, <2>11 DEF WroteInv, Grows
  <2>16. Bounds'
    BY <1>3, <1>6, <1>9, <2>2 DEF Bounds
  <2> QED
    BY <1>1, <1>6, <1>10, <1>11, <1>12, <1>13, <2>14, <2>15, <2>16, OneStep
<1>16. CASE backend = "def"
  <2>1. inflight' = inflight /\ inflight'[d] = {} /\ Lands(d, f, x, x, n)
    BY <1>3, <1>7, <1>16
  <2>2. /\ disk' \in [Disks -> [Files -> SUBSET (Places \X Places)]] /\ Grows
        /\ \A k \in x..(x + n - 1) : <<k, k>> \in disk'[d][f]
    BY <1>4, <2>1, LandsIs
  <2>3. \A k \in 0..(x + n - 1) : <<k, k>> \in disk'[d][f]
    <3>1. \A k \in 0..(x + n - 1) : k \in 0..(x - 1) \/ k \in x..(x + n - 1)
      BY <1>4
    <3>2. \A k \in 0..(x - 1) : <<k, k>> \in disk[d][f]
      BY <1>3, <1>5, <1>16, NothingUnderWay
    <3> QED
      BY <2>2, <3>1, <3>2 DEF Grows
  <2>4. Aligned(x + n) /\ x + n \in Nat
    BY <1>3, <1>4, AlignedSum
  <2>5. /\ recer'[b] = d /\ fileid'[b] = f /\ diskid'[f] = d /\ savedif'[b] = savedif[b]
        /\ offset'[d] = Padded(x + c) /\ offset'[d] = x + n
        /\ bufoffset'[b] = x + c /\ diff'[b] = e - c /\ backend' = "def"
    BY <1>1, <1>4, <1>6, <1>9, <1>16
  <2>6. Landed(recer[b])' = x + n
    BY <2>1, <2>4, <2>5, NothingUnderWay DEF Landed
  <2>7. TransferInv(recer[b], fileid[b])'
    <3>1. Aligned(Landed(recer[b]))'
      BY <2>4, <2>6 DEF Aligned
    <3> QED
      BY <2>1, <2>3, <2>5, <3>1 DEF TransferInv, Separate, Within
  <2>8. pc'[b] = IF e - c = 0 THEN "release" ELSE "write"
    BY <1>9, <1>16 DEF AfterWrite
  <2>9. WriteInv(b)'
    <3>1. bufoffset'[b] <= savedif'[b]
      BY <1>14, <2>5
    <3>2. diff'[b] > 0 => bufoffset'[b] + diff'[b] = savedif'[b] /\ Aligned(bufoffset'[b])
      BY <1>4, <1>14, <2>5
    <3>3. pc'[b] = "write" => diff'[b] > 0
      BY <1>4, <2>5, <2>8
    <3>4. pc'[b] # "poll"
      BY <2>8
    <3> QED
      BY <2>1, <2>5, <2>7, <3>1, <3>2, <3>3, <3>4 DEF WriteInv
  <2>10. WroteInv(b)'
    <3>1. ASSUME pc'[b] = "release" PROVE Whole(diskid[fileid[b]], fileid[b])'
      <4>1. e - c = 0
        BY <2>8, <3>1
      <4>2. x + c = savedif[b] /\ c <= n
        <5>1. c <= n
          BY <1>2, PaddedIs
        <5> QED
          BY <1>3, <4>1, <5>1
      <4>3. given'[f] = savedif[b]
        BY <1>1, <1>13
      <4>4. \A k \in 0..(savedif[b] - 1) : k \in 0..(x + n - 1)
        BY <4>2
      <4> QED
        BY <2>3, <2>5, <4>3, <4>4 DEF Whole
    <3>2. pc'[b] = "release" => diskid'[fileid'[b]] = recer'[b] /\ inflight'[recer'[b]] = {}
      BY <2>1, <2>5
    <3>3. pc'[b] # "mark"
      BY <2>8
    <3> QED
      BY <2>5, <3>1, <3>2, <3>3 DEF WroteInv
  <2>11. Bounds'
    BY <1>3, <1>6, <1>9, <2>1, <2>2 DEF Bounds
  <2> QED
    BY <1>1, <1>6, <1>10, <1>11, <1>12, <1>13, <2>2, <2>9, <2>10, <2>11, OneStep
<1> QED
  BY <1>8, <1>15, <1>16

\* Nothing is submitted and some of it is missing, or def_write gave up halfway.
LEMMA WriteErrorStep ==
  ASSUME Shape, BuffersInv, RecerInv, StoreInv, BuffersInv', NEW b \in Buffers, WriteError(b)
  PROVE  StoreInv'
<1>0. pc[b] = "write"
  BY DEF WriteError
<1>1. PICK d \in Disks, f \in Files :
           /\ d = recer[b] /\ f = fileid[b] /\ diskid[f] = d
           /\ Handed(b) /\ list[b] = "busy" /\ ~Filled(b) /\ ~SaysWritten(f) /\ f < begun
           /\ savedif[b] = given[f] /\ savedif[b] \in 1..BufSize
           /\ bufoffset[b] \in Nat /\ diff[b] \in 0..BufSize /\ bufoffset[b] <= savedif[b]
           /\ offset[d] \in 0..BufSize /\ inflight[d] \in SUBSET Requests
           /\ offset[d] = Padded(bufoffset[b])
           /\ TransferInv(d, f) /\ Landed(d) \in 0..BufSize
  BY <1>0, WritingIs
<1>2. PICK x \in Nat, e \in Nat, c \in Nat : x = bufoffset[b] /\ e = diff[b] /\ c = Count(b)
  <2>1. Count(b) \in Nat /\ diff[b] \in Nat
    BY <1>1, SizesAligned DEF Count
  <2> QED
    BY <1>1, <2>1
<1>3. /\ Bounds /\ FileInv(b) /\ e > 0 /\ x + e = savedif[b] /\ Aligned(x) /\ x + e <= BufSize
      /\ backend = "aio" => asyncdiff[b] = (savedif[b] - Landed(d)) % ULONG
      /\ backend = "def" => inflight[d] = {}
  <2>1. FileInv(b) /\ WriteInv(b) /\ Bounds
    BY DEF StoreInv
  <2> QED
    BY <1>0, <1>1, <1>2, <2>1, SizesAligned DEF WriteInv
<1>4. Padded(x) = x /\ c <= e /\ offset[d] = x
  BY <1>1, <1>2, <1>3, NextWrite DEF Count
<1>5. PICK i \in 0..(IF backend = "aio" THEN 0 ELSE Count(b) - 1) :
           /\ Lands(d, f, x, x, i)
           /\ offset' = [offset EXCEPT ![d] = x + i]
  BY <1>1, <1>2, <1>4 DEF WriteError
<1>6. i \in Nat /\ (backend = "aio" => i = 0) /\ x + i <= BufSize
  BY <1>2, <1>3, <1>4, <1>5, SizesAligned
<1>7. /\ "write" \in Faults
      /\ diff' = [diff EXCEPT ![b] = 0] /\ pc' = [pc EXCEPT ![b] = AfterWrite(0)]
      /\ UNCHANGED <<begun, given, filling, list, fileid, bufoffset, ready_to_act, running, recer>>
      /\ UNCHANGED <<asyncdiff, savedif, stopping, disklist, full, inflight, status, diskid>>
      /\ UNCHANGED <<n_files, backend>>
  BY DEF WriteError, receiver, index
<1>8. /\ disk' \in [Disks -> [Files -> SUBSET (Places \X Places)]] /\ Grows
  BY <1>5, <1>6, LandsIs
<1>9. /\ offset' \in [Disks -> 0..BufSize] /\ diff' \in [Buffers -> 0..BufSize]
      /\ offset'[d] = x + i /\ diff'[b] = 0 /\ pc'[b] = AfterWrite(0)
      /\ pc'[b] \in {"poll", "release"}
  <2>1. x + i \in 0..BufSize /\ 0 \in 0..BufSize
    BY <1>6, SizesAligned
  <2>2. backend \in {"def", "aio"}
    BY <1>3, ConstantsAssumption DEF Bounds
  <2> QED
    BY <1>3, <1>5, <1>7, <2>1, <2>2 DEF Bounds, Shape, AfterWrite
<1>10. \A a \in Buffers \ {b} : Still(a)
  BY <1>3, <1>7 DEF Still, Shape, Bounds, Filled
<1>11. \A q \in Disks \ {d} : offset'[q] = offset[q] /\ inflight'[q] = inflight[q]
  BY <1>3, <1>5, <1>7 DEF Bounds
<1>12. FileInv(b)'
  BY <1>1, <1>3, <1>7, <1>9 DEF FileInv, Filled, Handed, Working, SaysWritten
<1>13. ~SaysWritten(fileid[b])' /\ disklist'[d] = "busy"
  <2>1. disklist[d] = "busy"
    BY <1>1 DEF RecerInv, RecerAccounted
  <2> QED
    BY <1>1, <1>7, <2>1 DEF SaysWritten
<1>14. Bounds'
  BY <1>3, <1>7, <1>8, <1>9 DEF Bounds
<1>15. WriteInv(b)' /\ WroteInv(b)'
  <2>1. CASE backend = "aio"
    <3>1. offset'[d] = offset[d] /\ inflight'[d] = inflight[d] /\ disk[d][f] \subseteq disk'[d][f]
      BY <1>4, <1>6, <1>7, <1>8, <1>9, <2>1 DEF Grows
    <3>2. /\ recer'[b] = d /\ fileid'[b] = f /\ diskid'[f] = d /\ savedif'[b] = savedif[b]
          /\ bufoffset'[b] = bufoffset[b] /\ asyncdiff'[b] = asyncdiff[b] /\ backend' = "aio"
          /\ pc'[b] = "poll"
      BY <1>1, <1>7, <1>9, <2>1 DEF AfterWrite
    <3>3. Landed(recer[b])' = Landed(d)
      BY <3>1, <3>2 DEF Landed
    <3>4. TransferInv(recer[b], fileid[b])'
      <4>1. Aligned(Landed(recer[b]))'
        BY <1>1, <3>3 DEF TransferInv, Aligned
      <4> QED
        BY <1>1, <3>1, <3>2, <4>1 DEF TransferInv
    <3>5. WriteInv(b)'
      BY <1>1, <1>3, <1>9, <2>1, <3>1, <3>2, <3>3, <3>4 DEF WriteInv
    <3> QED
      BY <3>2, <3>5 DEF WroteInv
  <2>2. CASE backend = "def"
    <3>1. pc'[b] = "release" /\ recer'[b] = d /\ fileid'[b] = f /\ diskid'[f] = d
          /\ inflight'[d] = {} /\ backend' = "def"
      BY <1>1, <1>3, <1>7, <1>9, <2>2 DEF AfterWrite
    <3>2. ~Honest'
      BY <1>7, <3>1 DEF Honest
    <3> QED
      BY <3>1, <3>2 DEF WriteInv, WroteInv
  <2>3. backend \in {"def", "aio"}
    BY <1>3, ConstantsAssumption DEF Bounds
  <2> QED
    BY <2>1, <2>2, <2>3
<1> QED
  BY <1>1, <1>7, <1>8, <1>10, <1>11, <1>12, <1>13, <1>14, <1>15, OneStep

\* Nothing completed: the loop goes on writing.
LEMMA NoEventStep ==
  ASSUME Shape, BuffersInv, RecerInv, StoreInv, NEW b \in Buffers, NoEvent(b)
  PROVE  StoreInv'
<1>1. /\ pc[b] = "poll" /\ pc' = [pc EXCEPT ![b] = "write"] /\ diff[b] > 0
      /\ UNCHANGED <<begun, given, filling, list, fileid, diff, bufoffset, ready_to_act>>
      /\ UNCHANGED <<running, recer, asyncdiff, savedif, stopping, disklist, full, offset>>
      /\ UNCHANGED <<inflight, disk, status, diskid, n_files, backend>>
  BY DEF NoEvent, Goes, KeepsBuffer, KeepsRest, receiver, points, index
<1>2. Bounds /\ FileInv(b) /\ WriteInv(b) /\ Bounds' /\ pc'[b] = "write"
  BY <1>1 DEF StoreInv, Bounds, Shape
<1>3. \A c \in Buffers \ {b} : Still(c)
  BY <1>1 DEF Still, Shape, Filled
<1>4. FileInv(b)'
  BY <1>1, <1>2 DEF FileInv, Filled, Handed, Working, SaysWritten
<1>5. WriteInv(b)' /\ WroteInv(b)' /\ Grows
  BY <1>1, <1>2 DEF WriteInv, WroteInv, TransferInv, Landed, Grows
<1>6. ~SaysWritten(fileid[b])'
  BY <1>1, WorkingIsHanded DEF SaysWritten, Working
<1> QED
  BY <1>1, <1>2, <1>3, <1>4, <1>5, <1>6, OneStep

\* One write completes, or comes back short; the loop ends when asyncdiff is zero, and then
\* all is there.
LEMMA EventStep ==
  ASSUME Shape, BuffersInv, RecerInv, StoreInv, BuffersInv', NEW b \in Buffers,
         EventDone(b) \/ EventShort(b)
  PROVE  StoreInv'
<1>0. pc[b] = "poll"
  BY DEF EventDone, EventShort
<1>1. PICK d \in Disks, f \in Files :
           /\ d = recer[b] /\ f = fileid[b] /\ diskid[f] = d
           /\ Handed(b) /\ list[b] = "busy" /\ ~Filled(b) /\ ~SaysWritten(f) /\ f < begun
           /\ savedif[b] = given[f] /\ savedif[b] \in 1..BufSize
           /\ bufoffset[b] \in Nat /\ diff[b] \in 0..BufSize /\ bufoffset[b] <= savedif[b]
           /\ offset[d] \in 0..BufSize /\ inflight[d] \in SUBSET Requests
           /\ offset[d] = Padded(bufoffset[b])
           /\ TransferInv(d, f) /\ Landed(d) \in 0..BufSize
  BY <1>0, WritingIs
<1>2. PICK r \in inflight[d], n \in Nat :
        /\ n > 0 /\ n <= r.count /\ Aligned(n)
        /\ Reported(b, r, n)
  <2>1. ASSUME NEW q \in inflight[d] PROVE q.count \in Nat /\ q.count > 0 /\ Aligned(q.count)
    <3>1. q \in Requests /\ Aligned(q.count)
      BY <1>1 DEF TransferInv
    <3> QED
      BY <3>1, SpanIs
  <2>2. CASE EventDone(b)
    <3>1. PICK q \in inflight[d] : Reported(b, q, q.count)
      BY <1>1, <2>2 DEF EventDone, Pending
    <3>2. q.count \in Nat /\ q.count > 0 /\ Aligned(q.count) /\ q.count <= q.count
      BY <2>1
    <3> QED
      BY <3>1, <3>2
  <2>3. CASE EventShort(b)
    <3>1. PICK q \in inflight[d] : \E m \in 1..(q.count - 1) : m % BLOCK_ALIGN = 0 /\ Reported(b, q, m)
      BY <1>1, <2>3 DEF EventShort, Pending
    <3>2. PICK m \in 1..(q.count - 1) : m % BLOCK_ALIGN = 0 /\ Reported(b, q, m)
      BY <3>1
    <3>3. m \in Nat /\ m > 0 /\ m <= q.count /\ Aligned(m)
      BY <2>1, <3>2 DEF Aligned
    <3> QED
      BY <3>2, <3>3
  <2> QED
    BY <2>2, <2>3
<1> DEFINE S == inflight[d]
           T == (inflight[d] \ {r}) \cup Rest(r, n)
           v == Cardinality(UnitsOf(T))
<1>3. /\ inflight' = [inflight EXCEPT ![d] = T]
      /\ Lands(d, f, r.at, r.from, n)
      /\ asyncdiff' = [asyncdiff EXCEPT ![b] = (asyncdiff[b] - n) % ULONG]
      /\ pc' = [pc EXCEPT ![b] = AfterPoll(b)]
      /\ UNCHANGED <<begun, given, filling, list, fileid, diff, bufoffset, ready_to_act, running>>
      /\ UNCHANGED <<recer, savedif, stopping, disklist, full, offset, status, diskid, n_files>>
      /\ UNCHANGED backend
  BY <1>1, <1>2 DEF Reported, receiver, index
<1>4. PICK s \in 0..BufSize, l \in 0..BufSize, o \in 0..BufSize, x \in Nat :
        s = savedif[b] /\ l = Landed(d) /\ o = offset[d] /\ x = r.at
  <2>1. savedif[b] \in 0..BufSize /\ r.at \in Nat
    BY <1>1, SizesAligned, SpanIs
  <2> QED
    BY <1>1, <2>1
<1>5. /\ Bounds /\ FileInv(b) /\ backend = "aio" /\ asyncdiff[b] = (s - l) % ULONG
      /\ diff[b] > 0 => bufoffset[b] + diff[b] = s /\ Aligned(bufoffset[b])
  <2>1. FileInv(b) /\ WriteInv(b) /\ Bounds
    BY DEF StoreInv
  <2>2. backend \in {"def", "aio"}
    BY <2>1, ConstantsAssumption DEF Bounds
  <2> QED
    BY <1>0, <1>1, <1>4, <2>1, <2>2 DEF WriteInv
<1>6. /\ r.from = x /\ Aligned(l) /\ Within(inflight[d], o) /\ Separate(inflight[d])
      /\ \A q \in inflight[d] : q.from = q.at /\ Aligned(q.count)
      /\ \A k \in 0..(o - 1) : k \in UnitsOf(inflight[d]) \/ <<k, k>> \in disk[d][f]
  BY <1>1, <1>4 DEF TransferInv
<1>7. x + n <= BufSize /\ Lands(d, f, x, x, n)
  <2>1. x + r.count <= o /\ r.count \in Nat /\ n <= r.count
    BY <1>1, <1>2, <1>4, <1>6, SpanIs DEF Within
  <2>2. x + n <= BufSize
    BY <1>2, <1>4, <2>1, SizesAligned
  <2> QED
    BY <1>3, <1>4, <1>6, <2>2
<1>8. /\ disk' \in [Disks -> [Files -> SUBSET (Places \X Places)]] /\ Grows
      /\ \A k \in x..(x + n - 1) : <<k, k>> \in disk'[d][f]
  BY <1>7, LandsIs
<1>9. /\ T \in SUBSET Requests /\ Separate(T) /\ Within(T, o)
      /\ \A q \in T : q.from = q.at /\ Aligned(q.count)
      /\ UnitsOf(T) = UnitsOf(S) \ (x..(x + n - 1))
      /\ v = Cardinality(UnitsOf(S)) - n
  <2>1. /\ S \in SUBSET Requests /\ Within(S, o) /\ Separate(S) /\ r \in S
        /\ \A q \in S : q.from = q.at /\ Aligned(q.count)
        /\ T = (S \ {r}) \cup Rest(r, n)
    BY <1>1, <1>6
  <2> HIDE DEF S, T
  <2>2. /\ T \in SUBSET Requests /\ Separate(T) /\ Within(T, o)
        /\ \A q \in T : q.from = q.at /\ Aligned(q.count)
        /\ UnitsOf(T) = UnitsOf(S) \ (r.at..(r.at + n - 1))
        /\ Cardinality(UnitsOf(T)) = Cardinality(UnitsOf(S)) - n
    BY <1>2, <1>4, <2>1, Ends
  <2> QED
    BY <1>4, <2>2
<1>10. v \in 0..o /\ o - v = l + n /\ (v = 0 => T = {})
  <2>1. T \in SUBSET Requests
    BY <1>9
  <2>2. v \in 0..o /\ IsFiniteSet(UnitsOf(T)) /\ (T = {} <=> UnitsOf(T) = {})
    <3>1. o \in Nat
      BY <1>4, SizesAligned
    <3> HIDE DEF T
    <3> QED
      BY <1>9, <2>1, <3>1, Submitted
  <2>3. v = 0 => UnitsOf(T) = {}
    BY <2>2, FS_EmptySet
  <2>4. Cardinality(UnitsOf(S)) \in Nat
    BY <1>1, <1>4, <1>6, Submitted
  <2> DEFINE u == Cardinality(UnitsOf(S))
  <2>5. l = o - u /\ v = u - n /\ u \in Nat
    BY <1>4, <1>9, <2>4 DEF Landed
  <2> HIDE DEF u, v, T
  <2> QED
    BY <1>2, <1>4, <2>2, <2>3, <2>5
<1>11. l + n <= BufSize /\ l + n \in 0..BufSize /\ Aligned(l + n)
  <2>1. Aligned(l + n)
    BY <1>2, <1>4, <1>6, AlignedSum, SizesAligned
  <2> HIDE DEF v
  <2> QED
    BY <1>2, <1>10, <2>1, SizesAligned
<1>12. /\ inflight'[d] = T /\ inflight' \in [Disks -> SUBSET Requests]
       /\ \A q \in Disks \ {d} : inflight'[q] = inflight[q]
  <2>1. inflight \in [Disks -> SUBSET Requests]
    BY <1>5 DEF Bounds
  <2> HIDE DEF T
  <2> QED
    BY <1>3, <1>9, <2>1
<1>13. /\ asyncdiff' \in [Buffers -> 0..(ULONG - 1)] /\ asyncdiff'[b] = (s - (l + n)) % ULONG
       /\ \A c \in Buffers \ {b} : asyncdiff'[c] = asyncdiff[c]
  <2>1. (asyncdiff[b] - n) % ULONG = (s - (l + n)) % ULONG
    BY <1>5, <1>11, OwedAfter
  <2>2. (s - (l + n)) % ULONG \in 0..(ULONG - 1)
    <3>1. ULONG \in Nat /\ ULONG > 0 /\ s - (l + n) \in Int
      BY SizesAligned
    <3> QED
      BY <3>1
  <2>3. asyncdiff \in [Buffers -> 0..(ULONG - 1)]
    BY <1>5 DEF Bounds
  <2> DEFINE z == (s - (l + n)) % ULONG
  <2>4. asyncdiff' = [asyncdiff EXCEPT ![b] = z] /\ z \in 0..(ULONG - 1)
    BY <1>3, <2>1, <2>2
  <2> HIDE DEF z
  <2>5. /\ asyncdiff' \in [Buffers -> 0..(ULONG - 1)] /\ asyncdiff'[b] = z
        /\ \A c \in Buffers \ {b} : asyncdiff'[c] = asyncdiff[c]
    BY <2>3, <2>4
  <2> QED
    BY <2>5 DEF z
<1>14. Bounds'
  BY <1>3, <1>5, <1>8, <1>12, <1>13 DEF Bounds
<1>15. /\ pc'[b] \in {"release", "write", "poll"}
       /\ pc'[b] = "release" => asyncdiff'[b] = 0
       /\ pc'[b] = "write" => diff[b] > 0
       /\ \A c \in Buffers \ {b} : pc'[c] = pc[c]
  <2>1. pc'[b] = AfterPoll(b) /\ \A c \in Buffers \ {b} : pc'[c] = pc[c]
    BY <1>3 DEF Shape
  <2> QED
    BY <2>1 DEF AfterPoll
<1>16. \A c \in Buffers \ {b} : Still(c)
  BY <1>3, <1>13, <1>15 DEF Still, Filled
<1>17. FileInv(b)'
  BY <1>1, <1>3, <1>5, <1>15 DEF FileInv, Filled, Handed, Working, SaysWritten
<1>18. ~SaysWritten(fileid[b])' /\ disklist'[d] = "busy"
  <2>1. disklist[d] = "busy"
    BY <1>1 DEF RecerInv, RecerAccounted
  <2> QED
    BY <1>1, <1>3, <2>1 DEF SaysWritten
<1>19. /\ recer'[b] = d /\ fileid'[b] = f /\ diskid'[f] = d /\ savedif'[b] = s
       /\ offset'[d] = o /\ bufoffset'[b] = bufoffset[b] /\ diff'[b] = diff[b]
       /\ given'[f] = s /\ backend' = "aio"
  BY <1>1, <1>3, <1>4, <1>5
<1>20. \A k \in 0..(o - 1) : k \in UnitsOf(T) \/ <<k, k>> \in disk'[d][f]
  BY <1>6, <1>8, <1>9 DEF Grows
<1>21. Landed(recer[b])' = l + n
  BY <1>10, <1>12, <1>19 DEF Landed
<1>22. WriteInv(b)'
  <2>1. TransferInv(recer[b], fileid[b])'
    <3>1. Aligned(Landed(recer[b]))'
      BY <1>11, <1>21 DEF Aligned
    <3>2. /\ \A q \in inflight'[d] : q.from = q.at /\ Aligned(q.count)
          /\ Separate(inflight'[d]) /\ Within(inflight'[d], offset'[d])
          /\ \A k \in 0..(offset'[d] - 1) : k \in UnitsOf(inflight'[d]) \/ <<k, k>> \in disk'[d][f]
      BY <1>6, <1>9, <1>12, <1>19, <1>20
    <3> HIDE DEF v, T, S
    <3> QED
      BY <1>19, <3>1, <3>2 DEF TransferInv
  <2>2. offset'[d] = Padded(bufoffset'[b]) /\ bufoffset'[b] <= savedif'[b]
    BY <1>1, <1>4, <1>19
  <2>3. diff'[b] > 0 => bufoffset'[b] + diff'[b] = savedif'[b] /\ Aligned(bufoffset'[b])
    BY <1>5, <1>19
  <2>4. asyncdiff'[b] = (savedif'[b] - Landed(recer[b])') % ULONG
    BY <1>13, <1>19, <1>21
  <2> HIDE DEF v, T, S
  <2> QED
    BY <1>15, <1>19, <2>1, <2>2, <2>3, <2>4 DEF WriteInv
<1>23. WroteInv(b)'
  <2> SUFFICES ASSUME pc'[b] = "release" PROVE WroteInv(b)'
    BY <1>15 DEF WroteInv
  <2>1. l + n = s
    BY <1>11, <1>13, <1>15, OwedIs
  <2>2. Padded(bufoffset[b]) <= s
    BY <1>1, <1>4, <1>11, <2>1, PaddedFits
  <2>3. o <= s
    BY <1>1, <1>4, <2>2
  <2>4. v = 0 /\ o = s
    <3> HIDE DEF v
    <3> QED
      BY <1>10, <2>1, <2>3
  <2>5. inflight'[d] = {}
    BY <1>10, <1>12, <2>4
  <2>6. \A k \in 0..(s - 1) : <<k, k>> \in disk'[d][f]
    BY <1>10, <1>20, <2>4, NothingUnderWay
  <2>7. Whole(diskid[fileid[b]], fileid[b])'
    BY <1>19, <2>6 DEF Whole
  <2> QED
    BY <1>19, <2>5, <2>7 DEF WroteInv
<1> QED
  BY <1>1, <1>3, <1>8, <1>12, <1>14, <1>16, <1>17, <1>18, <1>22, <1>23, OneStep

-----------------------------------------------------------------------------
(* The end of the loop                                                       *)

\* set_free on diskbranch: nothing is under way any more.
LEMMA ReleaseStep ==
  ASSUME Shape, BuffersInv, RecerInv, StoreInv, NEW b \in Buffers, ReleaseRec(b)
  PROVE  StoreInv'
<1>1. pc[b] = "release"
  BY DEF ReleaseRec, Goes
<1>2. PICK d \in Disks : d = recer[b]
  BY <1>1 DEF RecerInv, Shape
<1>3. /\ pc' = [pc EXCEPT ![b] = "mark"]
      /\ disklist' = [disklist EXCEPT ![d] = "free"]
      /\ recer' = [recer EXCEPT ![b] = None]
      /\ UNCHANGED <<begun, given, filling, list, fileid, diff, bufoffset, ready_to_act>>
      /\ UNCHANGED <<running, asyncdiff, savedif, stopping, full, offset>>
      /\ UNCHANGED <<inflight, disk, status, diskid, n_files, backend>>
  BY <1>2 DEF ReleaseRec, Goes, receiver, index
<1>4. Bounds /\ FileInv(b) /\ WroteInv(b) /\ Bounds' /\ pc'[b] = "mark"
  BY <1>3 DEF StoreInv, Bounds, Shape
<1>5. \A c \in Buffers \ {b} : Still(c)
  BY <1>3 DEF Still, Shape, Filled
<1>6. /\ inflight'[d] = {} /\ Grows
      /\ \A e \in Disks \ {d} : offset'[e] = offset[e] /\ inflight'[e] = inflight[e]
                                  /\ disklist'[e] = disklist[e]
  BY <1>1, <1>2, <1>3, <1>4 DEF WroteInv, Grows, Shape
<1>7. FileInv(b)'
  BY <1>1, <1>3, <1>4 DEF FileInv, Filled, Handed, Working, SaysWritten
<1>8. WriteInv(b)' /\ WroteInv(b)'
  BY <1>1, <1>3, <1>4 DEF WriteInv, WroteInv, Whole, Honest
<1>9. ~SaysWritten(fileid[b])'
  BY <1>1, <1>3, WorkingIsHanded DEF SaysWritten, Working
<1> QED
  BY <1>2, <1>3, <1>4, <1>5, <1>6, <1>7, <1>8, <1>9, OneStep

\* afi_update_fh: the file is reported written.
LEMMA MarkStep ==
  ASSUME Shape, BuffersInv, RecerInv, StoreInv, NEW b \in Buffers, MarkWritten(b)
  PROVE  StoreInv'
<1>1. /\ pc[b] = "mark" /\ pc' = [pc EXCEPT ![b] = "done"]
      /\ status' = [status EXCEPT ![fileid[b]] = (@ \ {"BUSY"}) \cup {"ONDISK"}]
      /\ UNCHANGED <<begun, given, filling, list, fileid, diff, bufoffset, ready_to_act>>
      /\ UNCHANGED <<running, recer, asyncdiff, savedif, stopping, full, offset, disklist>>
      /\ UNCHANGED <<inflight, disk, diskid, n_files, backend>>
  BY DEF MarkWritten, Goes, KeepsBuffer, receiver, points
<1>2. Bounds /\ FileInv(b) /\ WroteInv(b) /\ BufferInv(b) /\ pc'[b] = "done"
  BY <1>1 DEF StoreInv, Bounds, Shape, BuffersInv
<1>3. Handed(b) /\ list[b] = "busy" /\ fileid[b] \in Files /\ ~Filled(b)
  BY <1>1, <1>2, WorkingIsHanded DEF Working, BufferInv
<1>4. Bounds'
  <2>1. status' \in [Files -> SUBSET {"ONDISK", "MISSING", "BUSY"}]
    BY <1>1, <1>2 DEF Bounds
  <2> QED
    BY <1>1, <1>2, <2>1 DEF Bounds
<1>5. \A c \in Buffers \ {b} : Still(c)
  BY <1>1 DEF Still, Shape, Filled
<1>6. Grows /\ \A f \in Files : f # fileid[b] => status'[f] = status[f]
  BY <1>1, <1>2 DEF Grows, Bounds
<1>7. FileInv(b)'
  BY <1>1, <1>2, <1>3 DEF FileInv, Filled, Handed, Working
<1>8. WriteInv(b)' /\ WroteInv(b)'
  BY <1>2 DEF WriteInv, WroteInv
<1>9. diskid'[fileid[b]] \in Disks /\ (Honest => Whole(diskid[fileid[b]], fileid[b])')
  BY <1>1, <1>2 DEF WroteInv, Whole
<1> QED
  BY <1>1, <1>4, <1>5, <1>6, <1>7, <1>8, <1>9, OneStep

\* sbuf_release: what the buffer still holds is nobody's any more.
LEMMA FreeStep ==
  ASSUME Shape, BuffersInv, RecerInv, StoreInv, NEW b \in Buffers, FreeBuffer(b)
  PROVE  StoreInv'
<1>1. /\ pc[b] = "done" /\ pc' = [pc EXCEPT ![b] = "freed"]
      /\ list' = [list EXCEPT ![b] = "free"] /\ diff' = [diff EXCEPT ![b] = 0]
      /\ UNCHANGED <<begun, given, filling, fileid, bufoffset, ready_to_act, status>>
      /\ UNCHANGED <<running, recer, asyncdiff, savedif, stopping, full, offset, disklist>>
      /\ UNCHANGED <<inflight, disk, diskid, n_files, backend>>
  BY DEF FreeBuffer, Goes, receiver, points, index
<1>2. /\ Bounds /\ FileInv(b) /\ BufferInv(b) /\ pc'[b] = "freed" /\ list'[b] = "free"
      /\ Honest => WrittenWhole
  BY <1>1 DEF StoreInv, Bounds, Shape, BuffersInv
<1>3. Bounds'
  <2>1. diff' \in [Buffers -> 0..BufSize]
    BY <1>1, <1>2, SizesAligned DEF Bounds
  <2> QED
    BY <1>1, <1>2, <2>1 DEF Bounds
<1>4. \A c \in Buffers \ {b} : Still(c)
  BY <1>1, <1>2 DEF Still, Shape, Filled, Bounds
<1>5. FileInv(b)'
  BY <1>1, <1>2 DEF FileInv, Filled, Handed, Working, BufferInv
<1>6. WriteInv(b)' /\ WroteInv(b)' /\ Grows
  BY <1>1, <1>2 DEF WriteInv, WroteInv, Grows
<1>7. fileid[b] \in Files /\ Honest /\ SaysWritten(fileid[b])' =>
        diskid'[fileid[b]] \in Disks /\ Whole(diskid[fileid[b]], fileid[b])'
  BY <1>1, <1>2 DEF WrittenWhole, SaysWritten, Whole
<1> QED
  BY <1>1, <1>3, <1>4, <1>5, <1>6, <1>7, OneStep

\* The thread gives up headlock and begins again.
LEMMA ClearStep ==
  ASSUME Shape, BuffersInv, RecerInv, StoreInv, NEW b \in Buffers, ClearReady(b)
  PROVE  StoreInv'
<1>1. /\ pc[b] = "freed" /\ pc' = [pc EXCEPT ![b] = "top"]
      /\ ready_to_act' = [ready_to_act EXCEPT ![b] = FALSE]
      /\ UNCHANGED <<begun, given, filling, fileid, bufoffset, list, status, diff>>
      /\ UNCHANGED <<running, recer, asyncdiff, savedif, stopping, full, offset, disklist>>
      /\ UNCHANGED <<inflight, disk, diskid, n_files, backend>>
  BY DEF ClearReady, Goes, receiver, points, index
<1>2. /\ Bounds /\ FileInv(b) /\ Bounds' /\ pc'[b] = "top" /\ ~ready_to_act'[b]
      /\ Honest => WrittenWhole
  BY <1>1 DEF StoreInv, Bounds, Shape
<1>3. \A c \in Buffers \ {b} : Still(c)
  BY <1>1 DEF Still, Shape, Filled
<1>4. FileInv(b)'
  BY <1>1, <1>2 DEF FileInv, Filled, Handed, Working
<1>5. WriteInv(b)' /\ WroteInv(b)' /\ Grows
  BY <1>1, <1>2 DEF WriteInv, WroteInv, Grows
<1>6. fileid[b] \in Files /\ Honest /\ SaysWritten(fileid[b])' =>
        diskid'[fileid[b]] \in Disks /\ Whole(diskid[fileid[b]], fileid[b])'
  BY <1>1, <1>2 DEF WrittenWhole, SaysWritten, Whole
<1> QED
  BY <1>1, <1>2, <1>3, <1>4, <1>5, <1>6, OneStep

-----------------------------------------------------------------------------
(* Every step                                                                *)

LEMMA StoreInit == Init => StoreInv
<1> SUFFICES ASSUME Init PROVE StoreInv
  OBVIOUS
<1>1. /\ NFiles \in Nat /\ BufSize \in Nat /\ ULONG \in Nat /\ BufSize < ULONG
      /\ 0 \in 0..NFiles /\ 0 \in 0..BufSize /\ 0 \in 0..(ULONG - 1)
  BY ConstantsAssumption, SizesAligned
<1>2. Bounds
  BY <1>1 DEF Init, Bounds
<1>3. \A b \in Buffers : ~Filled(b) /\ ~Handed(b)
  BY DEF Init, Filled, Handed
<1>4. \A b \in Buffers : FileInv(b) /\ WriteInv(b) /\ WroteInv(b)
  BY <1>3 DEF Init, FileInv, WriteInv, WroteInv, Working
<1>5. WrittenWhole
  BY DEF Init, WrittenWhole, SaysWritten
<1> QED
  BY <1>2, <1>4, <1>5 DEF Init, StoreInv

LEMMA StoreStep ==
  ASSUME Shape, BuffersInv, RecerInv, StoreInv, [Next]_vars
  PROVE  StoreInv'
<1>0. BuffersInv'
  BY BuffersStep
<1>1. ASSUME NEW b \in Buffers, Take(b) PROVE StoreInv'
  BY <1>0, <1>1, TakeStep
<1>2. ASSUME NEW i \in 1..2, NEW n \in LastSizes \cup {BufSize}, Fill(i, n) PROVE StoreInv'
  BY <1>2, FillStep
<1>3. ASSUME HandOver PROVE StoreInv'
  BY <1>0, <1>3, HandOverStep
<1>4. ASSUME CancelWritebuf PROVE StoreInv'
  BY <1>4, CancelStep
<1>5. ASSUME NEW b \in Buffers, StartWork(b) PROVE StoreInv'
  BY <1>0, <1>5, StartStep
<1>6. ASSUME NEW b \in Buffers, NEW d \in Disks, OpenFile(b, d) PROVE StoreInv'
  BY <1>0, <1>6, OpenFileStep
<1>7. ASSUME NEW b \in Buffers, NEW d \in Disks, OpenFails(b, d) PROVE StoreInv'
  BY <1>7, OpenFailsStep
<1>8. ASSUME NEW b \in Buffers, NoRecPoint(b) PROVE StoreInv'
  BY <1>8, NoRecPointStep
<1>9. ASSUME NEW b \in Buffers, WriteBytes(b) PROVE StoreInv'
  BY <1>0, <1>9, WriteStep
<1>10. ASSUME NEW b \in Buffers, WriteError(b) PROVE StoreInv'
  BY <1>0, <1>10, WriteErrorStep
<1>11. ASSUME NEW b \in Buffers, EventDone(b) \/ EventShort(b) PROVE StoreInv'
  BY <1>0, <1>11, EventStep
<1>12. ASSUME NEW b \in Buffers, NoEvent(b) PROVE StoreInv'
  BY <1>12, NoEventStep
<1>13. ASSUME NEW b \in Buffers, EventError(b) PROVE StoreInv'
  BY <1>13, EventErrorStep
<1>14. ASSUME NEW b \in Buffers, ReleaseRec(b) PROVE StoreInv'
  BY <1>14, ReleaseStep
<1>15. ASSUME NEW b \in Buffers, MarkWritten(b) PROVE StoreInv'
  BY <1>15, MarkStep
<1>16. ASSUME NEW b \in Buffers, FreeBuffer(b) PROVE StoreInv'
  BY <1>16, FreeStep
<1>17. ASSUME NEW b \in Buffers, ClearReady(b) PROVE StoreInv'
  BY <1>17, ClearStep
<1>18. ASSUME NEW b \in Buffers,
              LoopTop(b) \/ LockHead(b) \/ CheckReady(b) \/ Sleep(b) \/ SpuriousWakeup(b)
                \/ WokeUp(b) \/ SignalStop(b) \/ FlagStop(b)
       PROVE  StoreInv'
  BY <1>18, LoopStep
<1>19. ASSUME NoBuffer \/ StopReceiving \/ UNCHANGED vars PROVE StoreInv'
  BY <1>19, IdleStep
<1> QED
  BY <1>1, <1>2, <1>3, <1>4, <1>5, <1>6, <1>7, <1>8, <1>9, <1>10, <1>11, <1>12, <1>13, <1>14,
     <1>15, <1>16, <1>17, <1>18, <1>19 DEF Next, Receive, PassOn, Stop, Continue

-----------------------------------------------------------------------------
(* The theorems                                                              *)

\* The invariant holds from the start on.
THEOREM StoreInvariance == Spec => [](Shape /\ BuffersInv /\ RecerInv /\ StoreInv)
<1>1. Shape /\ BuffersInv /\ RecerInv /\ StoreInv /\ [Next]_vars => StoreInv'
  BY StoreStep
<1> QED
  BY <1>1, StoreInit, Invariance, PTL DEF Spec

\* Every variable keeps its type and its bound: the padded size of a write never takes
\* offset past the buffer and asyncdiff stays an unsigned long (simple_end_transaction,
\* sbuf_check), for any sizes that config and the options let through.
THEOREM TypeCorrect == Spec => []TypeOK
<1>1. Shape /\ StoreInv => TypeOK
  BY DEF Shape, StoreInv, Bounds, TypeOK
<1> QED
  BY <1>1, StoreInvariance, PTL

\* Unless def_write may fail, the file that the loop reports on disk is there with every
\* byte in its place, although asynchronous writes finish in any order, fail halfway or
\* are never submitted, and although asyncdiff alone tells the loop when all are done.
THEOREM WrittenIsWhole == Spec => [](Honest => WrittenWhole)
<1>1. StoreInv => (Honest => WrittenWhole)
  BY DEF StoreInv
<1> QED
  BY <1>1, StoreInvariance, PTL

-----------------------------------------------------------------------------
(* The promise                                                               *)

Lost(f) == \E b \in On("removed") : fileid[b] = f

fate == [f \in Files |-> Fate(f)]
usable == {d \in Disks : disklist[d] # "removed" /\ d \notin full}

\* Where WrittenWhole holds the index alone says what is stored.
LEMMA FateIs ==
  StoreInv /\ Honest =>
    \A f \in Files :
      Fate(f) = IF SaysWritten(f) THEN "stored"
                ELSE IF Lost(f) THEN "lost" ELSE IF given[f] > 0 THEN "pending" ELSE "none"
BY DEF StoreInv, WrittenWhole, Fate, Lost

LEMMA FateIsNext ==
  StoreInv' /\ Honest' =>
    \A f \in Files :
      Fate(f)' = IF SaysWritten(f)' THEN "stored"
                 ELSE IF Lost(f)' THEN "lost" ELSE IF given'[f] > 0 THEN "pending" ELSE "none"
<1>1. (StoreInv /\ Honest =>
        \A f \in Files :
          Fate(f) = IF SaysWritten(f) THEN "stored"
                    ELSE IF Lost(f) THEN "lost" ELSE IF given[f] > 0 THEN "pending" ELSE "none")'
  BY FateIs, PTL
<1> QED
  BY <1>1

\* A step that changes nothing the promise is about.
LEMMA SameFates ==
  ASSUME StoreInv, StoreInv', Honest, Honest', NEW F \in SUBSET Files,
         \A f \in F : /\ SaysWritten(f)' <=> SaysWritten(f)
                      /\ Lost(f)' <=> Lost(f)
                      /\ given'[f] = given[f]
  PROVE  \A f \in F : Fate(f)' = Fate(f)
BY FateIs, FateIsNext

LEMMA SameLost ==
  ASSUME \A c \in Buffers : list'[c] = "removed" <=> list[c] = "removed",
         \A c \in Buffers : list[c] = "removed" => fileid'[c] = fileid[c]
  PROVE  \A f \in Files : Lost(f)' <=> Lost(f)
BY DEF Lost, On

\* A file of a buffer that is in use is not lost.
LEMMA NotLost ==
  ASSUME StoreInv, NEW b \in Buffers, list[b] # "removed", fileid[b] \in Files
  PROVE  ~Lost(fileid[b])
<1>1. /\ \A c, e \in Buffers : fileid[c] = fileid[e] /\ fileid[c] # -1 => c = e
      /\ -1 \notin Files
  BY ConstantsAssumption DEF StoreInv, Files
<1> QED
  BY <1>1 DEF Lost, On

\* Most steps leave the promise alone.
LEMMA FatesStutter ==
  ASSUME Shape, StoreInv, StoreInv', Honest, Honest', UNCHANGED <<given, full>>,
         \A f \in Files : SaysWritten(f)' <=> SaysWritten(f),
         \A c \in Buffers : list'[c] = "removed" <=> list[c] = "removed",
         \A c \in Buffers : list[c] = "removed" => fileid'[c] = fileid[c],
         \A d \in Disks : disklist'[d] = "removed" <=> disklist[d] = "removed"
  PROVE  UNCHANGED <<fate, usable>>
<1>1. \A f \in Files : Lost(f)' <=> Lost(f)
  BY SameLost
<1>2. \A f \in Files : Fate(f)' = Fate(f)
  BY <1>1, SameFates
<1> QED
  BY <1>2 DEF fate, usable

\* One file's fate changes.
LEMMA OneFate ==
  ASSUME StoreInv, StoreInv', Honest, Honest', NEW f \in Files, NEW v, Fate(f)' = v,
         \A g \in Files \ {f} : /\ SaysWritten(g)' <=> SaysWritten(g)
                                /\ Lost(g)' <=> Lost(g)
                                /\ given'[g] = given[g]
  PROVE  fate' = [fate EXCEPT ![f] = v]
<1>1. \A g \in Files \ {f} : Fate(g)' = Fate(g)
  BY SameFates
<1> QED
  BY <1>1 DEF fate

LEMMA HandOverFate ==
  ASSUME Shape, BuffersInv, StoreInv, StoreInv', Honest, Honest', HandOver
  PROVE  \E f \in Files : Promise!HandOver(f)
<1>0. PICK b \in Buffers : b = Head(filling) /\ filling # <<>>
  BY DEF HandOver, Shape
<1>1. /\ MayHandOver(diff[b])
      /\ given' = [given EXCEPT ![fileid[b]] = diff[b]]
      /\ UNCHANGED <<list, fileid, status, disklist, full>>
  BY <1>0 DEF HandOver, points, index
<1>2. Filled(b)
  <2>1. 1 \in DOMAIN filling /\ filling[1] = b
    BY <1>0 DEF Shape
  <2> QED
    BY <2>1 DEF Filled
<1>3. /\ list[b] = "busy" /\ given[fileid[b]] = 0 /\ status[fileid[b]] = {}
      /\ fileid[b] \in Files
  BY <1>2, FilledIs
<1>4. PICK f \in Files : f = fileid[b]
  BY <1>3
<1>5. ~Lost(f) /\ ~SaysWritten(f) /\ given[f] = 0
  BY <1>3, <1>4, NotLost DEF SaysWritten
<1>6. diff[b] > 0
  <2>1. LastSizes \subseteq 1..BufSize
    BY ConstantsAssumption
  <2>2. diff[b] \in 0..BufSize
    BY DEF StoreInv, Bounds
  <2> QED
    BY <1>1, <2>1, <2>2, SizesAligned DEF MayHandOver
<1>7. given'[f] = diff[b] /\ \A g \in Files \ {f} : given'[g] = given[g]
  <2>1. given \in [Files -> 0..BufSize]
    BY DEF StoreInv, Bounds
  <2> QED
    BY <1>1, <1>4, <2>1
<1>8. \A g \in Files : (SaysWritten(g)' <=> SaysWritten(g)) /\ (Lost(g)' <=> Lost(g))
  BY <1>1, SameLost DEF SaysWritten
<1>9. Fate(f) = "none" /\ Fate(f)' = "pending"
  BY <1>5, <1>6, <1>7, <1>8, FateIs, FateIsNext
<1>10. fate' = [fate EXCEPT ![f] = "pending"] /\ fate[f] = "none"
  BY <1>7, <1>8, <1>9, OneFate DEF fate
<1>11. usable' = usable
  BY <1>1 DEF usable
<1> QED
  BY <1>10, <1>11 DEF Promise!HandOver, fate, usable

LEMMA MarkFate ==
  ASSUME Shape, BuffersInv, StoreInv, StoreInv', Honest, Honest',
         NEW b \in Buffers, MarkWritten(b)
  PROVE  \E f \in Files : Promise!Store(f)
<1>1. /\ pc[b] = "mark"
      /\ status' = [status EXCEPT ![fileid[b]] = (@ \ {"BUSY"}) \cup {"ONDISK"}]
      /\ UNCHANGED <<list, fileid, given, disklist, full>>
  BY DEF MarkWritten, Goes, KeepsBuffer, receiver, points
<1>2. /\ Handed(b) /\ list[b] = "busy" /\ fileid[b] \in Files /\ ~SaysWritten(fileid[b])
      /\ savedif[b] = given[fileid[b]] /\ savedif[b] \in 1..BufSize
  BY <1>1, WorkingIsHanded DEF Working
<1>3. PICK f \in Files : f = fileid[b]
  BY <1>2
<1>4. ~Lost(f) /\ ~SaysWritten(f) /\ given[f] > 0
  BY <1>2, <1>3, NotLost, SizesAligned
<1>5. SaysWritten(f)' /\ \A g \in Files \ {f} : SaysWritten(g)' <=> SaysWritten(g)
  <2>1. status \in [Files -> SUBSET {"ONDISK", "MISSING", "BUSY"}]
    BY DEF StoreInv, Bounds
  <2> QED
    BY <1>1, <1>3, <2>1 DEF SaysWritten
<1>6. \A g \in Files : Lost(g)' <=> Lost(g)
  BY <1>1, SameLost
<1>7. Fate(f) = "pending" /\ Fate(f)' = "stored"
  BY <1>4, <1>5, FateIs, FateIsNext
<1>8. fate' = [fate EXCEPT ![f] = "stored"] /\ fate[f] = "pending"
  BY <1>1, <1>5, <1>6, <1>7, OneFate DEF fate
<1>9. usable' = usable
  BY <1>1 DEF usable
<1> QED
  BY <1>8, <1>9 DEF Promise!Store, fate, usable

LEMMA NoRecPointFate ==
  ASSUME Shape, BuffersInv, StoreInv, StoreInv', Honest, Honest',
         NEW b \in Buffers, NoRecPoint(b)
  PROVE  \E f \in Files : Promise!Lose(f)
<1>1. /\ pc[b] = "acquire" /\ \A d \in Disks : ~Fit(d) /\ disklist[d] # "busy"
      /\ list' = [list EXCEPT ![b] = "removed"]
      /\ UNCHANGED <<fileid, given, status, disklist, full>>
  BY DEF NoRecPoint, receiver, points, index
<1>2. /\ Handed(b) /\ list[b] = "busy" /\ fileid[b] \in Files /\ ~SaysWritten(fileid[b])
      /\ savedif[b] = given[fileid[b]] /\ savedif[b] \in 1..BufSize
  BY <1>1, WorkingIsHanded DEF Working
<1>3. PICK f \in Files : f = fileid[b]
  BY <1>2
<1>4. ~Lost(f) /\ ~SaysWritten(f) /\ given[f] > 0
  BY <1>2, <1>3, NotLost, SizesAligned
<1>5. Lost(f)' /\ \A g \in Files \ {f} : Lost(g)' <=> Lost(g)
  <2>1. list'[b] = "removed" /\ \A c \in Buffers \ {b} : list'[c] = list[c]
    BY <1>1 DEF Shape
  <2> QED
    BY <1>1, <1>2, <1>3, <2>1 DEF Lost, On
<1>6. \A g \in Files : SaysWritten(g)' <=> SaysWritten(g)
  BY <1>1 DEF SaysWritten
<1>7. Fate(f) = "pending" /\ Fate(f)' = "lost"
  BY <1>1, <1>4, <1>5, <1>6, FateIs, FateIsNext
<1>8. fate' = [fate EXCEPT ![f] = "lost"] /\ fate[f] = "pending"
  BY <1>1, <1>5, <1>6, <1>7, OneFate DEF fate
<1>9. usable = {} /\ usable' = usable
  BY <1>1 DEF usable, Fit, Shape
<1> QED
  BY <1>8, <1>9 DEF Promise!Lose, fate, usable

LEMMA ErrorFate ==
  ASSUME Shape, BuffersInv, RecerInv, StoreInv, StoreInv', Honest, Honest',
         NEW d \in Disks, NEW isFull \in BOOLEAN, HandleError(d, isFull),
         isFull => disklist[d] = "free",
         UNCHANGED <<list, fileid, given, status>>
  PROVE  Promise!Break(d)
<1>1. \A f \in Files : (SaysWritten(f)' <=> SaysWritten(f)) /\ (Lost(f)' <=> Lost(f))
  BY SameLost DEF SaysWritten
<1>2. \A f \in Files : Fate(f)' = Fate(f)
  BY <1>1, SameFates
<1>3. \A e \in Disks : /\ disklist'[e] # "removed" /\ e \notin full'
                     <=> /\ disklist[e] # "removed" /\ e \notin full /\ e # d
  <2>1. CASE isFull
    BY <2>1 DEF HandleError, Shape
  <2>2. CASE ~isFull
    BY <2>2 DEF HandleError, Shape
  <2> QED
    BY <2>1, <2>2
<1>4. {e \in Disks : disklist'[e] # "removed" /\ e \notin full'}
        = {e \in Disks : disklist[e] # "removed" /\ e \notin full} \ {d}
  BY <1>3
<1>5. [f \in Files |-> Fate(f)'] = [f \in Files |-> Fate(f)]
  BY <1>2
<1> QED
  BY <1>4, <1>5 DEF Promise!Break

\* The back end is configured once.
LEMMA BackendStays == [Next]_vars => backend' = backend
<1> SUFFICES ASSUME [Next]_vars PROVE backend' = backend
  OBVIOUS
<1>1. CASE Receive \/ PassOn \/ Stop
  <2>1. CASE Receive
    BY <2>1 DEF Receive, Take, NoBuffer, StopReceiving, KeepsRest
  <2>2. CASE PassOn
    BY <2>2 DEF PassOn, Fill, HandOver, CancelWritebuf, KeepsRest
  <2>3. CASE Stop
    BY <2>3 DEF Stop, FlagStop, SignalStop
  <2> QED
    BY <1>1, <2>1, <2>2, <2>3
<1>2. ASSUME NEW b \in Buffers, Continue(b) PROVE backend' = backend
  <2>1. CASE \/ LoopTop(b) \/ LockHead(b) \/ CheckReady(b) \/ Sleep(b) \/ WokeUp(b)
            \/ StartWork(b)
    BY <2>1 DEF LoopTop, LockHead, CheckReady, Sleep, WokeUp, StartWork, KeepsRest
  <2>2. CASE \/ \E d \in Disks : OpenFile(b, d) \/ OpenFails(b, d)
            \/ NoRecPoint(b)
    BY <2>2 DEF OpenFile, OpenFails, NoRecPoint, KeepsRest
  <2>3. CASE \/ WriteBytes(b) \/ WriteError(b) \/ EventDone(b) \/ EventShort(b)
            \/ NoEvent(b) \/ EventError(b)
    BY <2>3 DEF WriteBytes, WriteError, EventDone, EventShort, Reported, NoEvent, EventError,
       KeepsRest
  <2>4. CASE ReleaseRec(b) \/ MarkWritten(b) \/ FreeBuffer(b) \/ ClearReady(b)
    BY <2>4 DEF ReleaseRec, MarkWritten, FreeBuffer, ClearReady, KeepsRest
  <2> QED
    BY <1>2, <2>1, <2>2, <2>3, <2>4 DEF Continue
<1>3. ASSUME NEW b \in Buffers, SpuriousWakeup(b) PROVE backend' = backend
  BY <1>3 DEF SpuriousWakeup, KeepsRest
<1>4. CASE UNCHANGED vars
  BY <1>4 DEF vars
<1> QED
  BY <1>1, <1>2, <1>3, <1>4 DEF Next

\* Every step is a step of the promise, or none of its business.
LEMMA PromiseStep ==
  ASSUME Shape, BuffersInv, RecerInv, StoreInv, StoreInv', Honest, Honest', [Next]_vars
  PROVE  [Promise!Next]_<<fate, usable>>
<1>1. ASSUME HandOver PROVE Promise!Next
  BY <1>1, HandOverFate DEF Promise!Next
<1>2. ASSUME NEW b \in Buffers, MarkWritten(b) PROVE Promise!Next
  BY <1>2, MarkFate DEF Promise!Next
<1>3. ASSUME NEW b \in Buffers, NoRecPoint(b) PROVE Promise!Next
  BY <1>3, NoRecPointFate DEF Promise!Next
<1>4. ASSUME NEW b \in Buffers, NEW d \in Disks, OpenFails(b, d) PROVE Promise!Next
  <2>1. PICK isFull \in BOOLEAN : HandleError(d, isFull)
    BY <1>4 DEF OpenFails
  <2>2. disklist[d] = "free" /\ UNCHANGED <<list, fileid, given, status>>
    BY <1>4 DEF OpenFails, Fit, receiver, index
  <2>3. Promise!Break(d)
    BY <2>1, <2>2, ErrorFate
  <2> QED
    BY <2>3 DEF Promise!Next
<1>5. ASSUME NEW b \in Buffers, EventError(b) PROVE Promise!Next
  <2>1. PICK d \in Disks : d = recer[b]
    BY <1>5 DEF EventError, RecerInv, Shape
  <2>2. HandleError(d, FALSE) /\ UNCHANGED <<list, fileid, given, status>>
    BY <1>5, <2>1 DEF EventError, receiver, index
  <2>3. Promise!Break(d)
    BY <2>2, ErrorFate
  <2> QED
    BY <2>3 DEF Promise!Next
<1>6. ASSUME NEW b \in Buffers, NEW d \in Disks, OpenFile(b, d) PROVE UNCHANGED <<fate, usable>>
  <2>1. /\ pc[b] = "acquire" /\ disklist[d] = "free" /\ disklist' = [disklist EXCEPT ![d] = "busy"]
        /\ status' = [status EXCEPT ![fileid[b]] = FH_INMEM \cup {"BUSY"}]
        /\ UNCHANGED <<list, fileid, given, full>>
    BY <1>6 DEF OpenFile, Goes, Fit, AddFile, receiver
  <2>2. ~SaysWritten(fileid[b]) /\ status \in [Files -> SUBSET {"ONDISK", "MISSING", "BUSY"}]
    BY <2>1, WorkingIsHanded DEF Working, StoreInv, Bounds
  <2>3. \A f \in Files : SaysWritten(f)' <=> SaysWritten(f)
    BY <2>1, <2>2 DEF SaysWritten
  <2>4. \A e \in Disks : disklist'[e] = "removed" <=> disklist[e] = "removed"
    BY <2>1 DEF Shape
  <2> QED
    BY <2>1, <2>3, <2>4, FatesStutter
<1>7. ASSUME NEW b \in Buffers, ReleaseRec(b) PROVE UNCHANGED <<fate, usable>>
  <2>1. /\ pc[b] = "release" /\ disklist' = [disklist EXCEPT ![recer[b]] = "free"]
        /\ UNCHANGED <<list, fileid, given, full, status>>
    BY <1>7 DEF ReleaseRec, Goes, receiver, index
  <2>2. recer[b] \in Disks /\ disklist[recer[b]] = "busy"
    BY <2>1 DEF RecerInv, RecerAccounted, Shape
  <2>3. \A e \in Disks : disklist'[e] = "removed" <=> disklist[e] = "removed"
    BY <2>1, <2>2 DEF Shape
  <2> QED
    BY <2>1, <2>3, FatesStutter DEF SaysWritten
<1>8. ASSUME NEW b \in Buffers, Take(b) \/ FreeBuffer(b) PROVE UNCHANGED <<fate, usable>>
  <2>1. /\ list[b] \in {"free", "busy"} /\ UNCHANGED <<given, full, status, disklist>>
        /\ \E l \in {"free", "busy"} : list' = [list EXCEPT ![b] = l]
        /\ fileid' = fileid \/ fileid' = [fileid EXCEPT ![b] = begun]
    BY <1>8 DEF Take, FreeBuffer, Goes, receiver, points, index, BuffersInv, BufferInv, Working
  <2>2. \A c \in Buffers : list'[c] = "removed" <=> list[c] = "removed"
    BY <2>1 DEF Shape
  <2>3. \A c \in Buffers : list[c] = "removed" => fileid'[c] = fileid[c]
    BY <2>1 DEF StoreInv, Bounds
  <2> QED
    BY <2>1, <2>2, <2>3, FatesStutter DEF SaysWritten
<1>9. ASSUME CancelWritebuf PROVE UNCHANGED <<fate, usable>>
  <2>1. PICK b \in Buffers : b = Head(filling) /\ Filled(b)
    <3>1. Len(filling) = 1 /\ filling \in Seq(Buffers)
      BY <1>9 DEF CancelWritebuf, Shape
    <3>2. Head(filling) = filling[1] /\ 1 \in DOMAIN filling /\ filling[1] \in Buffers
      BY <3>1
    <3> QED
      BY <3>2 DEF Filled
  <2>2. list' = [list EXCEPT ![b] = "free"] /\ UNCHANGED <<fileid, given, full, status, disklist>>
    BY <1>9, <2>1 DEF CancelWritebuf, points, index
  <2>3. list[b] = "busy"
    BY <2>1, FilledIs
  <2>4. \A c \in Buffers : list'[c] = "removed" <=> list[c] = "removed"
    BY <2>2, <2>3 DEF Shape
  <2> QED
    BY <2>2, <2>4, FatesStutter DEF SaysWritten
<1>10. ASSUME UNCHANGED <<list, fileid, given, full, status, disklist>>
       PROVE  UNCHANGED <<fate, usable>>
  BY <1>10, FatesStutter DEF SaysWritten
<1>11. ASSUME NEW b \in Buffers,
              \/ LoopTop(b) \/ LockHead(b) \/ CheckReady(b) \/ Sleep(b) \/ SpuriousWakeup(b)
              \/ WokeUp(b) \/ StartWork(b) \/ SignalStop(b) \/ FlagStop(b)
       PROVE  UNCHANGED <<list, fileid, given, full, status, disklist>>
  BY <1>11 DEF LoopTop, LockHead, CheckReady, Sleep, SpuriousWakeup, WokeUp, StartWork, SignalStop,
     FlagStop, KeepsBuffer, KeepsRest, receiver, points, index
<1>12. ASSUME NEW b \in Buffers,
              \/ WriteBytes(b) \/ WriteError(b) \/ EventDone(b) \/ EventShort(b) \/ NoEvent(b)
              \/ ClearReady(b)
       PROVE  UNCHANGED <<list, fileid, given, full, status, disklist>>
  BY <1>12 DEF WriteBytes, WriteError, EventDone, EventShort, Reported, NoEvent, ClearReady,
     KeepsBuffer, KeepsRest, receiver, points, index
<1>13. ASSUME NEW i \in 1..2, NEW n \in LastSizes \cup {BufSize}, Fill(i, n)
       PROVE  UNCHANGED <<list, fileid, given, full, status, disklist>>
  BY <1>13 DEF Fill, receiver, points, index
<1>14. ASSUME NoBuffer \/ StopReceiving \/ UNCHANGED vars
       PROVE  UNCHANGED <<list, fileid, given, full, status, disklist>>
  BY <1>14 DEF NoBuffer, StopReceiving, vars, receiver, buffer, points, index
<1> QED
  BY <1>1, <1>2, <1>3, <1>4, <1>5, <1>6, <1>7, <1>8, <1>9, <1>10, <1>11, <1>12, <1>13, <1>14
  DEF Next, Receive, PassOn, Stop, Continue

\* Unless def_write may fail, the buffer threads do what Archive promises a receiver: a
\* file that was handed over is stored whole and stays so, or it is lost, and it is lost
\* only when every recording point is broken or full (write_buffer and get_free).
THEOREM FilesAreStored == Spec /\ Honest => StoresFiles
<1>1. Init => Promise!Init
  <2> SUFFICES ASSUME Init PROVE Promise!Init
    OBVIOUS
  <2>1. \A f \in Files : Fate(f) = "none"
    BY DEF Init, Fate, SaysWritten, On
  <2>2. \A d \in Disks : disklist[d] # "removed" /\ d \notin full
    BY DEF Init
  <2> QED
    BY <2>1, <2>2 DEF Promise!Init
<1>2. Honest /\ [Next]_vars => Honest'
  <2>1. [Next]_vars => backend' = backend
    BY BackendStays
  <2> QED
    BY <2>1 DEF Honest
<1>3. Shape /\ BuffersInv /\ RecerInv /\ StoreInv /\ StoreInv' /\ Honest /\ Honest' /\ [Next]_vars
        => [Promise!Next]_<<fate, usable>>
  BY PromiseStep
<1> QED
  BY <1>1, <1>2, <1>3, StoreInvariance, PTL DEF Spec, StoresFiles, Promise!Spec, Promise!vars, fate, usable

=============================================================================
