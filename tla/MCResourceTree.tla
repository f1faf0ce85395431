--------------------------- MODULE MCResourceTree ---------------------------
(***************************************************************************)
(* Small instances of ResourceTree: who uses the branch, and for what.     *)
(* Threads a* and b* work for the sessions sa and sb, m is vlbistreamer    *)
(* taking session sa down, and x* are the buffers' own threads.            *)
(***************************************************************************)
EXTENDS ResourceTreeLease, TLC

CONSTANTS a1, a2, b1, b2, m, x1, x2, sa, sb, sx

Owner ==
  [t \in {a1, a2, m} |-> sa] @@ [t \in {b1, b2} |-> sb] @@ [t \in {x1, x2} |-> sx]
SessionOfThread == [t \in Threads |-> Owner[t]]

Roles(main, streamer, worker) ==
  [t \in Threads |-> IF t = m THEN main
                     ELSE IF t \in {x1, x2} THEN worker \cup {"work"} ELSE streamer]

Receiver == {"get_free", "set_ready", "set_free"}

\* membranch while two sessions record; then also while one of them ends and the
\* buffer threads take a buffer out because no disk is left to write it to.
Recording == Roles({"shutdown", "broadcast"}, Receiver, {"set_free"})
RecordingEnds == Roles({"shutdown", "broadcast", "block_until_free"}, Receiver,
                       {"set_free", "remove"})

\* membranch while sa plays back and sb records: a1 asks for the files a2 sends,
\* x1 and x2 read them.
Playback ==
  [t \in Threads |->
     IF t = a2 THEN {"get_loaded", "set_free"}
     ELSE Roles({"shutdown", "block_until_free"}, {"get_free", "set_ready"}, {"set_loaded"})[t]]

\* diskbranch: a recording takes any disk, one thread filling one up, another
\* breaking one; a playback takes the disk that has its file.
DisksShared ==
  [t \in Threads |-> CASE t = a1 -> {"get_free", "set_free", "disk_full"}
                       [] t = a2 -> {"get_free", "set_free", "remove"}
                       [] OTHER -> {"get_specific", "set_free"}]
=============================================================================
