------------------------------ MODULE MCDaemon ------------------------------
(* A recording by time, one by packets and a send, all under one name.           *)
EXTENDS Daemon

MCRequest ==
  [r1 |-> [name |-> "x", kind |-> "timed", start |-> "later"],
   r2 |-> [name |-> "x", kind |-> "counted", start |-> "now"],
   r3 |-> [name |-> "x", kind |-> "send", start |-> "now"]]
=============================================================================
