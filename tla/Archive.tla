------------------------------ MODULE Archive ------------------------------
(***************************************************************************)
(* What the buffer threads promise a receiver: a file that was handed over *)
(* is stored whole, or it is lost because no recording point was left that *)
(* could take it.  A file that is stored stays stored.  SimpleBuffer is    *)
(* shown to implement this.                                                *)
(***************************************************************************)
CONSTANTS Files, Points

VARIABLES
  fate,     \* what has become of each file
  usable    \* the recording points that can still take files

vars == <<fate, usable>>

Fates == {"none", "pending", "stored", "lost"}

Init ==
  /\ fate = [f \in Files |-> "none"]
  /\ usable = Points

HandOver(f) ==
  /\ fate[f] = "none"
  /\ fate' = [fate EXCEPT ![f] = "pending"]
  /\ UNCHANGED usable

Store(f) ==
  /\ fate[f] = "pending"
  /\ fate' = [fate EXCEPT ![f] = "stored"]
  /\ UNCHANGED usable

Lose(f) ==
  /\ fate[f] = "pending"
  /\ usable = {}
  /\ fate' = [fate EXCEPT ![f] = "lost"]
  /\ UNCHANGED usable

Break(d) ==
  /\ usable' = usable \ {d}
  /\ UNCHANGED fate

Next ==
  \/ \E f \in Files : HandOver(f) \/ Store(f) \/ Lose(f)
  \/ \E d \in Points : Break(d)

Spec == Init /\ [][Next]_vars
============================================================================
