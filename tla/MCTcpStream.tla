---------------------------- MODULE MCTcpStream -----------------------------
(* Two streams, three packets of two bytes in a buffer: the streams change     *)
(* places from one buffer to the next, and packets arrive in parts.            *)
EXTENDS TcpStream

\* Recordings of up to two buffers and a packet, striped as their sender does
\* it, and streams that break off in the middle.
MCSendings ==
  {[s \in 0..1 |-> 2 * Cardinality({n \in 0..(total - 1) : n % 2 = s})] : total \in {0, 2, 3, 6, 7}}
    \cup {[s \in 0..1 |-> IF s = 0 THEN 7 ELSE 2], [s \in 0..1 |-> IF s = 0 THEN 3 ELSE 6]}
=============================================================================
