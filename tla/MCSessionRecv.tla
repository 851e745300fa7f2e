--------------------------- MODULE MCSessionRecv ---------------------------
(* An instance of SessionRecv for TLC: a varint octet carries one bit.         *)
EXTENDS SessionRecv

(* A protocol whose size has as many bits as 16384 to 32767 at 7 bits an octet. *)
LargeTalks == {<<[id |-> 1, size |-> 4], [id |-> 1, size |-> s]>> : s \in {0, 2, 3}}

=============================================================================
