--------------------------- MODULE MCHostForward ---------------------------
(* Values of the constants of HostForward for TLC. *)
EXTENDS HostForward

\* The bytes of the first n packets; packet n has n + 1 bytes, so that no two
\* packets, and no two runs of packets from the start, weigh the same.
MCOctets == [n \in 0..MaxPackets |-> (n * (n + 3)) \div 2]

\* Packet 2 is too big for the socket.
MCRefused == {2}
============================================================================
