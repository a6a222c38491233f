---------------------------- MODULE MCVmForward ----------------------------
(* Values of the constants of VmForward for TLC. *)
EXTENDS VmForward

\* Short and long packets alternate, so that a slot sees a short one before a
\* long one; packet 4 is bigger than a buffer.
MCSize == [p \in 1..MaxPackets |->
            CASE p % 4 = 1 -> 1 [] p % 4 = 2 -> 3 [] p % 4 = 3 -> 2 [] OTHER -> 5]
============================================================================
