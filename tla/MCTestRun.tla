------------------------------ MODULE MCTestRun ------------------------------
EXTENDS TestRun

\* All runs of one kind: they meet in the cache of images only.
MCConnections == {[r \in Runs |-> c] : c \in {"fd", "socket", "runner"}}
==============================================================================
