------------------------------ MODULE MCStack ------------------------------
(* The proxy and the dashboard, one session of it, and as many inodes as can *)
(* be in use at the same time.                                               *)
EXTENDS Stack

CONSTANT session

MCReaders == {session}
MCInodes == 1 .. 3
MCOptional == {"backends", "dashboard"}
=============================================================================
