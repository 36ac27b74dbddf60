------------------------------ MODULE MCSemaphore ------------------------------
(* Values for TLC.                                                         *)
EXTENDS Semaphore, TLC

CONSTANTS w1, w2, w3, w4

\* A first server with three workers and a second one with one.
Crews == <<{w1, w2, w3}, {w4}>>
=============================================================================
