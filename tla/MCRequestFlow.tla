----------------------------- MODULE MCRequestFlow -----------------------------
(* Values for TLC.                                                         *)
EXTENDS FlowProperties, TLC

CONSTANTS w1, w2, w3

\* A first server with two workers and a second one with one.
Crews == <<{w1, w2}, {w3}>>
=============================================================================
