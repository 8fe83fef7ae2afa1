---------------------------- MODULE MCRingBuffer -----------------------------
(***************************************************************************)
(* Instances of RingBuffer for TLC.                                        *)
(***************************************************************************)
EXTENDS RingBuffer, TLC

CONSTANTS p1, p2, c1, c2

TwoProducers == {p1, p2}
TwoConsumers == {c1, c2}
=============================================================================
