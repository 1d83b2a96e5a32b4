----------------------------- MODULE MCSpscRing -----------------------------
(* Two slots, counters modulo 4: the counters wrap during the run.          *)
EXTENDS SpscRing
=============================================================================
