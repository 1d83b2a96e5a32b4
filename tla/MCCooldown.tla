----------------------------- MODULE MCCooldown -----------------------------
(* Two chunks of two bits, so that user ids share chunks and share bits.    *)
EXTENDS Cooldown
=============================================================================
