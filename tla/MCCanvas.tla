------------------------------ MODULE MCCanvas ------------------------------
(***************************************************************************)
(* The codec and the pool of snapshots, which share no state.  All         *)
(* canvases of up to nine pixels are coded, with buffers shorter and       *)
(* longer than they are: a canvas may be longer than the longest run,      *)
(* which is not a multiple of the vector.  A pool of four is gone round    *)
(* while a worker copies; it starts when the empty canvas is coded, so     *)
(* that a behaviour is not an interleaving of both.                        *)
(***************************************************************************)
EXTENDS CanvasPool, Rle

CanvasInit == Init /\ RleInit

CanvasNext ==
  \/ RleNext /\ UNCHANGED vars
  \/ /\ phase = "done" /\ src = << >> /\ room = 0
     /\ Next /\ UNCHANGED rleVars
CanvasSpec == CanvasInit /\ [][CanvasNext]_<<vars, rleVars>> /\ WF_rleVars(RleNext)
=============================================================================
