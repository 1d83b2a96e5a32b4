--------------------------- MODULE MCUringWorker ---------------------------
(* More TX items and buffers than completions fit, as in the code, where    *)
(* 65536 sends and 16384 buffers share a completion queue of 65536.         *)
EXTENDS UringWorker
=============================================================================
