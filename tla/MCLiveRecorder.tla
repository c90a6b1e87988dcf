--------------------------- MODULE MCLiveRecorder ---------------------------
(* Two recordings over a ring of two frames, with blocks that fill half of   *)
(* it, all of it, or can never fit.                                          *)
EXTENDS LiveRecorder

MCBlocks == {1, 2, 3}
=============================================================================
