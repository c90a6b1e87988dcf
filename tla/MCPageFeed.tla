----------------------------- MODULE MCPageFeed -----------------------------
(* The smallest pool (required pages + 2) with pages of two events, which a  *)
(* direct batch can fill exactly, leave open, or run over.                   *)
EXTENDS PageFeed
=============================================================================
