--------------------------- MODULE MCCreateFanout ---------------------------
(* CreateFanout on three backends. *)
EXTENDS CreateFanout
=============================================================================
