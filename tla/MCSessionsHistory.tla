--------------------------- MODULE MCSessionsHistory ---------------------------
(* The instances of MCSessions for the properties about the history of a pass. *)
EXTENDS MCSessions, SessionsHistory
=============================================================================
