---------------------------- MODULE MCRtmStream ----------------------------
(* RtmStream has no constants: one script, its two jobs and two UUTs.  The   *)
(* AI and the trigger are in any state when it starts.                       *)
EXTENDS RtmStream
=============================================================================
