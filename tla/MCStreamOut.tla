---------------------------- MODULE MCStreamOut ----------------------------
(* A small instance of StreamOut: a file of two chunks and a part of an      *)
(* element, a second one of less than a chunk, a window in which a chunk     *)
(* does not fit, and no repetition, one, or repetition without end.          *)
EXTENDS StreamOut

MCFiles == <<9, 2>>
=============================================================================
