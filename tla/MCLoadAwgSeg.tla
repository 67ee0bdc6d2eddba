---------------------------- MODULE MCLoadAwgSeg ----------------------------
(* A small instance of LoadAwgSeg: three arguments, so that the order of the *)
(* segments shows, more selections than arguments, two of them before the    *)
(* first pause, and two SIGINTs.                                             *)
EXTENDS LoadAwgSeg
=============================================================================
