---------------------------- MODULE MCSiteclient ----------------------------
(* Small instances of Siteclient for TLC.  The prompt has two bytes, so that *)
(* it can be split; a recv returns at most three, so that an answer needs    *)
(* several; an answer may be one byte longer than the caller's buffer.       *)
EXTENDS Siteclient
=============================================================================
