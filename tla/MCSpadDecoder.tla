--------------------------- MODULE MCSpadDecoder ---------------------------
(* Small instances of SpadDecoder: bytes with four values, so that counts    *)
(* carry from one byte to the next, one input that changes, streams of two   *)
(* sets and a residue from every subframe.                                   *)
EXTENDS SpadDecoder

MCStarts == 1..4
MCFromTheFirst == {1}
MCDiStates == {{}, {1}}
=============================================================================
