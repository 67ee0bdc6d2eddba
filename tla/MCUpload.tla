------------------------------ MODULE MCUpload ------------------------------
(* A shot of 23 bytes: with a buffer of two elements, six reads of 16 bit   *)
(* data or one of 32 bit data, and a rest of less than an element in both.  *)
(* The UUT has no site but 0, or it has one and lists 0 beside it or not.   *)
EXTENDS Upload

MCSiteLists == {{}, {"1"}, {"0", "1"}}
=============================================================================
