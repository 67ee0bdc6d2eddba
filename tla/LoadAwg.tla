------------------------------ MODULE LoadAwg ------------------------------
(***************************************************************************)
(* How a file is laid out in the AWG of a UUT, and where it is sent to:    *)
(* match_buffer_len behind its first get, and the choice of a port, of     *)
(* acq400_load_awg_seg and acq400_load_awg_oneshot.  Neither program gets  *)
(* there as long as the test of that get stands (see LoadAwgSeg), and      *)
(* what it would do once it does is computed here.                         *)
(***************************************************************************)
EXTENDS Integers

-----------------------------------------------------------------------------
(* match_buffer_len                                                         *)

\* A long in an int, blp.
TwoTo31 == 2147483648
Narrowed(x) == ((x + TwoTo31) % (2 * TwoTo31)) - TwoTo31

AwgBufs(nn) == 4 + 2 * nn

\* Bytes in each of the buffers of try nn, and whether that is the try taken:
\* the first one that fits, and within the UUT's awg_seg_bufs.  (A oneshot
\* load has no such limit.)
Share(size, nn) == Narrowed(size \div AwgBufs(nn))
Taken(size, bl, seg_bufs, nn) ==
  /\ \A mm \in 1..(nn - 1) : Share(size, mm) > bl
  /\ Share(size, nn) <= bl /\ AwgBufs(nn) <= seg_bufs

\* dist_bufferlen_play is set to blp, and the file fills so many buffers of the
\* length.
SetsPlayLength(size, bl, seg_bufs, bufs, blp) ==
  \/ size < bl /\ bufs = 1 /\ blp = Narrowed(size)
  \/ bl <= size /\ size <= 4 * bl /\ bufs = 4 /\ blp = Narrowed(size \div 4)
  \/ /\ 4 * bl < size
     /\ \E nn \in 1..511 : /\ Taken(size, bl, seg_bufs, nn)
                           /\ bufs = AwgBufs(nn) /\ blp = Share(size, nn)

-----------------------------------------------------------------------------
(* Ports.                                                                   *)

AWG_STREAM == 54207
AWG_SEG_SEL == 54210

\* get_port of the oneshot load.
AwgPort(mode) ==
  IF mode = "ARP" THEN 54202 ELSE IF mode = "CON" THEN 54205 ELSE 54201

\* AWG_SEG_ARP and AWG_SEG_CON of the letter at index i; assert() takes no other.
SegPort(mode, i) == (IF mode = "ARP" THEN 54212 ELSE 54215) + 10 * i
=============================================================================
