------------------------------ MODULE Unpack24 ------------------------------
(***************************************************************************)
(* unpack24.h: one scan of 24 bit samples becomes one scan of 32 bit       *)
(* words.  A scan is a sequence of bytes, nchan samples of three and nspad *)
(* words of four.  A word is the sequence of its four bytes, the lowest    *)
(* first.  What is in a byte of the scan does not matter.                  *)
(***************************************************************************)
EXTENDS Integers, Sequences

\* a | b, of two bytes.
Or(a, b) ==
  LET Bit(n, k) == (n \div k) % 2
      Either(k) == IF Bit(a, k) + Bit(b, k) > 0 THEN k ELSE 0
  IN Either(1) + Either(2) + Either(4) + Either(8)
       + Either(16) + Either(32) + Either(64) + Either(128)

\* It fits into the low byte, which is 0 when it is put there, for ic < 224.
ChId_SiteFrom0(ic) == Or(ic, 32 * (ic \div 32))
ChId(ic) == Or(ic, 32 * (ic \div 32 + 1))

\* The longword of the scan at index j.
Word(scan, j) == [k \in 1..4 |-> scan[4 * j + k]]

-----------------------------------------------------------------------------
(* Unpack24b: byte by byte.                                                 *)

SampleB(scan, ic) == <<ChId(ic), scan[3 * ic + 1], scan[3 * ic + 2], scan[3 * ic + 3]>>
SpadB(scan, nchan, i) == [k \in 1..4 |-> scan[3 * nchan + 4 * i + k]]

Bytewise(scan, nchan, nspad) ==
  [o \in 1..(nchan + nspad) |->
     IF o <= nchan THEN SampleB(scan, o - 1) ELSE SpadB(scan, nchan, o - 1 - nchan)]

-----------------------------------------------------------------------------
(* Unpack24lw: three longwords are four samples.                            *)

\* The masks and shifts for op[0] to op[3].
Lane_Shift16(w0, w1, w2, lane) ==
  << <<w0[1], w0[2], w0[3]>>,
     <<w0[4], w1[1], w1[2]>>,
     <<w1[3], w1[4], w2[2]>>,
     <<w2[2], w2[3], w2[4]>> >>[lane + 1]
Lane(w0, w1, w2, lane) ==
  << <<w0[1], w0[2], w0[3]>>,
     <<w0[4], w1[1], w1[2]>>,
     <<w1[3], w1[4], w2[1]>>,
     <<w2[2], w2[3], w2[4]>> >>[lane + 1]

SampleLw(scan, ic) ==
  LET iw == 3 * (ic \div 4)
      op == Lane(Word(scan, iw), Word(scan, iw + 1), Word(scan, iw + 2), ic % 4)
  IN <<ChId(ic), op[1], op[2], op[3]>>
SpadLw(scan, nchan, i) == Word(scan, ((nchan * 3) \div 4) + i)

\* For an nchan that is a multiple of 4: create asks it for no other.
Wordwise(scan, nchan, nspad) ==
  [o \in 1..(nchan + nspad) |->
     IF o <= nchan THEN SampleLw(scan, o - 1) ELSE SpadLw(scan, nchan, o - 1 - nchan)]

-----------------------------------------------------------------------------

\* create: the unpacker for nchan channels.
TakesWords(nchan) == nchan % 4 = 0

Unpacked(scan, nchan, nspad) ==
  IF TakesWords(nchan) THEN Wordwise(scan, nchan, nspad)
                       ELSE Bytewise(scan, nchan, nspad)
=============================================================================
