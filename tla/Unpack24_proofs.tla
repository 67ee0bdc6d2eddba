-------------------------- MODULE Unpack24_proofs --------------------------
(* The two unpackers of unpack24.h compute the same words.                  *)
EXTENDS Unpack24, TLAPS

\* The first byte of sample ic, counted in words: four samples are three words.
LEMMA SampleAt ==
  ASSUME NEW ic \in Nat
  PROVE  /\ ic % 4 \in 0..3
         /\ 3 * ic = 4 * (3 * (ic \div 4)) + 3 * (ic % 4)
  <1>1. ic = 4 * (ic \div 4) + (ic % 4) /\ ic % 4 \in 0..3 /\ ic \div 4 \in Nat
    OBVIOUS
  <1> QED BY <1>1

\* Byte k of a longword.
LEMMA WordByte ==
  ASSUME NEW j \in Nat, NEW scan
  PROVE  \A k \in 1..4 : Word(scan, j)[k] = scan[4 * j + k]
  BY DEF Word

\* Masks and shifts in each of the four lanes pick the bytes of the sample.
LEMMA SamplesAgree ==
  ASSUME NEW ic \in Nat, NEW scan
  PROVE  SampleLw(scan, ic) = SampleB(scan, ic)
  <1> DEFINE iw == 3 * (ic \div 4)
             op == Lane(Word(scan, iw), Word(scan, iw + 1), Word(scan, iw + 2), ic % 4)
  <1>1. iw \in Nat /\ ic % 4 \in 0..3 /\ 3 * ic = 4 * iw + 3 * (ic % 4)
    BY SampleAt
  <1> HIDE DEF iw
  <1>2. op[1] = scan[3 * ic + 1] /\ op[2] = scan[3 * ic + 2] /\ op[3] = scan[3 * ic + 3]
    <2>0. /\ \A k \in 1..4 : Word(scan, iw)[k] = scan[4 * iw + k]
          /\ \A k \in 1..4 : Word(scan, iw + 1)[k] = scan[4 * (iw + 1) + k]
          /\ \A k \in 1..4 : Word(scan, iw + 2)[k] = scan[4 * (iw + 2) + k]
      <3>1. iw \in Nat /\ iw + 1 \in Nat /\ iw + 2 \in Nat
        BY <1>1
      <3>2. \A k \in 1..4 : Word(scan, iw)[k] = scan[4 * iw + k]
        BY <3>1, WordByte, Zenon
      <3>3. \A k \in 1..4 : Word(scan, iw + 1)[k] = scan[4 * (iw + 1) + k]
        BY <3>1, WordByte, Zenon
      <3>4. \A k \in 1..4 : Word(scan, iw + 2)[k] = scan[4 * (iw + 2) + k]
        BY <3>1, WordByte, Zenon
      <3> QED BY <3>2, <3>3, <3>4
    <2>1. CASE ic % 4 = 0
      <3>1. /\ 3 * ic + 1 = 4 * iw + 1
            /\ 3 * ic + 2 = 4 * iw + 2
            /\ 3 * ic + 3 = 4 * iw + 3
        BY <1>1, <2>1
      <3>2. /\ op[1] = Word(scan, iw)[1]
            /\ op[2] = Word(scan, iw)[2]
            /\ op[3] = Word(scan, iw)[3]
        BY <2>1 DEF Lane
      <3> QED BY <1>1, <2>0, <3>1, <3>2
    <2>2. CASE ic % 4 = 1
      <3>1. /\ 3 * ic + 1 = 4 * iw + 4
            /\ 3 * ic + 2 = 4 * (iw + 1) + 1
            /\ 3 * ic + 3 = 4 * (iw + 1) + 2
        BY <1>1, <2>2
      <3>2. /\ op[1] = Word(scan, iw)[4]
            /\ op[2] = Word(scan, iw + 1)[1]
            /\ op[3] = Word(scan, iw + 1)[2]
        BY <2>2 DEF Lane
      <3> QED BY <1>1, <2>0, <3>1, <3>2
    <2>3. CASE ic % 4 = 2
      <3>1. /\ 3 * ic + 1 = 4 * (iw + 1) + 3
            /\ 3 * ic + 2 = 4 * (iw + 1) + 4
            /\ 3 * ic + 3 = 4 * (iw + 2) + 1
        BY <1>1, <2>3
      <3>2. /\ op[1] = Word(scan, iw + 1)[3]
            /\ op[2] = Word(scan, iw + 1)[4]
            /\ op[3] = Word(scan, iw + 2)[1]
        BY <2>3 DEF Lane
      <3> QED BY <1>1, <2>0, <3>1, <3>2
    <2>4. CASE ic % 4 = 3
      <3>1. /\ 3 * ic + 1 = 4 * (iw + 2) + 2
            /\ 3 * ic + 2 = 4 * (iw + 2) + 3
            /\ 3 * ic + 3 = 4 * (iw + 2) + 4
        BY <1>1, <2>4
      <3>2. /\ op[1] = Word(scan, iw + 2)[2]
            /\ op[2] = Word(scan, iw + 2)[3]
            /\ op[3] = Word(scan, iw + 2)[4]
        BY <2>4 DEF Lane
      <3> QED BY <1>1, <2>0, <3>1, <3>2
    <2> QED BY <1>1, <2>1, <2>2, <2>3, <2>4
  <1> QED BY <1>2 DEF SampleLw, SampleB, iw

\* The SPAD words follow the samples, at a whole number of words.
LEMMA SpadsAgree ==
  ASSUME NEW nchan \in Nat, nchan % 4 = 0, NEW i \in Nat, NEW scan
  PROVE  SpadLw(scan, nchan, i) = SpadB(scan, nchan, i)
  <1>1. 4 * ((nchan * 3) \div 4) = 3 * nchan
    OBVIOUS
  <1>2. \A k \in 1..4 : 4 * (((nchan * 3) \div 4) + i) + k = 3 * nchan + 4 * i + k
    BY <1>1
  <1> QED BY <1>2 DEF SpadLw, SpadB, Word

\* For every number of channels that create gives to the word-wise unpacker it
\* computes, from the same scan, what the byte-wise one does (unpack24.h:57-150).
THEOREM UnpackersAgree ==
  ASSUME NEW nchan \in Nat, NEW nspad \in Nat, NEW scan, TakesWords(nchan)
  PROVE  Wordwise(scan, nchan, nspad) = Bytewise(scan, nchan, nspad)
  <1>1. nchan % 4 = 0
    BY DEF TakesWords
  <1>2. ASSUME NEW o \in 1..(nchan + nspad)
        PROVE  (IF o <= nchan THEN SampleLw(scan, o - 1) ELSE SpadLw(scan, nchan, o - 1 - nchan))
             = (IF o <= nchan THEN SampleB(scan, o - 1) ELSE SpadB(scan, nchan, o - 1 - nchan))
    <2>1. CASE o <= nchan
      <3>1. o - 1 \in Nat
        OBVIOUS
      <3> QED BY <2>1, <3>1, SamplesAgree
    <2>2. CASE ~(o <= nchan)
      <3>1. o - 1 - nchan \in Nat
        BY <2>2
      <3> QED BY <2>2, <3>1, <1>1, SpadsAgree
    <2> QED BY <2>1, <2>2
  <1> QED BY <1>2 DEF Wordwise, Bytewise

\* So what is written does not depend on the unpacker that create chose.
COROLLARY UnpackedIsBytewise ==
  ASSUME NEW nchan \in Nat, NEW nspad \in Nat, NEW scan
  PROVE  Unpacked(scan, nchan, nspad) = Bytewise(scan, nchan, nspad)
  BY UnpackersAgree DEF Unpacked
=============================================================================
