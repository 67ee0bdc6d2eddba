--------------------------- MODULE MCMultistream ---------------------------
(* Two UUTs in two pairs, and one by itself, of eleven kinds.  They answer   *)
(* all, or not more than that they pack, or to some get nothing at all.      *)
(* SpadFrame4 is that of acq400_spad_frame_decoder.cpp with 4 channels, not  *)
(* 32; Site0 has its number only at site 0, which counts the SPAD word too;  *)
(* Mute does not answer that it packs.  The user gives the layout of these,  *)
(* or leaves it to the program.  A read is two elements or scans.  The       *)
(* limits are none, one in whole words and one that is not, in the second    *)
(* buffer of an unpacker; MaxReads lets the smallest elements get to them.   *)
(* A short fwrite takes nothing or a part, and others follow it.             *)
EXTENDS Multistream, TLC

CONSTANTS u1, u2

Kind(says, nchan, nspad) ==
  [says |-> says, sends |-> [nchan |-> nchan, nspad |-> nspad, packs |-> FALSE]]

Long32 == ("data32" :> 1)
Packs  == Long32 @@ ("pack24" :> 0)

Short     == Kind("data32" :> 0, 32, 1)          \* and it cannot pack
Long      == Kind(Long32, 32, 1)
Words4    == Kind(Packs @@ "NCHAN.1" :> 4 @@ "NCHAN.0" :> 5 @@ "spad" :> 1, 4, 1)
Bytes1    == Kind(Packs @@ "NCHAN.1" :> 1, 1, 1)
Bytes3    == Kind(Packs @@ "NCHAN.0" :> 3 @@ "spad" :> Empty, 3, 0)
SpadFrame4 == Kind(Packs @@ "NCHAN.1" :> 4 @@ "NCHAN.0" :> 5 @@ "spad" :> 2, 4, 1)
Site0     == Kind(Packs @@ "NCHAN.1" :> Empty @@ "NCHAN.0" :> 5 @@ "spad" :> 1, 4, 1)
Words32   == Kind(Packs, 32, 1)
Mute      == Kind(Long32 @@ "pack24" :> Empty, 4, 1)
Silent    == Kind("data32" :> Empty, 32, 1)
NoData32  == Kind("NCHAN.1" :> 4, 4, 1)

MCFleets ==
  { u1 :> f[1] @@ u2 :> f[2] :
      f \in {<<Long, Bytes1>>, <<Words4, NoData32>>} }
  \cup { u1 :> k : k \in {Short, Words4, Bytes1, Bytes3, SpadFrame4, Site0, Words32, Mute,
                         Silent, NoData32} }

MCLayouts == {[nchan |-> 0, nspad |-> -1], [nchan |-> 4, nspad |-> 1]}
=============================================================================
