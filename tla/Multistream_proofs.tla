------------------------- MODULE Multistream_proofs -------------------------
(***************************************************************************)
(* The files of a capture, for all UUTs, limits, buffers and reads and for *)
(* whatever fwrite makes of them: each is the beginning of what its UUT    *)
(* has sent, within the limit, and not shorter than that without a reason. *)
(***************************************************************************)
EXTENDS Multistream, Unpack24_proofs, SequenceTheorems

-----------------------------------------------------------------------------
(* The inductive invariant, thread by thread.                               *)

Early == {"fopen", "connect", "wait_for_ready", "pack24", "trg", "data32"}

\* A setting keeps the kind of value the UUT came with.
KnobInv ==
  \A u \in Targets : \A key \in DOMAIN knob[u] :
    /\ knob[u][key] \in Nat \union {Empty}
    /\ key \in {"NCHAN.0", "NCHAN.1"} => knob[u][key] <= 224

\* The streamer is chosen after the last setting, and fits the settings.
ConvInv(u) ==
  /\ pc[u] \in Early => conv[u].type = "none"
  /\ pc[u] \in {"stream_open", "stream"} => conv[u].type # "none"
  /\ conv[u].type # "none" =>
       IF Unpacks(u)
       THEN conv[u] = [type |-> "unpack24", nchan |-> Nchan(u), nspad |-> Nspad(u)]
       ELSE conv[u].type \in {"short", "long"}

\* Nothing is read before the stream is open.
FreshInv(u) ==
  pc[u] \in Early \union {"stream_open"} \/ conv[u].type = "none" =>
    nread[u] = 0 /\ nraw[u] = 0 /\ file[u] = <<>>

\* Bytes of the first n of a stream, none of them twice or out of order.
Rising(s, n) ==
  /\ Len(s) <= n
  /\ \A i \in 1..Len(s) : s[i] <= n
  /\ \A i \in 2..Len(s) : s[i - 1] < s[i]

\* The first n bytes of a stream, all of them.
Whole(s, n) == Len(s) = n /\ \A i \in 1..Len(s) : s[i] = i

\* What streamer has read is in the file, in its order, and as long as no fwrite
\* came back short all of it.
BytesInv(u) ==
  conv[u].type \in {"short", "long"} =>
    /\ Rising(file[u], nraw[u])
    /\ nshort[u] = 0 => Whole(file[u], nraw[u])
    /\ maxbytes > 0 =>
         nraw[u] < IF pc[u] = "over" THEN maxbytes + BufLen * SizeIn(conv[u]) ELSE maxbytes

\* Word i of a stream, unpacked byte by byte with the layout of streamer c.
WordAt(c, i) ==
  LET ossw == c.nchan + c.nspad
  IN Bytewise(Bytes(((i - 1) \div ossw) * SizeIn(c), SizeIn(c)), c.nchan, c.nspad)
       [1 + ((i - 1) % ossw)]

\* An unpacker reads whole scans.  It has written the words of each, or there is
\* no room for another word within the limit, or it has ended for a short fwrite.
WordsInv(u) ==
  conv[u].type = "unpack24" =>
    /\ \A i \in 1..Len(file[u]) : file[u][i] = WordAt(conv[u], i)
    /\ maxbytes > 0 => 4 * Len(file[u]) <= maxbytes
    /\ pc[u] # "over" \/ nshort[u] = 0 =>
         \E k \in Nat :
           /\ nraw[u] = k * SizeIn(conv[u])
           /\ \/ Len(file[u]) = k * (conv[u].nchan + conv[u].nspad)
              \/ maxbytes > 0 /\ maxbytes < 4 * Len(file[u]) + 4

StopsInv(u) ==
  pc[u] = "over" /\ nread[u] > 0 =>
    \/ ended[u] \/ nshort[u] > 0
    \/ maxbytes > 0 /\ Len(file[u]) * (IF conv[u].type = "unpack24" THEN 4 ELSE 1) >= maxbytes

ThreadInv(u) == ConvInv(u) /\ FreshInv(u) /\ BytesInv(u) /\ WordsInv(u) /\ StopsInv(u)

IInv == TypeOK /\ KnobInv /\ \A u \in Targets : ThreadInv(u)

-----------------------------------------------------------------------------
(* Settings and types.                                                      *)

Thread(u) ==
  <<pc[u], why[u], retries[u], conv[u], nread[u], nraw[u], file[u], nshort[u], ended[u]>>

\* Whatever a UUT and the user say, there is a layout, and its ids fit into a byte.
LEMMA Settings ==
  ASSUME NEW u \in Targets, KnobInv, layout \in Layouts
  PROVE  Nchan(u) \in 1..224 /\ Nspad(u) \in Nat
  <1>1. \A key : Has(u, key) => knob[u][key] \in Nat \union {Empty}
    BY Zenon DEF Has, KnobInv
  <1>2. \A key \in {"NCHAN.0", "NCHAN.1"} : Has(u, key) => knob[u][key] <= 224
    BY Zenon DEF Has, KnobInv
  <1>3. layout.nchan \in -1..224 /\ layout.nspad \in Int
    BY FleetsAssumption
  <1>4. Nchan(u) \in 1..224
    <2>1. /\ Has(u, "NCHAN.0") =>
               knob[u]["NCHAN.0"] \in Nat \union {-1} /\ knob[u]["NCHAN.0"] <= 224
          /\ Has(u, "NCHAN.1") =>
               knob[u]["NCHAN.1"] \in Nat \union {-1} /\ knob[u]["NCHAN.1"] <= 224
      BY <1>1, <1>2 DEF Empty
    <2> QED BY <1>3, <2>1 DEF Nchan
  <1>5. Nspad(u) \in Nat
    <2>1. Has(u, "spad") => knob[u]["spad"] \in Nat \union {-1}
      BY <1>1 DEF Empty
    <2> QED BY <1>3, <2>1 DEF Nspad
  <1> QED BY <1>4, <1>5

\* The streamer for a setting is one of the three, and fits the settings.
LEMMA StreamerType ==
  ASSUME NEW u \in Targets, KnobInv, layout \in Layouts, NEW d
  PROVE  /\ Streamer(u, d) \in Converters
         /\ IF Unpacks(u)
            THEN Streamer(u, d) = [type |-> "unpack24", nchan |-> Nchan(u), nspad |-> Nspad(u)]
            ELSE Streamer(u, d).type \in {"short", "long"}
  <1>1. CASE Unpacks(u)
    BY <1>1, Settings DEF Streamer, Converters
  <1>2. CASE ~Unpacks(u)
    BY <1>2 DEF Streamer, Converters
  <1> QED BY <1>1, <1>2

\* Sizes of what a streamer takes at a time.
LEMMA Sizes ==
  ASSUME NEW c \in Converters, c.type # "none"
  PROVE  /\ SizeIn(c) \in Nat \ {0}
         /\ c.type = "unpack24" =>
              /\ c.nchan \in 1..224 /\ c.nspad \in Nat
              /\ SizeIn(c) = 3 * c.nchan + 4 * c.nspad
  <1>1. \/ c.type = "short" \/ c.type = "long"
        \/ c.type = "unpack24" /\ c.nchan \in 1..224 /\ c.nspad \in Nat
    BY DEF Converters
  <1> QED BY <1>1 DEF SizeIn

-----------------------------------------------------------------------------
(* Positions in scans.                                                      *)

\* A quotient and its remainder.
LEMMA Quotient ==
  ASSUME NEW a \in Nat, NEW d \in Nat \ {0}
  PROVE  a \div d \in Nat /\ a % d \in 0..(d - 1) /\ a = d * (a \div d) + (a % d)
  <1>1. a = d * (a \div d) + (a % d) /\ a % d \in 0..(d - 1) /\ a \div d \in Int
    OBVIOUS
  <1> QED BY <1>1

\* There is only one quotient.
LEMMA OneQuotient ==
  ASSUME NEW d \in Nat \ {0}, NEW k \in Nat, NEW m \in Nat,
         NEW r \in 0..(d - 1), NEW s \in 0..(d - 1), d * k + r = d * m + s
  PROVE  k = m /\ r = s
  <1>1. ASSUME NEW i \in Nat, NEW j \in Nat, i < j
        PROVE  d * i + d <= d * j
    <2>1. j - i - 1 \in Nat /\ j = i + 1 + (j - i - 1)
      BY <1>1
    <2>2. d * j = d * i + d + d * (j - i - 1)
      BY <2>1
    <2>3. d * (j - i - 1) \in Nat
      BY <2>1
    <2> QED BY <2>2, <2>3
  <1>2. d * k \in Int /\ d * m \in Int
    OBVIOUS
  <1>3. ~(k < m)
    <2> SUFFICES ASSUME k < m PROVE FALSE
      OBVIOUS
    <2>1. d * k + d <= d * m
      BY <1>1
    <2> QED BY <1>2, <2>1
  <1>4. ~(m < k)
    <2> SUFFICES ASSUME m < k PROVE FALSE
      OBVIOUS
    <2>1. d * m + d <= d * k
      BY <1>1
    <2> QED BY <1>2, <2>1
  <1>5. k = m
    BY <1>3, <1>4
  <1> QED BY <1>2, <1>5

\* A position in the file, after k whole scans.
LEMMA ScanAndColumn ==
  ASSUME NEW d \in Nat \ {0}, NEW k \in Nat, NEW a \in Nat
  PROVE  (k * d + a) \div d = k + (a \div d) /\ (k * d + a) % d = a % d
  <1>1. k * d + a \in Nat /\ k * d = d * k
    OBVIOUS
  <1>2. /\ a \div d \in Nat /\ a % d \in 0..(d - 1) /\ a = d * (a \div d) + (a % d)
        /\ (k * d + a) \div d \in Nat /\ (k * d + a) % d \in 0..(d - 1)
        /\ k * d + a = d * ((k * d + a) \div d) + ((k * d + a) % d)
    BY <1>1, Quotient
  <1>3. d * (k + (a \div d)) = d * k + d * (a \div d)
    BY <1>2
  <1>4. d * (k + (a \div d)) + (a % d) = d * ((k * d + a) \div d) + ((k * d + a) % d)
    BY <1>1, <1>2, <1>3
  <1> DEFINE p == k + (a \div d)
             q == (k * d + a) \div d
             r == a % d
             s == (k * d + a) % d
  <1>5. /\ p \in Nat /\ q \in Nat /\ r \in 0..(d - 1) /\ s \in 0..(d - 1)
        /\ d * p + r = d * q + s
    BY <1>2, <1>4
  <1> HIDE DEF p, q, r, s
  <1>6. p = q /\ r = s
    BY <1>5, OneQuotient
  <1> QED BY <1>6 DEF p, q, r, s

\* n scans have positions of n scans only.
LEMMA ScanBelow ==
  ASSUME NEW d \in Nat \ {0}, NEW n \in Nat, NEW a \in Nat, a < n * d
  PROVE  a \div d < n
  <1>1. a \div d \in Nat /\ a % d \in 0..(d - 1) /\ a = d * (a \div d) + (a % d)
    BY Quotient
  <1> SUFFICES ASSUME n <= a \div d PROVE n * d <= a
    BY <1>1
  <1>2. PICK j \in Nat : a \div d = n + j
    <2>1. (a \div d) - n \in Nat
      BY <1>1
    <2> QED BY <2>1
  <1>3. d * (a \div d) = n * d + d * j /\ d * j \in Nat
    BY <1>2
  <1> QED BY <1>1, <1>3

-----------------------------------------------------------------------------
(* What the unpackers write.                                                *)

\* An id is a number.
LEMMA ChIdType ==
  ASSUME NEW ic \in Nat
  PROVE  ChId(ic) \in Nat
  <1> DEFINE Half(a, b, k) == IF ((a \div k) % 2) + ((b \div k) % 2) > 0 THEN k ELSE 0
  <1>1. \A a, b : \A k \in Nat : Half(a, b, k) \in Nat
    OBVIOUS
  <1>2. \A a, b : Or(a, b) = Half(a, b, 1) + Half(a, b, 2) + Half(a, b, 4) + Half(a, b, 8)
                       + Half(a, b, 16) + Half(a, b, 32) + Half(a, b, 64) + Half(a, b, 128)
    BY DEF Or
  <1> HIDE DEF Half
  <1>3. \A a, b : Or(a, b) \in Nat
    BY <1>1, <1>2
  <1> QED BY <1>3 DEF ChId

\* A scan of bytes becomes a scan of words.
LEMMA BytewiseType ==
  ASSUME NEW nchan \in Nat, NEW nspad \in Nat, NEW from \in Nat,
         NEW o \in 1..(nchan + nspad)
  PROVE  Bytewise(Bytes(from, 3 * nchan + 4 * nspad), nchan, nspad)[o] \in Seq(Nat)
  <1> DEFINE scan == Bytes(from, 3 * nchan + 4 * nspad)
  <1>1. \A i \in 1..(3 * nchan + 4 * nspad) : scan[i] \in Nat
    BY DEF Bytes
  <1> HIDE DEF scan
  <1>2. CASE o <= nchan
    <2>1. o - 1 \in Nat /\ \A i \in 1..3 : 3 * (o - 1) + i \in 1..(3 * nchan + 4 * nspad)
      BY <1>2
    <2>2. /\ scan[3 * (o - 1) + 1] \in Nat /\ scan[3 * (o - 1) + 2] \in Nat
          /\ scan[3 * (o - 1) + 3] \in Nat /\ ChId(o - 1) \in Nat
      BY <1>1, <2>1, ChIdType
    <2>3. SampleB(scan, o - 1) \in Seq(Nat)
      BY <2>2 DEF SampleB
    <2>4. Bytewise(scan, nchan, nspad)[o] = SampleB(scan, o - 1)
      BY <1>2 DEF Bytewise
    <2> QED BY <2>3, <2>4 DEF scan
  <1>3. CASE ~(o <= nchan)
    <2>1. o - 1 - nchan \in 0..(nspad - 1)
      BY <1>3
    <2>2. \A k \in 1..4 : 3 * nchan + 4 * (o - 1 - nchan) + k \in 1..(3 * nchan + 4 * nspad)
      BY <2>1
    <2>3. SpadB(scan, nchan, o - 1 - nchan) \in [1..4 -> Nat]
      BY <1>1, <2>2 DEF SpadB
    <2>4. SpadB(scan, nchan, o - 1 - nchan) \in Seq(Nat)
      <3>1. PICK m \in Nat : m = 4
        OBVIOUS
      <3>2. SpadB(scan, nchan, o - 1 - nchan) \in [1..m -> Nat]
        BY <2>3, <3>1
      <3> QED BY <3>2
    <2>5. Bytewise(scan, nchan, nspad)[o] = SpadB(scan, nchan, o - 1 - nchan)
      BY <1>3 DEF Bytewise
    <2> QED BY <2>4, <2>5 DEF scan
  <1> QED BY <1>2, <1>3 DEF scan

\* Words are the scans of the stream from there on, byte by byte.
LEMMA WordsOfScans ==
  ASSUME NEW c \in Converters, c.type = "unpack24", NEW from \in Nat, NEW n \in Nat
  PROVE  LET ossw == c.nchan + c.nspad
             size == SizeIn(c)
         IN /\ Words(from, n, c) \in Seq(Seq(Nat))
            /\ Len(Words(from, n, c)) = n * ossw
            /\ \A o \in 1..(n * ossw) :
                 Words(from, n, c)[o] =
                   Bytewise(Bytes(from + ((o - 1) \div ossw) * size, size), c.nchan, c.nspad)
                     [1 + ((o - 1) % ossw)]
  <1> DEFINE ossw == c.nchan + c.nspad
             size == SizeIn(c)
             scan == [s \in 1..n |->
                        Unpacked(Bytes(from + (s - 1) * size, size), c.nchan, c.nspad)]
             word(o) == scan[1 + (o - 1) \div ossw][1 + ((o - 1) % ossw)]
  <1>1. /\ c.nchan \in Nat /\ c.nspad \in Nat /\ ossw \in Nat \ {0}
        /\ size \in Nat /\ size = 3 * c.nchan + 4 * c.nspad
    BY Sizes
  <1>2. Words(from, n, c) = [o \in 1..(n * ossw) |-> word(o)]
    BY DEF Words
  <1> HIDE DEF ossw, size
  <1>3. n * ossw \in Nat
    BY <1>1
  <1>4. ASSUME NEW o \in 1..(n * ossw)
        PROVE  /\ (o - 1) \div ossw \in 0..(n - 1) /\ 1 + ((o - 1) % ossw) \in 1..ossw
    <2>1. o - 1 \in Nat /\ o - 1 < n * ossw
      BY <1>3
    <2>2. (o - 1) \div ossw \in Nat /\ (o - 1) % ossw \in 0..(ossw - 1)
      BY <1>1, <2>1, Quotient
    <2>3. (o - 1) \div ossw < n
      BY <1>1, <2>1, ScanBelow
    <2> QED BY <1>1, <2>2, <2>3
  <1>5. ASSUME NEW o \in 1..(n * ossw)
        PROVE  word(o) = Bytewise(Bytes(from + ((o - 1) \div ossw) * size, size),
                                  c.nchan, c.nspad)[1 + ((o - 1) % ossw)]
    <2>1. 1 + (o - 1) \div ossw \in 1..n /\ (1 + (o - 1) \div ossw) - 1 = (o - 1) \div ossw
      BY <1>4
    <2>2. scan[1 + (o - 1) \div ossw] =
            Unpacked(Bytes(from + ((o - 1) \div ossw) * size, size), c.nchan, c.nspad)
      BY <2>1
    <2>3. Unpacked(Bytes(from + ((o - 1) \div ossw) * size, size), c.nchan, c.nspad) =
            Bytewise(Bytes(from + ((o - 1) \div ossw) * size, size), c.nchan, c.nspad)
      BY <1>1, UnpackedIsBytewise
    <2> QED BY <2>2, <2>3
  <1>6. ASSUME NEW o \in 1..(n * ossw)
        PROVE  word(o) \in Seq(Nat)
    <2>1. from + ((o - 1) \div ossw) * size \in Nat
      BY <1>1, <1>4
    <2>2. 1 + ((o - 1) % ossw) \in 1..(c.nchan + c.nspad)
      BY <1>4 DEF ossw
    <2>3. Bytewise(Bytes(from + ((o - 1) \div ossw) * size, 3 * c.nchan + 4 * c.nspad),
                   c.nchan, c.nspad)[1 + ((o - 1) % ossw)] \in Seq(Nat)
      BY <1>1, <2>1, <2>2, BytewiseType
    <2> QED BY <1>1, <1>5, <2>3
  <1> HIDE DEF word
  <1>7. Words(from, n, c) \in Seq(Seq(Nat)) /\ Len(Words(from, n, c)) = n * ossw
    BY <1>2, <1>3, <1>6
  <1>8. \A o \in 1..(n * ossw) : Words(from, n, c)[o] = word(o)
    BY <1>2
  <1> QED BY <1>5, <1>7, <1>8 DEF ossw, size

-----------------------------------------------------------------------------
(* Types.                                                                   *)

Stages == {"fopen", "connect", "wait_for_ready", "pack24", "trg", "data32", "stream_open",
           "stream", "over"}
Reasons == {"running", "no file", "no data32", "eof", "fwrite", "limit"}

Process ==
  /\ program \in {"multistream", "stream"} /\ status \in {"running", "done", "died"}
  /\ maxbytes \in Limits /\ layout \in Layouts
Progress ==
  /\ pc \in [Targets -> Stages] /\ why \in [Targets -> Reasons]
  /\ retries \in [Targets -> 0..2]
Streams ==
  /\ conv \in [Targets -> Converters]
  /\ nread \in [Targets -> Nat] /\ nraw \in [Targets -> Nat]
Flags == nshort \in [Targets -> Nat] /\ ended \in [Targets -> BOOLEAN]
Output == DOMAIN file = Targets /\ \A u \in Targets : file[u] \in Seq(Items(conv[u]))
Sent == sends \in [Targets -> [nchan : 1..224, nspad : Nat, packs : BOOLEAN]]

\* The type invariant, by kinds of variables: each kind has its proof below.
LEMMA TypeByKind == TypeOK <=> Process /\ Progress /\ Streams /\ Flags /\ Output /\ Sent
  BY Zenon DEF TypeOK, Process, Progress, Streams, Flags, Output, Sent, Stages, Reasons

\* Only SetPack24 does anything to a UUT.
LEMMA DeviceStays ==
  ASSUME [Next]_vars, ~\E u \in Targets : SetPack24(u)
  PROVE  UNCHANGED device
  BY Zenon
  DEF Next, Worker, OpenFile, Connect, Ready, NotFound, LooksOld, SetTriggerMode,
      ChooseStreamer, StreamOpen, Fatal, Stream, StreamEnds, Copy, Unpack, Fread, Dies, Join, vars

\* It sets pack24, if the UUT has it and tells of it, and makes it pack or not.
LEMMA DeviceSet ==
  ASSUME NEW u \in Targets, SetPack24(u)
  PROVE  /\ knob' = knob \/ (Has(u, "pack24") /\ knob' = [knob EXCEPT ![u]["pack24"] = Pack24])
         /\ sends' = sends \/ sends' = [sends EXCEPT ![u].packs = (Pack24 # 0)]
  <1>1. CASE Has(u, "pack24")
    BY <1>1 DEF SetPack24
  <1>2. CASE ~Has(u, "pack24")
    BY <1>2 DEF SetPack24, device
  <1> QED BY <1>1, <1>2

\* The settings of the process and its targets stay.
LEMMA ProcessStep ==
  ASSUME Process, [Next]_vars
  PROVE  Process' /\ Targets' = Targets
  <1>1. UNCHANGED setting /\ status' \in {status, "done", "died"}
    BY Zenon
    DEF Next, Worker, OpenFile, Connect, Ready, NotFound, LooksOld, SetPack24, SetTriggerMode,
        ChooseStreamer, StreamOpen, Fatal, Stream, StreamEnds, Copy, Unpack, Fread, Dies, Join,
        process, vars
  <1>2. CASE \E u \in Targets : SetPack24(u)
    BY <1>1, <1>2, DeviceSet DEF Process, Targets, setting
  <1>3. CASE ~\E u \in Targets : SetPack24(u)
    <2>1. knob' = knob
      BY <1>3, DeviceStays DEF device
    <2> QED BY <1>1, <2>1 DEF Process, Targets, setting
  <1> QED BY <1>2, <1>3

\* What a UUT sends keeps its type.
LEMMA SentStep ==
  ASSUME Sent, Targets' = Targets, [Next]_vars
  PROVE  Sent'
  <1>1. CASE \E u \in Targets : SetPack24(u)
    <2>1. PICK b \in BOOLEAN : b = (Pack24 # 0)
      BY Zenon
    <2>2. \/ sends' = sends
          \/ \E u \in Targets : sends' = [sends EXCEPT ![u].packs = b]
      BY <1>1, <2>1, DeviceSet, Zenon
    <2>3. ASSUME NEW u \in Targets, sends' = [sends EXCEPT ![u].packs = b] PROVE Sent'
      BY <2>3 DEF Sent
    <2> QED BY <2>2, <2>3 DEF Sent
  <1>2. CASE ~\E u \in Targets : SetPack24(u)
    BY <1>2, DeviceStays DEF Sent, device
  <1> QED BY <1>1, <1>2

\* Only SetPack24 changes a setting, and only pack24.
LEMMA KnobStep ==
  ASSUME KnobInv, [Next]_vars
  PROVE  /\ KnobInv'
         /\ \A u \in Targets : \A key : Has(u, key)' = Has(u, key)
         /\ \A u \in Targets : pc[u] # "pack24" => knob'[u] = knob[u]
  <1>1. CASE \E u \in Targets : SetPack24(u)
    <2>1. PICK u \in Targets : SetPack24(u)
      BY <1>1
    <2>2. knob' = knob \/ (Has(u, "pack24") /\ knob' = [knob EXCEPT ![u]["pack24"] = Pack24])
      BY <2>1, DeviceSet
    <2>3. CASE Has(u, "pack24") /\ knob' = [knob EXCEPT ![u]["pack24"] = Pack24]
      <3>1. DOMAIN knob' = DOMAIN knob /\ \A v \in Targets : DOMAIN knob'[v] = DOMAIN knob[v]
        BY <2>3 DEF Targets
      <3>2. \A v \in Targets : \A key \in DOMAIN knob[v] :
              knob'[v][key] = knob[v][key] \/ (key = "pack24" /\ knob'[v][key] = Pack24)
        BY <2>3 DEF Targets
      <3>3. Pack24 \in Nat
        BY MultistreamAssumption
      <3>4. KnobInv'
        BY <3>1, <3>2, <3>3 DEF KnobInv, Targets
      <3>5. \A v \in Targets : v # u => knob'[v] = knob[v]
        BY <2>3 DEF Targets
      <3>6. pc[u] = "pack24"
        BY <2>1 DEF SetPack24, At
      <3> QED BY <3>1, <3>4, <3>5, <3>6 DEF Has
    <2>4. CASE knob' = knob
      BY <2>4 DEF KnobInv, Has, Targets
    <2> QED BY <2>2, <2>3, <2>4
  <1>2. CASE ~\E u \in Targets : SetPack24(u)
    <2>1. knob' = knob
      BY <1>2, DeviceStays DEF device
    <2> QED BY <2>1 DEF KnobInv, Has, Targets
  <1> QED BY <1>1, <1>2

\* The third "not found" is not counted: it ends the process.
LEMMA CountStays == \A n \in 0..2 : ~GivesUp(n + 1) => n + 1 \in 0..2
  BY DEF GivesUp

\* Where a thread is, and why it ended.
LEMMA ProgressStep ==
  ASSUME Progress, [Next]_vars
  PROVE  Progress'
  <1> USE DEF Progress, Stages, Reasons, Targets, At, Goto, Over, output, device
  <1>1. ASSUME NEW u \in Targets, Worker(u) PROVE Progress'
    <2>1. CASE OpenFile(u) \/ Connect(u) \/ Ready(u) \/ SetTriggerMode(u) \/ StreamOpen(u)
      BY <2>1 DEF OpenFile, Connect, Ready, SetTriggerMode, StreamOpen
    <2>2. CASE NotFound(u)
      <3>1. retries[u] \in 0..2
        BY <1>1
      <3>2. retries[u] + 1 \in 0..2
        BY <2>2, <3>1, CountStays, Zenon DEF NotFound
      <3> QED BY <2>2, <3>2 DEF NotFound
    <2>3. CASE LooksOld(u) \/ Fatal(u)
      BY <2>3 DEF LooksOld, Fatal, Dies, thread
    <2>4. CASE SetPack24(u)
      <3>1. Targets' = Targets
        BY <2>4, DeviceSet
      <3> QED BY <2>4, <3>1 DEF SetPack24
    <2>5. CASE ChooseStreamer(u)
      BY <2>5 DEF ChooseStreamer
    <2>6. CASE Stream(u)
      <3>1. /\ retries' = retries /\ knob' = knob
            /\ \/ Over(u, "eof") \/ Over(u, "limit") \/ Over(u, "fwrite")
               \/ UNCHANGED <<pc, why>>
        BY <2>6, Zenon DEF Stream, StreamEnds, Copy, Unpack, Fread
      <3> QED BY <3>1
    <2> QED BY <1>1, <2>1, <2>2, <2>3, <2>4, <2>5, <2>6 DEF Worker
  <1>2. CASE Join \/ UNCHANGED vars
    BY <1>2 DEF Join, vars, thread
  <1> QED BY <1>1, <1>2 DEF Next

-----------------------------------------------------------------------------
(* A step is the step of one thread.                                        *)

\* The step of one thread leaves the others alone.
LEMMA OtherThreads ==
  ASSUME TypeOK, NEW v \in Targets, Worker(v)
  PROVE  /\ UNCHANGED <<program, maxbytes, layout>>
         /\ \A u \in Targets : u # v => Thread(u)' = Thread(u) /\ knob'[u] = knob[u]
  <1> USE DEF Targets, At, Goto, Over, output, process, setting, device, Thread
  <1>0. /\ pc \in [Targets -> Stages] /\ why \in [Targets -> Reasons]
        /\ retries \in [Targets -> 0..2] /\ conv \in [Targets -> Converters]
        /\ nread \in [Targets -> Nat] /\ nraw \in [Targets -> Nat]
        /\ ended \in [Targets -> BOOLEAN] /\ nshort \in [Targets -> Nat]
        /\ DOMAIN file = Targets
    BY Zenon DEF TypeOK, Stages, Reasons
  <1>1. CASE OpenFile(v) \/ Connect(v) \/ Ready(v) \/ SetTriggerMode(v) \/ StreamOpen(v)
    BY <1>0, <1>1 DEF OpenFile, Connect, Ready, SetTriggerMode, StreamOpen
  <1>2. CASE NotFound(v)
    BY <1>0, <1>2 DEF NotFound
  <1>3. CASE LooksOld(v) \/ Fatal(v)
    BY <1>3 DEF LooksOld, Fatal, Dies, thread
  <1>4. CASE SetPack24(v)
    BY <1>0, <1>4, DeviceSet DEF SetPack24
  <1>5. CASE ChooseStreamer(v)
    BY <1>0, <1>5 DEF ChooseStreamer
  <1>6. CASE Stream(v)
    <2>1. /\ UNCHANGED <<program, maxbytes, layout, retries, conv, knob>>
          /\ nread' = [nread EXCEPT ![v] = nread'[v]] /\ nraw' = [nraw EXCEPT ![v] = nraw'[v]]
          /\ ended' = [ended EXCEPT ![v] = ended'[v]]
      BY <1>0, <1>6 DEF Stream, StreamEnds, Copy, Unpack, Fread
    <2>2. /\ pc' = pc \/ pc' = [pc EXCEPT ![v] = "over"]
          /\ why' = why \/ \E r : why' = [why EXCEPT ![v] = r]
          /\ file' = file \/ \E f : file' = [file EXCEPT ![v] = f]
          /\ nshort' = nshort \/ \E k : nshort' = [nshort EXCEPT ![v] = k]
      BY <1>6, Zenon DEF Stream, StreamEnds, Copy, Unpack, FwriteAll, FwriteShort
    <2> QED BY <1>0, <2>1, <2>2
  <1> QED BY <1>1, <1>2, <1>3, <1>4, <1>5, <1>6 DEF Worker

\* The reads of a thread: at most a buffer of elements, in whole ones.
LEMMA FreadStep ==
  ASSUME Streams, Flags, NEW v \in Targets, NEW n \in Nat, Fread(v, n), conv[v].type # "none"
  PROVE  /\ nread' = [nread EXCEPT ![v] = nread[v] + 1] /\ nread[v] + 1 \in Nat
         /\ nraw' = [nraw EXCEPT ![v] = nraw[v] + n * SizeIn(conv[v])]
         /\ nraw[v] + n * SizeIn(conv[v]) \in Nat /\ nraw[v] \in Nat
         /\ n * SizeIn(conv[v]) \in Nat
         /\ ended' = [ended EXCEPT ![v] = n < BufLen]
         /\ UNCHANGED <<conv, knob, retries, program, maxbytes, layout, status>>
         /\ At(v, "stream")
         /\ nread'[v] > 0 /\ nraw'[v] = nraw[v] + n * SizeIn(conv[v])
  <1>1. conv[v] \in Converters /\ nread[v] \in Nat /\ nraw[v] \in Nat
    BY DEF Streams
  <1>2. SizeIn(conv[v]) \in Nat
    BY <1>1, Sizes
  <1>3. n * SizeIn(conv[v]) \in Nat
    BY <1>2
  <1>4. /\ nread' = [nread EXCEPT ![v] = nread[v] + 1]
        /\ nraw' = [nraw EXCEPT ![v] = nraw[v] + n * SizeIn(conv[v])]
        /\ ended' = [ended EXCEPT ![v] = n < BufLen]
        /\ UNCHANGED <<conv, knob, retries, program, maxbytes, layout, status>>
        /\ At(v, "stream")
    BY DEF Fread, process, setting, device
  <1> QED BY <1>1, <1>3, <1>4 DEF Streams

\* A fwrite is counted when it comes back short, and not before.
LEMMA WriteCounts ==
  ASSUME Flags, NEW v \in Targets, Stream(v)
  PROVE  nshort' \in [Targets -> Nat] /\ nshort'[v] >= nshort[v]
  <1>1. nshort' = nshort \/ nshort' = [nshort EXCEPT ![v] = @ + 1]
    BY Zenon DEF Stream, StreamEnds, Copy, Unpack, FwriteAll, FwriteShort
  <1> QED BY <1>1 DEF Flags

\* Streamers and counts of a thread, and the flags.
LEMMA StreamsStep ==
  ASSUME Process, Streams, Flags, KnobInv, \A u \in Targets : ConvInv(u), Targets' = Targets,
         [Next]_vars
  PROVE  Streams' /\ Flags'
  <1>1. CASE \E u \in Targets : ChooseStreamer(u)
    <2>1. PICK u \in Targets : ChooseStreamer(u)
      BY <1>1
    <2>2. conv' = conv \/ \E d : conv' = [conv EXCEPT ![u] = Streamer(u, d)]
      BY <2>1, Zenon DEF ChooseStreamer
    <2>3. conv' \in [Targets -> Converters]
      BY <2>2, StreamerType DEF Streams, Process
    <2>4. UNCHANGED <<nread, nraw, nshort, ended>>
      BY <2>1 DEF ChooseStreamer
    <2> QED BY <2>3, <2>4 DEF Streams, Flags
  <1>2. CASE \E u \in Targets : Stream(u)
    <2>1. PICK u \in Targets : Stream(u)
      BY <1>2
    <2>2. PICK n \in Nat : Fread(u, n)
      <3>1. 0 \in Nat /\ 1..BufLen \subseteq Nat
        BY MultistreamAssumption
      <3> QED BY <2>1, <3>1, Zenon DEF Stream, StreamEnds, Copy, Unpack
    <2>3. conv[u].type # "none"
      BY <2>2, Zenon DEF Fread, At, ConvInv
    <2>4. /\ nread' = [nread EXCEPT ![u] = nread[u] + 1] /\ nread[u] + 1 \in Nat
          /\ nraw' = [nraw EXCEPT ![u] = nraw[u] + n * SizeIn(conv[u])]
          /\ nraw[u] + n * SizeIn(conv[u]) \in Nat
          /\ ended' = [ended EXCEPT ![u] = n < BufLen]
          /\ UNCHANGED conv
      BY <2>2, <2>3, FreadStep
    <2>5. Streams'
      BY <2>4 DEF Streams
    <2> QED BY <2>1, <2>4, <2>5, WriteCounts DEF Flags
  <1>3. CASE ~(\E u \in Targets : ChooseStreamer(u) \/ Stream(u))
    <2>1. UNCHANGED <<conv, nread, nraw, nshort, ended>>
      BY <1>3, Zenon
      DEF Next, Worker, OpenFile, Connect, Ready, NotFound, LooksOld, SetPack24, SetTriggerMode,
          StreamOpen, Fatal, Dies, Join, output, thread, vars
    <2> QED BY <2>1 DEF Streams, Flags
  <1> QED BY <1>1, <1>2, <1>3

-----------------------------------------------------------------------------
(* A thread that is not at work on its stream.                              *)

FileType(u) == file[u] \in Seq(Items(conv[u]))

\* With the same settings the program makes the same choice.
LEMMA SameSettings ==
  ASSUME NEW u, knob'[u] = knob[u], UNCHANGED <<program, layout>>
  PROVE  (Unpacks(u)' <=> Unpacks(u)) /\ Nchan(u)' = Nchan(u) /\ Nspad(u)' = Nspad(u)
  BY DEF Unpacks, Nchan, Nspad, Has

\* What a step leaves alone stays true.
LEMMA Untouched ==
  ASSUME NEW u, ThreadInv(u), FileType(u), Thread(u)' = Thread(u), knob'[u] = knob[u],
         UNCHANGED <<program, maxbytes, layout>>
  PROVE  ThreadInv(u)' /\ FileType(u)'
  <1>1. /\ pc'[u] = pc[u] /\ conv'[u] = conv[u] /\ nread'[u] = nread[u] /\ nraw'[u] = nraw[u]
        /\ file'[u] = file[u] /\ nshort'[u] = nshort[u] /\ ended'[u] = ended[u]
    BY DEF Thread
  <1>2. (Unpacks(u)' <=> Unpacks(u)) /\ Nchan(u)' = Nchan(u) /\ Nspad(u)' = Nspad(u)
    BY SameSettings
  <1>3. ConvInv(u)' /\ FreshInv(u)' /\ FileType(u)'
    BY <1>1, <1>2 DEF ThreadInv, ConvInv, FreshInv, FileType
  <1>4. BytesInv(u)'
    BY <1>1 DEF ThreadInv, BytesInv
  <1>5. WordsInv(u)'
    BY <1>1 DEF ThreadInv, WordsInv
  <1>6. StopsInv(u)'
    <2>1. StopsInv(u)
      BY Zenon DEF ThreadInv
    <2> QED BY <1>1, <2>1 DEF StopsInv
  <1> QED BY <1>3, <1>4, <1>5, <1>6, Zenon DEF ThreadInv

\* A thread without a stream has nothing to keep.
LEMMA NotOpened ==
  ASSUME NEW v, conv'[v].type = "none", nread'[v] = 0, nraw'[v] = 0, file'[v] = <<>>,
         pc'[v] \notin {"stream_open", "stream"}
  PROVE  ThreadInv(v)' /\ FileType(v)'
  <1>1. ConvInv(v)' /\ FreshInv(v)' /\ BytesInv(v)' /\ WordsInv(v)' /\ StopsInv(v)'
    BY DEF ConvInv, FreshInv, BytesInv, WordsInv, StopsInv
  <1>2. FileType(v)'
    BY DEF FileType, Items
  <1> QED BY <1>1, <1>2 DEF ThreadInv

\* The steps up to the choice of the streamer.
LEMMA EarlyStep ==
  ASSUME Progress, Streams, Output, NEW v \in Targets, ThreadInv(v),
         \/ OpenFile(v) \/ Connect(v) \/ Ready(v) \/ NotFound(v) \/ SetPack24(v)
         \/ SetTriggerMode(v)
  PROVE  DOMAIN file' = Targets /\ ThreadInv(v)' /\ FileType(v)'
  <1>1. pc[v] \in Early /\ pc'[v] \in Early \union {"over"} /\ UNCHANGED output
    BY DEF OpenFile, Connect, Ready, NotFound, SetPack24, SetTriggerMode, At, Goto, Over, Early,
           Progress
  <1>2. conv[v].type = "none" /\ nread[v] = 0 /\ nraw[v] = 0 /\ file[v] = <<>>
    BY <1>1 DEF ThreadInv, ConvInv, FreshInv
  <1>3. UNCHANGED <<conv, nread, nraw, file>>
    BY <1>1 DEF output
  <1>4. pc'[v] \notin {"stream_open", "stream"}
    BY <1>1 DEF Early
  <1> QED BY <1>2, <1>3, <1>4, NotOpened DEF Output

\* The choice of a streamer fits the settings it is made by.
LEMMA ChooseStep ==
  ASSUME Progress, Streams, Output, KnobInv, NEW v \in Targets, ThreadInv(v), ChooseStreamer(v),
         maxbytes \in Nat, layout \in Layouts
  PROVE  DOMAIN file' = Targets /\ ThreadInv(v)' /\ FileType(v)'
  <1>1. pc[v] = "data32" /\ UNCHANGED <<nread, nraw, file, knob, program, maxbytes, layout>>
    BY DEF ChooseStreamer, At, process, setting, device
  <1>2. nread[v] = 0 /\ nraw[v] = 0 /\ file[v] = <<>> /\ conv[v].type = "none"
    BY <1>1 DEF ThreadInv, FreshInv, ConvInv, Early
  <1>3. CASE Over(v, "no data32") /\ UNCHANGED conv
    <2>1. pc'[v] = "over"
      BY <1>3 DEF Over, Goto, Progress
    <2> QED BY <1>1, <1>2, <1>3, <2>1, NotOpened DEF Output
  <1>4. ASSUME NEW d, conv' = [conv EXCEPT ![v] = Streamer(v, d)], Goto(v, "stream_open")
        PROVE  DOMAIN file' = Targets /\ ThreadInv(v)' /\ FileType(v)'
    <2>1. pc'[v] = "stream_open" /\ conv'[v] = Streamer(v, d)
      BY <1>4 DEF Goto, Progress, Streams
    <2>2. /\ Streamer(v, d) \in Converters
          /\ IF Unpacks(v)
             THEN Streamer(v, d) = [type |-> "unpack24", nchan |-> Nchan(v), nspad |-> Nspad(v)]
             ELSE Streamer(v, d).type \in {"short", "long"}
      BY StreamerType
    <2>3. (Unpacks(v)' <=> Unpacks(v)) /\ Nchan(v)' = Nchan(v) /\ Nspad(v)' = Nspad(v)
      BY <1>1, SameSettings
    <2>4. ConvInv(v)'
      <3>1. Streamer(v, d).type # "none"
        BY <2>2
      <3> QED BY <2>1, <2>2, <2>3, <3>1 DEF ConvInv, Early
    <2>5. FreshInv(v)' /\ BytesInv(v)' /\ StopsInv(v)'
      BY <1>1, <1>2, <2>1 DEF FreshInv, BytesInv, StopsInv, Rising, Whole
    <2>6. WordsInv(v)'
      <3> SUFFICES ASSUME conv'[v].type = "unpack24" PROVE WordsInv(v)'
        BY DEF WordsInv
      <3>1. /\ SizeIn(conv'[v]) \in Nat /\ conv'[v].nchan + conv'[v].nspad \in Nat
        BY <2>1, <2>2, Sizes
      <3>2. nraw'[v] = 0 * SizeIn(conv'[v]) /\ Len(file'[v]) = 0
            /\ 0 = 0 * (conv'[v].nchan + conv'[v].nspad)
        BY <1>1, <1>2, <3>1
      <3>3. \E k \in Nat : /\ nraw'[v] = k * SizeIn(conv'[v])
                           /\ Len(file'[v]) = k * (conv'[v].nchan + conv'[v].nspad)
        BY <3>2
      <3> QED BY <1>1, <1>2, <3>2, <3>3 DEF WordsInv
    <2>7. FileType(v)'
      BY <1>1, <1>2 DEF FileType, Items
    <2> QED BY <1>1, <2>4, <2>5, <2>6, <2>7 DEF ThreadInv, Output
  <1> QED BY <1>3, <1>4, Zenon DEF ChooseStreamer

\* A stream is opened before anything is read or written.
LEMMA OpenStep ==
  ASSUME Progress, Output, NEW v \in Targets, ThreadInv(v), FileType(v), StreamOpen(v)
  PROVE  DOMAIN file' = Targets /\ ThreadInv(v)' /\ FileType(v)'
  <1>1. /\ pc[v] = "stream_open" /\ pc'[v] = "stream"
        /\ UNCHANGED <<conv, nread, nraw, file, nshort, ended, knob, program, maxbytes, layout>>
    BY DEF StreamOpen, At, Goto, Progress, output, process, setting, device
  <1>2. (Unpacks(v)' <=> Unpacks(v)) /\ Nchan(v)' = Nchan(v) /\ Nspad(v)' = Nspad(v)
    BY <1>1, SameSettings
  <1>3. ConvInv(v)' /\ FreshInv(v)' /\ StopsInv(v)' /\ FileType(v)'
    BY <1>1, <1>2 DEF ThreadInv, ConvInv, FreshInv, StopsInv, FileType, Early
  <1>4. BytesInv(v)'
    BY <1>1 DEF ThreadInv, BytesInv
  <1>5. WordsInv(v)'
    BY <1>1 DEF ThreadInv, WordsInv
  <1> QED BY <1>1, <1>3, <1>4, <1>5 DEF ThreadInv, Output

-----------------------------------------------------------------------------
(* A thread at work on its stream.                                          *)

\* What every read has in common.
LEMMA ReadStep ==
  ASSUME Progress, Streams, Flags, NEW v \in Targets, ThreadInv(v), NEW n \in Nat, Fread(v, n)
  PROVE  /\ pc[v] = "stream" /\ conv[v] \in Converters /\ conv[v].type # "none"
         /\ UNCHANGED <<conv, knob, program, maxbytes, layout>>
         /\ nraw[v] \in Nat /\ SizeIn(conv[v]) \in Nat \ {0}
         /\ nraw'[v] = nraw[v] + n * SizeIn(conv[v])
         /\ (ended'[v] <=> n < BufLen)
         /\ (Unpacks(v)' <=> Unpacks(v)) /\ Nchan(v)' = Nchan(v) /\ Nspad(v)' = Nspad(v)
  <1>1. pc[v] = "stream"
    BY DEF Fread, At
  <1>2. conv[v].type # "none"
    BY <1>1 DEF ThreadInv, ConvInv
  <1>3. /\ UNCHANGED <<conv, knob, program, maxbytes, layout>>
        /\ nraw[v] \in Nat /\ nraw'[v] = nraw[v] + n * SizeIn(conv[v])
        /\ ended' = [ended EXCEPT ![v] = n < BufLen]
    BY <1>2, FreadStep
  <1>4. ended'[v] <=> n < BufLen
    BY <1>3 DEF Flags
  <1>5. conv[v] \in Converters /\ SizeIn(conv[v]) \in Nat \ {0}
    BY <1>2, Sizes DEF Streams
  <1>6. (Unpacks(v)' <=> Unpacks(v)) /\ Nchan(v)' = Nchan(v) /\ Nspad(v)' = Nspad(v)
    BY <1>3, SameSettings
  <1> QED BY <1>1, <1>2, <1>3, <1>4, <1>5, <1>6

\* fread returns nothing: the stream has ended.
LEMMA EndStep ==
  ASSUME Progress, Streams, Flags, Output, NEW v \in Targets, ThreadInv(v), FileType(v),
         maxbytes \in Nat, StreamEnds(v)
  PROVE  DOMAIN file' = Targets /\ ThreadInv(v)' /\ FileType(v)'
  <1>1. 0 \in Nat /\ BufLen \in Nat /\ 0 < BufLen
    BY MultistreamAssumption
  <1>2. Fread(v, 0) /\ file' = file /\ nshort' = nshort
    BY DEF StreamEnds
  <1>3. /\ pc[v] = "stream" /\ conv[v] \in Converters /\ conv[v].type # "none"
        /\ UNCHANGED <<conv, knob, program, maxbytes, layout>>
        /\ nraw[v] \in Nat /\ SizeIn(conv[v]) \in Nat \ {0}
        /\ nraw'[v] = nraw[v] + 0 * SizeIn(conv[v])
        /\ (ended'[v] <=> 0 < BufLen)
        /\ (Unpacks(v)' <=> Unpacks(v)) /\ Nchan(v)' = Nchan(v) /\ Nspad(v)' = Nspad(v)
    BY <1>1, <1>2, ReadStep
  <1>4. pc'[v] = "over" /\ nraw'[v] = nraw[v] /\ ended'[v]
    BY <1>1, <1>3 DEF StreamEnds, Over, Goto, Progress
  <1>5. ConvInv(v)' /\ FreshInv(v)' /\ StopsInv(v)' /\ FileType(v)'
    BY <1>2, <1>3, <1>4 DEF ThreadInv, ConvInv, FreshInv, StopsInv, FileType, Early
  <1>6. BytesInv(v)'
    <2>1. BufLen * SizeIn(conv[v]) \in Nat
      BY <1>1, <1>3
    <2>2. maxbytes < maxbytes + BufLen * SizeIn(conv[v]) \/ BufLen * SizeIn(conv[v]) = 0
      BY <2>1
    <2>3. \A k \in Nat : k < maxbytes => k < maxbytes + BufLen * SizeIn(conv[v])
      BY <2>1
    <2> QED BY <1>2, <1>3, <1>4, <2>3 DEF ThreadInv, BytesInv
  <1>7. WordsInv(v)'
    BY <1>2, <1>3, <1>4 DEF ThreadInv, WordsInv
  <1> QED BY <1>2, <1>5, <1>6, <1>7 DEF ThreadInv, Output

\* What goes on as it has begun.
LEMMA Appended ==
  ASSUME NEW S, NEW s \in Seq(S), NEW t \in Seq(S), NEW e,
         \A i \in 1..Len(s) : s[i] = e[i],
         \A j \in 1..Len(t) : t[j] = e[Len(s) + j]
  PROVE  \A i \in 1..Len(s \o t) : (s \o t)[i] = e[i]
  <1>1. Len(s) \in Nat /\ Len(t) \in Nat
    OBVIOUS
  <1>2. /\ s \o t \in Seq(S) /\ Len(s \o t) = Len(s) + Len(t)
        /\ \A i \in 1..(Len(s) + Len(t)) :
             (s \o t)[i] = IF i <= Len(s) THEN s[i] ELSE t[i - Len(s)]
    BY ConcatProperties
  <1>3. ASSUME NEW i \in 1..Len(s \o t) PROVE (s \o t)[i] = e[i]
    <2>1. CASE i <= Len(s)
      BY <1>1, <1>2, <2>1
    <2>2. CASE ~(i <= Len(s))
      <3>1. i - Len(s) \in 1..Len(t) /\ Len(s) + (i - Len(s)) = i
        BY <1>1, <1>2, <2>2
      <3>2. t[i - Len(s)] = e[Len(s) + (i - Len(s))]
        BY <3>1
      <3> QED BY <1>1, <1>2, <2>2, <3>1, <3>2
    <2> QED BY <2>1, <2>2
  <1> QED BY <1>1, <1>2, <1>3

\* The same for a file of the stream's bytes, each its own position.
LEMMA AppendedCount ==
  ASSUME NEW s \in Seq(Nat), NEW t \in Seq(Nat),
         Whole(s, Len(s)),
         \A j \in 1..Len(t) : t[j] = Len(s) + j
  PROVE  Whole(s \o t, Len(s) + Len(t))
  <1>1. Len(s) \in Nat /\ Len(t) \in Nat
    OBVIOUS
  <1>2. /\ s \o t \in Seq(Nat) /\ Len(s \o t) = Len(s) + Len(t)
        /\ \A i \in 1..(Len(s) + Len(t)) :
             (s \o t)[i] = IF i <= Len(s) THEN s[i] ELSE t[i - Len(s)]
    BY ConcatProperties
  <1>3. ASSUME NEW i \in 1..Len(s \o t) PROVE (s \o t)[i] = i
    <2>1. CASE i <= Len(s)
      BY <1>1, <1>2, <2>1 DEF Whole
    <2>2. CASE ~(i <= Len(s))
      <3>1. i - Len(s) \in 1..Len(t) /\ Len(s) + (i - Len(s)) = i
        BY <1>1, <1>2, <2>2
      <3> QED BY <1>1, <1>2, <2>2, <3>1
    <2> QED BY <2>1, <2>2
  <1> QED BY <1>2, <1>3 DEF Whole

\* Some of the next bytes behind those of before: none of them twice or out of order.
LEMMA AppendedRising ==
  ASSUME NEW s \in Seq(Nat), NEW t \in Seq(Nat), NEW n \in Nat, NEW more \in Nat,
         Rising(s, n), Len(t) <= more,
         \A j \in 1..Len(t) : t[j] = n + j
  PROVE  s \o t \in Seq(Nat) /\ Rising(s \o t, n + more)
  <1>1. PICK ls \in Nat, lt \in Nat : ls = Len(s) /\ lt = Len(t)
    BY LenProperties
  <1>2. PICK all : all = s \o t
    OBVIOUS
  <1>3. /\ all \in Seq(Nat) /\ Len(all) = ls + lt
        /\ \A i \in 1..(ls + lt) : all[i] = IF i <= ls THEN s[i] ELSE t[i - ls]
    BY <1>1, <1>2, ConcatProperties
  <1>4. \A i \in 1..ls : all[i] = s[i] /\ s[i] \in Nat /\ s[i] <= n
    BY <1>1, <1>3 DEF Rising
  <1>5. \A j \in 1..lt : all[ls + j] = n + j
    <2> SUFFICES ASSUME NEW j \in 1..lt PROVE all[ls + j] = n + j
      OBVIOUS
    <2>1. ls + j \in 1..(ls + lt) /\ ~(ls + j <= ls) /\ (ls + j) - ls = j
      OBVIOUS
    <2> QED BY <1>1, <1>3, <2>1
  <1>6. \A i \in 1..(ls + lt) : i \in 1..ls \/ \E j \in 1..lt : i = ls + j
    <2> SUFFICES ASSUME NEW i \in 1..(ls + lt), ~(i \in 1..ls) PROVE \E j \in 1..lt : i = ls + j
      OBVIOUS
    <2>1. i - ls \in 1..lt /\ i = ls + (i - ls)
      OBVIOUS
    <2> QED BY <2>1
  <1>7. lt <= more /\ ls <= n
    BY <1>1 DEF Rising
  <1>8. ASSUME NEW i \in 1..Len(all) PROVE all[i] <= n + more
    <2>1. CASE i \in 1..ls
      BY <1>4, <2>1
    <2>2. ASSUME NEW j \in 1..lt, i = ls + j PROVE all[i] <= n + more
      <3>1. all[i] = n + j
        BY <1>5, <2>2
      <3> QED BY <1>7, <3>1
    <2>3. i \in 1..(ls + lt)
      BY <1>3
    <2> QED BY <1>6, <2>1, <2>2, <2>3, Zenon
  <1>9. ASSUME NEW i \in 2..Len(all) PROVE all[i - 1] < all[i]
    <2>0. i \in 1..(ls + lt) /\ i - 1 \in 1..(ls + lt)
      BY <1>3
    <2>1. CASE i \in 1..ls
      <3>1. i \in 2..Len(s) /\ i - 1 \in 1..ls
        BY <1>1, <2>0, <2>1
      <3>2. s[i - 1] < s[i]
        BY <3>1 DEF Rising
      <3> QED BY <1>4, <2>1, <3>1, <3>2
    <2>2. ASSUME NEW j \in 1..lt, i = ls + j PROVE all[i - 1] < all[i]
      <3>1. all[i] = n + j
        BY <1>5, <2>2
      <3>2. CASE j = 1
        <4>1. i - 1 \in 1..ls
          BY <2>0, <2>2, <3>2
        <4> QED BY <1>4, <3>1, <3>2, <4>1
      <3>3. CASE j # 1
        <4>1. j - 1 \in 1..lt /\ i - 1 = ls + (j - 1)
          BY <2>2, <3>3
        <4>2. all[i - 1] = n + (j - 1)
          BY <1>5, <4>1
        <4> QED BY <3>1, <4>2
      <3> QED BY <3>2, <3>3
    <2> QED BY <1>6, <2>0, <2>1, <2>2, Zenon
  <1>10. Len(all) <= n + more
    BY <1>3, <1>7
  <1> QED BY <1>2, <1>3, <1>8, <1>9, <1>10, Zenon DEF Rising

\* The first of a sequence.
LEMMA FirstOf ==
  ASSUME NEW W, NEW words \in Seq(W), NEW t \in 0..Len(words)
  PROVE  /\ SubSeq(words, 1, t) \in Seq(W) /\ Len(SubSeq(words, 1, t)) = t
         /\ \A j \in 1..t : SubSeq(words, 1, t)[j] = words[j]
  <1>1. Len(words) \in Nat /\ t \in Nat /\ t \in Int /\ 1 \in Int
    BY LenProperties
  <1>2. \A j \in 1..t : j \in 1..Len(words)
    BY <1>1
  <1>3. \A j \in 1..t : words[j] \in W
    BY <1>2, ElementOfSeq
  <1>4. PICK f : f = SubSeq(words, 1, t)
    OBVIOUS
  <1>5. /\ f \in Seq(W)
        /\ Len(f) = IF 1 <= t THEN t - 1 + 1 ELSE 0
        /\ \A j \in 1..(t - 1 + 1) : f[j] = words[1 + j - 1]
    BY <1>1, <1>3, <1>4, SubSeqProperties
  <1>6. Len(f) = t
    BY <1>1, <1>5
  <1>7. ASSUME NEW j \in 1..t PROVE f[j] = words[j]
    <2>1. j \in 1..(t - 1 + 1) /\ 1 + j - 1 = j
      BY <1>1
    <2>2. f[j] = words[1 + j - 1]
      BY <1>5, <2>1
    <2> QED BY <2>1, <2>2
  <1> QED BY <1>4, <1>5, <1>6, <1>7, Zenon

\* streamer: the buffer goes into the file, or a part of it.
LEMMA CopyStep ==
  ASSUME Progress, Streams, Flags, Output, NEW v \in Targets, ThreadInv(v), FileType(v),
         maxbytes \in Nat, NEW n \in 1..BufLen, Copy(v, n)
  PROVE  DOMAIN file' = Targets /\ ThreadInv(v)' /\ FileType(v)'
  <1> DEFINE size == SizeIn(conv[v])
             piece == Bytes(nraw[v], n * size)
  <1>1. BufLen \in Nat /\ n \in Nat /\ n > 0 /\ n <= BufLen /\ Shorts \subseteq Nat
    BY MultistreamAssumption
  <1>2. /\ Fread(v, n) /\ conv[v].type \in {"short", "long"}
        /\ FwriteAll(v, piece) \/ FwriteShort(v, piece)
        /\ IF Reached(nraw'[v]) THEN Over(v, "limit") ELSE UNCHANGED <<pc, why>>
    BY DEF Copy
  <1>3. /\ pc[v] = "stream" /\ conv[v] \in Converters /\ conv[v].type # "none"
        /\ UNCHANGED <<conv, knob, program, maxbytes, layout>>
        /\ nraw[v] \in Nat /\ size \in Nat \ {0}
        /\ nraw'[v] = nraw[v] + n * size
        /\ (Unpacks(v)' <=> Unpacks(v))
        /\ Nchan(v)' = Nchan(v) /\ Nspad(v)' = Nspad(v)
    BY <1>1, <1>2, ReadStep
  <1>4. /\ Rising(file[v], nraw[v]) /\ (nshort[v] = 0 => Whole(file[v], nraw[v]))
        /\ maxbytes > 0 => nraw[v] < maxbytes
        /\ file[v] \in Seq(Nat) /\ Len(file[v]) \in Nat
    <2>1. Items(conv[v]) = Nat
      BY <1>2 DEF Items
    <2>2. file[v] \in Seq(Nat)
      BY <2>1 DEF FileType
    <2>3. pc[v] # "over"
      BY <1>3
    <2> QED BY <1>2, <2>2, <2>3, LenProperties, Zenon DEF ThreadInv, BytesInv
  <1>5. ~Unpacks(v)
    BY <1>2, <1>3 DEF ThreadInv, ConvInv
  <1> HIDE DEF size
  <1>6. n * size \in Nat /\ n * size <= BufLen * size /\ BufLen * size \in Nat
    <2>1. PICK m \in Nat : BufLen = n + m
      <3>1. BufLen - n \in Nat /\ BufLen = n + (BufLen - n)
        BY <1>1
      <3> QED BY <3>1
    <2>2. BufLen * size = n * size + m * size /\ m * size \in Nat /\ n * size \in Nat
      BY <1>1, <1>3, <2>1
    <2> QED BY <2>2
  <1>7. /\ piece \in Seq(Nat) /\ Len(piece) = n * size
        /\ \A i \in 1..(n * size) : piece[i] = nraw[v] + i
    BY <1>3, <1>6 DEF Bytes
  <1> HIDE DEF piece
  <1> DEFINE more == n * size
  <1> HIDE DEF more
  <1>8. /\ DOMAIN file' = Targets /\ file'[v] \in Seq(Nat) /\ nshort'[v] \in Nat
        /\ Rising(file'[v], nraw'[v])
        /\ nshort'[v] = 0 => Whole(file'[v], nraw'[v])
    <2>0. /\ more \in Nat /\ nraw'[v] = nraw[v] + more /\ Len(piece) = more
          /\ nshort[v] \in Nat
      BY <1>3, <1>6, <1>7 DEF more, Flags
    <2>1. CASE FwriteAll(v, piece)
      <3>1. file'[v] = file[v] \o piece /\ DOMAIN file' = Targets /\ nshort' = nshort
        BY <2>1 DEF Output, FwriteAll
      <3>2. PICK s \in Seq(Nat), t \in Seq(Nat) : s = file[v] /\ t = piece
        BY <1>4, <1>7
      <3>3. /\ Rising(s, nraw[v]) /\ Len(t) <= more
            /\ \A j \in 1..Len(t) : t[j] = nraw[v] + j
        BY <1>4, <1>7, <2>0, <3>2
      <3>4. s \o t \in Seq(Nat) /\ Rising(s \o t, nraw[v] + more)
        BY <1>3, <2>0, <3>3, AppendedRising
      <3>5. nshort[v] = 0 => Whole(s \o t, nraw[v] + more)
        <4> SUFFICES ASSUME nshort[v] = 0 PROVE Whole(s \o t, nraw[v] + more)
          OBVIOUS
        <4>1. Whole(s, Len(s)) /\ Len(s) = nraw[v]
          BY <1>4, <3>2 DEF Whole
        <4>2. Whole(s \o t, Len(s) + Len(t))
          BY <3>3, <4>1, AppendedCount
        <4> QED BY <2>0, <3>2, <4>1, <4>2
      <3> QED BY <2>0, <3>1, <3>2, <3>4, <3>5, Zenon
    <2>2. CASE FwriteShort(v, piece)
      <3>1. PICK k \in Shorts : /\ k < Len(piece)
                                /\ file' = [file EXCEPT ![v] = @ \o SubSeq(piece, 1, k)]
        BY <2>2 DEF FwriteShort
      <3>2. k \in 0..Len(piece) /\ k <= more
        BY <1>1, <2>0, <3>1
      <3>3. PICK s \in Seq(Nat), t \in Seq(Nat) : s = file[v] /\ t = SubSeq(piece, 1, k)
        BY <1>4, <1>7, <3>2, FirstOf
      <3>4. /\ Rising(s, nraw[v]) /\ Len(t) <= more
            /\ \A j \in 1..Len(t) : t[j] = nraw[v] + j
        <4>1. Len(t) = k /\ \A j \in 1..k : t[j] = piece[j]
          BY <1>7, <3>2, <3>3, FirstOf
        <4>2. \A j \in 1..k : piece[j] = nraw[v] + j
          BY <1>7, <2>0, <3>2
        <4> QED BY <1>4, <3>2, <3>3, <4>1, <4>2
      <3>5. s \o t \in Seq(Nat) /\ Rising(s \o t, nraw[v] + more)
        BY <1>3, <2>0, <3>4, AppendedRising
      <3>6. nshort'[v] \in Nat /\ nshort'[v] # 0
        BY <2>0, <2>2 DEF FwriteShort, Flags
      <3>7. file'[v] = s \o t /\ DOMAIN file' = Targets
        BY <3>1, <3>3 DEF Output
      <3> QED BY <2>0, <3>5, <3>6, <3>7, Zenon
    <2> QED BY <1>2, <2>1, <2>2
  <1>9. \/ pc'[v] = "over" /\ maxbytes > 0 /\ nraw'[v] >= maxbytes
        \/ pc'[v] = "stream" /\ ~(maxbytes > 0 /\ nraw'[v] >= maxbytes)
    BY <1>2, <1>3 DEF Reached, Over, Goto, Progress
  <1>10. ConvInv(v)' /\ FreshInv(v)' /\ WordsInv(v)'
    BY <1>2, <1>3, <1>5, <1>9 DEF ConvInv, FreshInv, WordsInv, Early
  <1>11. BytesInv(v)'
    <2>1. maxbytes > 0 => nraw'[v] < maxbytes + BufLen * size
      BY <1>3, <1>4, <1>6
    <2>2. SizeIn(conv'[v]) = size
      BY <1>3 DEF size
    <2>3. nraw'[v] \in Nat
      BY <1>3, <1>6
    <2>4. PICK over \in Nat : over = BufLen * size
      BY <1>6
    <2>5. maxbytes' > 0 => nraw'[v] < IF pc'[v] = "over" THEN maxbytes' + over ELSE maxbytes'
      BY <1>3, <1>9, <2>1, <2>3, <2>4
    <2>6. BufLen * SizeIn(conv'[v]) = over
      BY <2>2, <2>4, Zenon
    <2> QED BY <1>8, <2>5, <2>6 DEF BytesInv
  <1>12. StopsInv(v)'
    <2>1. pc'[v] = "over" /\ ~(nshort'[v] > 0) => maxbytes > 0 /\ Len(file'[v]) >= maxbytes
      BY <1>8, <1>9 DEF Whole
    <2>2. Len(file'[v]) * 1 = Len(file'[v])
      BY <1>8
    <2>3. conv'[v].type # "unpack24"
      BY <1>2, <1>3
    <2> QED BY <1>3, <2>1, <2>2, <2>3 DEF StopsInv
  <1>13. FileType(v)'
    BY <1>2, <1>3, <1>8 DEF FileType, Items
  <1> QED BY <1>8, <1>10, <1>11, <1>12, <1>13 DEF ThreadInv

\* words_to_write: all of them, or as many as the limit has room for.
LEMMA ToWriteFits ==
  ASSUME maxbytes \in Nat, NEW len \in Nat, NEW w \in Nat \ {0},
         maxbytes > 0 => 4 * len <= maxbytes
  PROVE  LET t == ToWrite(4 * len, w)
         IN /\ t \in 0..w
            /\ maxbytes > 0 => 4 * (len + t) <= maxbytes
            /\ t = w \/ (maxbytes > 0 /\ maxbytes < 4 * (len + t) + 4)
            /\ maxbytes > 0 /\ maxbytes < 4 * len + 4 => t = 0
  <1>1. CASE maxbytes > 0 /\ 4 * len + 4 * w > maxbytes
    <2>1. PICK room \in Nat : room = maxbytes - 4 * len
      BY <1>1
    <2>2. /\ room \div 4 \in Nat /\ 4 * (room \div 4) <= room /\ room < 4 * (room \div 4) + 4
      OBVIOUS
    <2>3. ToWrite(4 * len, w) = room \div 4
      BY <1>1, <2>1 DEF ToWrite
    <2> QED BY <1>1, <2>1, <2>2, <2>3
  <1>2. CASE ~(maxbytes > 0 /\ 4 * len + 4 * w > maxbytes)
    <2>1. ToWrite(4 * len, w) = w
      BY <1>2 DEF ToWrite
    <2> QED BY <1>2, <2>1
  <1> QED BY <1>1, <1>2

\* The first words of those that follow.
LEMMA FirstWords ==
  ASSUME NEW W, NEW s \in Seq(W), NEW words \in Seq(W), NEW t \in 0..Len(words), NEW e,
         \A i \in 1..Len(s) : s[i] = e[i],
         \A j \in 1..t : words[j] = e[Len(s) + j]
  PROVE  /\ s \o SubSeq(words, 1, t) \in Seq(W) /\ Len(s) \in Nat
         /\ Len(s \o SubSeq(words, 1, t)) = Len(s) + t
         /\ \A i \in 1..Len(s \o SubSeq(words, 1, t)) : (s \o SubSeq(words, 1, t))[i] = e[i]
  <1>1. PICK f : f = SubSeq(words, 1, t)
    OBVIOUS
  <1>2. f \in Seq(W) /\ Len(f) = t /\ \A j \in 1..t : f[j] = words[j]
    BY <1>1, FirstOf
  <1>3. \A j \in 1..Len(f) : f[j] = e[Len(s) + j]
    BY <1>2, Zenon
  <1>4. \A i \in 1..Len(s \o f) : (s \o f)[i] = e[i]
    <2>1. f \in Seq(W)
      BY <1>2
    <2>2. \A i \in 1..Len(s) : s[i] = e[i]
      OBVIOUS
    <2> QED BY <2>1, <2>2, <1>3, Appended
  <1>5. s \o f \in Seq(W) /\ Len(s \o f) = Len(s) + Len(f)
    BY <1>2, ConcatProperties, Zenon
  <1>6. Len(s) \in Nat
    BY LenProperties
  <1> QED BY <1>1, <1>2, <1>4, <1>5, <1>6, Zenon

\* A file s with the first k of data behind it, where all would be the beginning of e.
CutOff(cut, all, s, data, k, e) ==
  /\ k \in 0..Len(data) /\ all = s \o data /\ \A i \in 1..Len(all) : all[i] = e[i]
  /\ cut = s \o SubSeq(data, 1, k)

\* What was written of data that would have gone on as it has begun.
LEMMA CutShort ==
  ASSUME NEW W, NEW s \in Seq(W), NEW data \in Seq(W), NEW k, NEW e, NEW all, NEW cut,
         CutOff(cut, all, s, data, k, e)
  PROVE  /\ cut \in Seq(W) /\ Len(cut) \in Nat /\ Len(all) \in Nat /\ Len(cut) <= Len(all)
         /\ \A i \in 1..Len(cut) : cut[i] = e[i]
  <1> USE DEF CutOff
  <1>1. PICK ls \in Nat, ld \in Nat : ls = Len(s) /\ ld = Len(data)
    BY LenProperties
  <1>2. k \in 0..Len(data)
    OBVIOUS
  <1>3. /\ Len(all) = ls + ld
        /\ \A i \in 1..(ls + ld) : all[i] = IF i <= ls THEN s[i] ELSE data[i - ls]
    BY <1>1, ConcatProperties
  <1>4. \A i \in 1..(ls + ld) : all[i] = e[i]
    BY <1>3, Zenon
  <1>5. \A i \in 1..Len(s) : s[i] = e[i]
    <2> SUFFICES ASSUME NEW i \in 1..ls PROVE s[i] = e[i]
      BY <1>1
    <2>1. i \in 1..(ls + ld) /\ i <= ls
      OBVIOUS
    <2> QED BY <1>3, <1>4, <2>1
  <1>6. \A j \in 1..k : data[j] = e[Len(s) + j]
    <2> SUFFICES ASSUME NEW j \in 1..k PROVE data[j] = e[ls + j]
      BY <1>1
    <2>1. ls + j \in 1..(ls + ld) /\ ~(ls + j <= ls) /\ (ls + j) - ls = j
      BY <1>1
    <2> QED BY <1>3, <1>4, <2>1
  <1>7. cut \in Seq(W) /\ Len(cut) = Len(s) + k /\ \A i \in 1..Len(cut) : cut[i] = e[i]
    <2>1. PICK more : more = s \o SubSeq(data, 1, k)
      OBVIOUS
    <2> HIDE DEF CutOff
    <2>2. more \in Seq(W) /\ Len(more) = Len(s) + k /\ \A i \in 1..Len(more) : more[i] = e[i]
      BY <1>2, <1>5, <1>6, <2>1, FirstWords
    <2> QED BY <2>1, <2>2, Zenon DEF CutOff
  <1>8. ls + k \in Nat /\ ls + ld \in Nat /\ ls + k <= ls + ld
    BY <1>1
  <1> QED BY <1>1, <1>3, <1>7, <1>8, Zenon

\* k scans and n more.
LEMMA MoreScans ==
  ASSUME NEW k \in Nat, NEW n \in Nat, NEW d \in Nat
  PROVE  k + n \in Nat /\ k * d + n * d = (k + n) * d
  OBVIOUS

\* e is the stream of an unpacker, word by word.
WordStream(e, c) == \A i \in Nat \ {0} : e[i] = WordAt(c, i)

\* The words of n scans are those to expect after k scans.
LEMMA WordsExpected ==
  ASSUME NEW c \in Converters, c.type = "unpack24", NEW k \in Nat, NEW n \in Nat,
         NEW e, WordStream(e, c)
  PROVE  \A j \in 1..Len(Words(k * SizeIn(c), n, c)) :
           Words(k * SizeIn(c), n, c)[j] = e[k * (c.nchan + c.nspad) + j]
  <1>0. PICK size, ossw, from, words :
          /\ size = SizeIn(c) /\ ossw = c.nchan + c.nspad
          /\ from = k * size /\ words = Words(from, n, c)
    OBVIOUS
  <1>1. PICK nchan, nspad : nchan = c.nchan /\ nspad = c.nspad /\ ossw = nchan + nspad
    BY <1>0
  <1>2. /\ nchan \in Nat \ {0} /\ nspad \in Nat
        /\ size = 3 * nchan + 4 * nspad /\ size \in Nat \ {0} /\ ossw \in Nat \ {0}
    <2>1. /\ c.nchan \in 1..224 /\ c.nspad \in Nat /\ SizeIn(c) \in Nat \ {0}
          /\ SizeIn(c) = 3 * c.nchan + 4 * c.nspad
      BY Sizes
    <2>2. nchan \in 1..224 /\ nspad \in Nat /\ ossw = nchan + nspad
      BY <1>1, <2>1
    <2>3. nchan \in Nat \ {0} /\ ossw \in Nat \ {0}
      BY <2>2
    <2> QED BY <1>0, <1>1, <2>1, <2>3
  <1>3. /\ Len(words) = n * ossw
        /\ \A o \in 1..(n * ossw) :
             words[o] = Bytewise(Bytes(from + ((o - 1) \div ossw) * size, size), nchan, nspad)
                          [1 + ((o - 1) % ossw)]
    <2>1. c.nchan = nchan /\ c.nspad = nspad /\ SizeIn(c) = size /\ c.nchan + c.nspad = ossw
      BY <1>0, <1>1
    <2>0. from \in Nat /\ words = Words(from, n, c)
      BY <1>0, <1>2
    <2>2. /\ Len(Words(from, n, c)) = n * (c.nchan + c.nspad)
          /\ \A o \in 1..(n * (c.nchan + c.nspad)) :
               Words(from, n, c)[o] =
                 Bytewise(Bytes(from + ((o - 1) \div (c.nchan + c.nspad)) * SizeIn(c), SizeIn(c)),
                          c.nchan, c.nspad)[1 + ((o - 1) % (c.nchan + c.nspad))]
      BY <2>0, WordsOfScans
    <2> QED BY <2>0, <2>1, <2>2
  <1>4. PICK m \in Nat : m = n * ossw
    <2>1. n * ossw \in Nat
      BY <1>2
    <2> QED BY <2>1
  <1> SUFFICES ASSUME NEW j \in 1..m PROVE words[j] = e[k * ossw + j]
    BY <1>0, <1>3, <1>4, Zenon
  <1>5. PICK a \in Nat, i \in Nat \ {0}, d \in Nat \ {0} :
          a = j - 1 /\ i = k * d + j /\ d = ossw /\ i - 1 = k * d + a
    <2>1. PICK d \in Nat \ {0} : d = ossw
      BY <1>2
    <2>2. PICK b \in Nat : b = k * d
      OBVIOUS
    <2>3. j - 1 \in Nat /\ b + j \in Nat \ {0} /\ (b + j) - 1 = b + (j - 1)
      BY <1>4
    <2> QED BY <2>1, <2>2, <2>3, Zenon
  <1>6. (k * d + a) \div d = k + (a \div d) /\ (k * d + a) % d = a % d
    BY ScanAndColumn
  <1>7. PICK q \in Nat : q = a \div d
    BY Quotient
  <1>8. (k + q) * size = k * size + q * size
    BY <1>2, MoreScans
  <1>9. words[j] = Bytewise(Bytes(from + (a \div d) * size, size), nchan, nspad)[1 + (a % d)]
    BY <1>3, <1>4, <1>5, Zenon
  <1>10. e[i] = Bytewise(Bytes(((i - 1) \div d) * size, size), nchan, nspad)[1 + ((i - 1) % d)]
    <2>1. e[i] = Bytewise(Bytes(((i - 1) \div (c.nchan + c.nspad)) * SizeIn(c), SizeIn(c)),
                          c.nchan, c.nspad)[1 + ((i - 1) % (c.nchan + c.nspad))]
      BY Zenon DEF WordStream, WordAt
    <2> QED BY <1>0, <1>1, <1>5, <2>1, Zenon
  <1>11. words[j] = e[i]
    <2>1. (i - 1) \div d = k + q /\ (i - 1) % d = a % d
      BY <1>5, <1>6, <1>7, Zenon
    <2>2. from = k * size
      BY <1>0, Zenon
    <2>3. ((i - 1) \div d) * size = from + (a \div d) * size
      BY <1>7, <1>8, <2>1, <2>2, Zenon
    <2> QED BY <1>9, <1>10, <2>1, <2>3, Zenon
  <1> QED BY <1>5, <1>11, Zenon

\* A file s is the beginning of e, and ends after k scans or at the limit.  Of the
\* words of the next n scans, t are within the limit.
Writes(s, words, e, t, k, n, ossw, limit) ==
  /\ limit \in Nat /\ k \in Nat /\ n \in Nat \ {0} /\ ossw \in Nat \ {0}
  /\ Len(words) = n * ossw
  /\ \A i \in 1..Len(s) : s[i] = e[i]
  /\ Len(s) = k * ossw \/ (limit > 0 /\ limit < 4 * Len(s) + 4)
  /\ \A j \in 1..Len(words) : words[j] = e[k * ossw + j]
  /\ t \in 0..Len(words)
  /\ limit > 0 => 4 * (Len(s) + t) <= limit
  /\ t = Len(words) \/ (limit > 0 /\ limit < 4 * (Len(s) + t) + 4)
  /\ limit > 0 /\ limit < 4 * Len(s) + 4 => t = 0

\* A file new is the beginning of e, and ends after k scans or at the limit.
Holds(new, e, k, ossw, limit) ==
  /\ Len(new) \in Nat /\ \A i \in 1..Len(new) : new[i] = e[i]
  /\ limit > 0 => 4 * Len(new) <= limit
  /\ Len(new) = k * ossw \/ (limit > 0 /\ limit < 4 * Len(new) + 4)

\* What an unpacker adds to its file: the words of the scans read, or the first
\* of them, up to the limit.
LEMMA Written ==
  ASSUME NEW W, NEW s \in Seq(W), NEW words \in Seq(W), NEW e, NEW t, NEW k, NEW n, NEW ossw,
         NEW limit, Writes(s, words, e, t, k, n, ossw, limit),
         NEW new, new = s \o SubSeq(words, 1, t)
  PROVE  new \in Seq(W) /\ Holds(new, e, k + n, ossw, limit)
  <1> USE DEF Writes
  <1>1. PICK len \in Nat, m \in Nat : len = Len(s) /\ m = Len(words) /\ m # 0
    <2>1. n * ossw \in Nat /\ n * ossw # 0
      OBVIOUS
    <2>2. Len(s) \in Nat
      BY LenProperties
    <2> QED BY <2>1, <2>2
  <1>2. t # 0 => Len(s) = k * ossw
    BY Zenon
  <1>3. ASSUME NEW j \in 1..t PROVE words[j] = e[Len(s) + j]
    <2>1. t # 0 /\ j \in 1..Len(words)
      BY <1>1
    <2>2. words[j] = e[k * ossw + j]
      BY <2>1, Zenon
    <2> QED BY <1>2, <2>1, <2>2, Zenon
  <1>4. /\ new \in Seq(W) /\ Len(new) = len + t
        /\ \A i \in 1..Len(new) : new[i] = e[i]
    <2>1. PICK more : more = s \o SubSeq(words, 1, t)
      OBVIOUS
    <2>2. more \in Seq(W) /\ Len(more) = Len(s) + t /\ \A i \in 1..Len(more) : more[i] = e[i]
      BY <1>3, <2>1, FirstWords
    <2> QED BY <1>1, <2>1, <2>2, Zenon
  <1>5. t \in Nat /\ Len(new) \in Nat
    BY <1>1, <1>4
  <1>6. Len(new) = (k + n) * ossw \/ (limit > 0 /\ limit < 4 * Len(new) + 4)
    <2>1. CASE t = m
      <3>1. t # 0
        BY <1>1, <2>1, Zenon
      <3>2. len + t = k * ossw + n * ossw
        BY <1>1, <1>2, <2>1, <3>1, Zenon
      <3>3. k * ossw + n * ossw = (k + n) * ossw
        BY MoreScans
      <3> QED BY <1>4, <3>2, <3>3, Zenon
    <2>2. CASE limit > 0 /\ limit < 4 * (Len(s) + t) + 4
      BY <1>1, <1>4, <2>2, Zenon
    <2> QED BY <1>1, <2>1, <2>2, Zenon
  <1>7. limit > 0 => 4 * Len(new) <= limit
    BY <1>1, <1>4, Zenon
  <1> QED BY <1>4, <1>5, <1>6, <1>7, Zenon DEF Holds

\* Unpack24b and Unpack24lw: the words are written, or some of them, and it ends.
LEMMA UnpackStep ==
  ASSUME Progress, Streams, Flags, Output, NEW v \in Targets, ThreadInv(v), FileType(v),
         maxbytes \in Nat, NEW n \in 1..BufLen, Unpack(v, n)
  PROVE  DOMAIN file' = Targets /\ ThreadInv(v)' /\ FileType(v)'
  <1>1. BufLen \in Nat /\ n \in Nat /\ n # 0
    BY MultistreamAssumption
  <1>2. PICK c, s, from, words, t, data, new :
          /\ c = conv[v] /\ s = file[v] /\ from = nraw[v]
          /\ words = Words(from, n, c) /\ t = ToWrite(4 * Len(s), Len(words))
          /\ data = SubSeq(words, 1, t) /\ new = s \o data
    OBVIOUS
  <1>3. /\ Fread(v, n) /\ c.type = "unpack24"
        /\ \/ /\ FwriteAll(v, data)
              /\ IF Reached(4 * Len(file'[v])) THEN Over(v, "limit") ELSE UNCHANGED <<pc, why>>
           \/ FwriteShort(v, data) /\ Over(v, "fwrite")
    BY <1>2 DEF Unpack
  <1>4. /\ pc[v] = "stream" /\ c \in Converters
        /\ UNCHANGED <<conv, knob, program, maxbytes, layout>>
        /\ from \in Nat /\ SizeIn(c) \in Nat \ {0}
        /\ nraw'[v] = from + n * SizeIn(c)
        /\ (Unpacks(v)' <=> Unpacks(v)) /\ Nchan(v)' = Nchan(v) /\ Nspad(v)' = Nspad(v)
    BY <1>1, <1>2, <1>3, ReadStep
  <1>5. Unpacks(v) /\ c = [type |-> "unpack24", nchan |-> Nchan(v), nspad |-> Nspad(v)]
    BY <1>2, <1>3, <1>4 DEF ThreadInv, ConvInv
  <1>6. s \in Seq(Seq(Nat)) /\ Len(s) \in Nat
    <2>1. s \in Seq(Seq(Nat))
      BY <1>2, <1>3 DEF FileType, Items
    <2> QED BY <2>1, LenProperties
  <1>7. PICK k \in Nat :
          /\ \A i \in 1..Len(s) : s[i] = WordAt(c, i)
          /\ maxbytes > 0 => 4 * Len(s) <= maxbytes
          /\ from = k * SizeIn(c)
          /\ Len(s) = k * (c.nchan + c.nspad) \/ (maxbytes > 0 /\ maxbytes < 4 * Len(s) + 4)
    BY <1>2, <1>3, <1>4 DEF ThreadInv, WordsInv
  <1>8. PICK m \in Nat :
          /\ \A i \in 1..Len(new) : new[i] = WordAt(c, i)
          /\ new \in Seq(Seq(Nat)) /\ Len(new) \in Nat /\ data \in Seq(Seq(Nat))
          /\ maxbytes > 0 => 4 * Len(new) <= maxbytes
          /\ nraw'[v] = m * SizeIn(c)
          /\ Len(new) = m * (c.nchan + c.nspad) \/ (maxbytes > 0 /\ maxbytes < 4 * Len(new) + 4)
    <2>1. PICK W, e, ossw, limit :
            /\ W = Seq(Nat) /\ e = [i \in Nat |-> WordAt(c, i)]
            /\ ossw = c.nchan + c.nspad /\ limit = maxbytes /\ limit \in Nat
      OBVIOUS
    <2>2. c \in Converters /\ c.type = "unpack24" /\ ossw \in Nat \ {0}
      <3>1. c.nchan \in 1..224 /\ c.nspad \in Nat
        BY <1>3, <1>4, Sizes
      <3>2. c.nchan + c.nspad \in Nat \ {0}
        BY <3>1
      <3> QED BY <1>3, <1>4, <2>1, <3>2, Zenon
    <2>3. words \in Seq(W) /\ Len(words) = n * ossw
      <3>1. /\ Words(from, n, c) \in Seq(Seq(Nat))
            /\ Len(Words(from, n, c)) = n * (c.nchan + c.nspad)
        BY <1>1, <1>4, <2>2, WordsOfScans
      <3> QED BY <1>2, <2>1, <3>1, Zenon
    <2>4. \A j \in 1..Len(words) : words[j] = e[k * ossw + j]
      <3>2. WordStream(e, c)
        BY <2>1 DEF WordStream
      <3>3. \A j \in 1..Len(Words(k * SizeIn(c), n, c)) :
              Words(k * SizeIn(c), n, c)[j] = e[k * (c.nchan + c.nspad) + j]
        BY <1>1, <2>2, <3>2, WordsExpected, SMTT(20)
      <3>4. words = Words(k * SizeIn(c), n, c)
        BY <1>2, <1>7, Zenon
      <3> QED BY <2>1, <3>3, <3>4, Zenon
    <2>5. PICK len \in Nat, w \in Nat \ {0} : len = Len(s) /\ w = Len(words)
      <3>1. n * ossw \in Nat /\ n * ossw # 0
        BY <1>1, <2>2
      <3> QED BY <1>6, <2>3, <3>1
    <2>6. /\ t \in 0..w
          /\ limit > 0 => 4 * (len + t) <= limit
          /\ t = w \/ (limit > 0 /\ limit < 4 * (len + t) + 4)
          /\ limit > 0 /\ limit < 4 * len + 4 => t = 0
      <3>1. t = ToWrite(4 * len, w) /\ (maxbytes > 0 => 4 * len <= maxbytes)
        BY <1>2, <1>7, <2>5, Zenon
      <3>2. /\ t \in 0..w
            /\ maxbytes > 0 => 4 * (len + t) <= maxbytes
            /\ t = w \/ (maxbytes > 0 /\ maxbytes < 4 * (len + t) + 4)
            /\ maxbytes > 0 /\ maxbytes < 4 * len + 4 => t = 0
        BY <3>1, ToWriteFits
      <3> QED BY <2>1, <3>2
    <2>7. /\ s \in Seq(W) /\ \A i \in 1..Len(s) : s[i] = e[i]
          /\ Len(s) = k * ossw \/ (limit > 0 /\ limit < 4 * Len(s) + 4)
      <3>1. \A i \in 1..Len(s) : s[i] = e[i]
        BY <1>6, <1>7, <2>1
      <3> QED BY <1>6, <1>7, <2>1, <3>1, Zenon
    <2>8. /\ t \in 0..Len(words) /\ (limit > 0 => 4 * (Len(s) + t) <= limit)
          /\ t = Len(words) \/ (limit > 0 /\ limit < 4 * (Len(s) + t) + 4)
          /\ limit > 0 /\ limit < 4 * Len(s) + 4 => t = 0
          /\ new = s \o SubSeq(words, 1, t)
      BY <1>2, <2>5, <2>6, Zenon
    <2>9. Writes(s, words, e, t, k, n, ossw, limit)
      BY <1>1, <2>1, <2>2, <2>3, <2>4, <2>7, <2>8 DEF Writes
    <2>10. /\ new \in Seq(W) /\ Len(new) \in Nat /\ \A i \in 1..Len(new) : new[i] = e[i]
           /\ limit > 0 => 4 * Len(new) <= limit
           /\ Len(new) = (k + n) * ossw \/ (limit > 0 /\ limit < 4 * Len(new) + 4)
      <3>1. new \in Seq(W) /\ Holds(new, e, k + n, ossw, limit)
        BY <2>3, <2>7, <2>8, <2>9, Written, Zenon
      <3> QED BY <3>1, Zenon DEF Holds
    <2>11. k + n \in Nat /\ nraw'[v] = (k + n) * SizeIn(c)
      <3>1. SizeIn(c) \in Nat
        BY <1>4
      <3>2. k + n \in Nat /\ k * SizeIn(c) + n * SizeIn(c) = (k + n) * SizeIn(c)
        BY <1>1, <3>1, MoreScans
      <3> QED BY <1>4, <1>7, <3>2, Zenon
    <2>12. \A i \in 1..Len(new) : new[i] = WordAt(c, i)
      <3> SUFFICES ASSUME NEW i \in 1..Len(new) PROVE new[i] = WordAt(c, i)
        OBVIOUS
      <3>1. i \in Nat /\ new[i] = e[i]
        BY <2>10
      <3> QED BY <2>1, <3>1
    <2>13. data \in Seq(W)
      BY <1>2, <2>3, <2>8, FirstOf, Zenon
    <2> QED BY <2>1, <2>10, <2>11, <2>12, <2>13, Zenon
  <1>9. CASE FwriteShort(v, data) /\ Over(v, "fwrite")
    <2>1. PICK k2 \in Shorts : /\ k2 < Len(data)
                               /\ file' = [file EXCEPT ![v] = @ \o SubSeq(data, 1, k2)]
      BY <1>9 DEF FwriteShort
    <2>2. k2 \in 0..Len(data)
      <3>1. k2 \in Nat /\ Len(data) \in Nat
        BY <1>8, MultistreamAssumption
      <3> QED BY <2>1, <3>1
    <2>3. PICK cut, e, W : /\ cut = s \o SubSeq(data, 1, k2) /\ e = [i \in Nat |-> WordAt(c, i)]
                           /\ W = Seq(Nat)
      OBVIOUS
    <2>4. \A i \in 1..Len(new) : new[i] = e[i]
      <3>1. \A i \in 1..Len(new) : i \in Nat
        BY <1>8
      <3> QED BY <1>8, <2>3, <3>1
    <2>5. /\ cut \in Seq(W) /\ Len(cut) \in Nat /\ Len(cut) <= Len(new)
          /\ \A i \in 1..Len(cut) : cut[i] = e[i]
      <3>1. s \in Seq(W) /\ data \in Seq(W)
        BY <1>6, <1>8, <2>3
      <3>2. CutOff(cut, new, s, data, k2, e)
        BY <1>2, <2>2, <2>3, <2>4, Zenon DEF CutOff
      <3> QED BY <3>1, <3>2, CutShort
    <2>6. \A i \in 1..Len(cut) : cut[i] = WordAt(c, i)
      <3> SUFFICES ASSUME NEW i \in 1..Len(cut) PROVE cut[i] = WordAt(c, i)
        OBVIOUS
      <3>1. i \in Nat /\ cut[i] = e[i]
        BY <2>5
      <3> QED BY <2>3, <3>1
    <2>7. pc'[v] = "over" /\ file'[v] = cut /\ DOMAIN file' = Targets
      BY <1>2, <1>4, <1>9, <2>1, <2>3 DEF Over, Goto, Progress, Output
    <2>8. nshort'[v] \in Nat /\ nshort'[v] > 0
      <3>1. nshort[v] \in Nat
        BY DEF Flags
      <3> QED BY <1>9, <3>1 DEF FwriteShort, Flags
    <2>9. ConvInv(v)' /\ FreshInv(v)' /\ StopsInv(v)' /\ BytesInv(v)'
      BY <1>2, <1>3, <1>4, <1>5, <2>7, <2>8 DEF ConvInv, FreshInv, StopsInv, BytesInv, Early
    <2>10. WordsInv(v)'
      <3>1. maxbytes > 0 => 4 * Len(cut) <= maxbytes
        BY <1>8, <2>5
      <3>2. conv'[v] = c /\ maxbytes' = maxbytes
        BY <1>2, <1>4
      <3> QED BY <2>6, <2>7, <2>8, <3>1, <3>2 DEF WordsInv
    <2>11. FileType(v)'
      BY <1>2, <1>3, <1>4, <2>3, <2>5, <2>7 DEF FileType, Items
    <2> QED BY <2>7, <2>9, <2>10, <2>11 DEF ThreadInv
  <1>10. CASE /\ FwriteAll(v, data)
              /\ IF Reached(4 * Len(file'[v])) THEN Over(v, "limit") ELSE UNCHANGED <<pc, why>>
    <2>1. DOMAIN file' = Targets /\ file'[v] = new /\ nshort' = nshort
      BY <1>2, <1>10 DEF Output, FwriteAll
    <2>2. \/ pc'[v] = "over" /\ maxbytes > 0 /\ 4 * Len(new) >= maxbytes
          \/ pc'[v] = "stream"
      BY <1>4, <1>10, <2>1 DEF Reached, Over, Goto, Progress
    <2>3. ConvInv(v)' /\ FreshInv(v)' /\ BytesInv(v)'
      BY <1>2, <1>3, <1>4, <1>5, <2>2 DEF ConvInv, FreshInv, BytesInv, Early
    <2>4. WordsInv(v)'
      <3>1. \A i \in 1..Len(file'[v]) : file'[v][i] = WordAt(conv'[v], i)
        BY <1>2, <1>4, <1>8, <2>1
      <3>2. maxbytes' > 0 => 4 * Len(file'[v]) <= maxbytes'
        BY <1>4, <1>8, <2>1
      <3>3. \E l \in Nat : /\ nraw'[v] = l * SizeIn(conv'[v])
                           /\ \/ Len(file'[v]) = l * (conv'[v].nchan + conv'[v].nspad)
                              \/ maxbytes' > 0 /\ maxbytes' < 4 * Len(file'[v]) + 4
        BY <1>2, <1>4, <1>8, <2>1
      <3> QED BY <3>1, <3>2, <3>3 DEF WordsInv
    <2>5. StopsInv(v)'
      <3>1. 4 * Len(new) = Len(new) * 4
        BY <1>8
      <3>2. conv'[v].type = "unpack24"
        BY <1>2, <1>3, <1>4
      <3> QED BY <1>4, <2>1, <2>2, <3>1, <3>2 DEF StopsInv
    <2>6. FileType(v)'
      BY <1>2, <1>3, <1>4, <1>8, <2>1 DEF FileType, Items
    <2> QED BY <2>1, <2>3, <2>4, <2>5, <2>6 DEF ThreadInv
  <1> QED BY <1>3, <1>9, <1>10

-----------------------------------------------------------------------------
(* The invariant.                                                           *)

\* The step of a thread keeps what it says of the thread.
LEMMA WorkerStep ==
  ASSUME TypeOK, KnobInv, NEW v \in Targets, ThreadInv(v), Worker(v)
  PROVE  DOMAIN file' = Targets /\ ThreadInv(v)' /\ FileType(v)'
  <1>1. Process /\ Progress /\ Streams /\ Flags /\ Output
    BY TypeByKind, Zenon
  <1>2. maxbytes \in Nat /\ layout \in Layouts
    BY <1>1, MultistreamAssumption DEF Process
  <1>3. FileType(v)
    BY <1>1, Zenon DEF Output, FileType
  <1>4. CASE \/ OpenFile(v) \/ Connect(v) \/ Ready(v) \/ NotFound(v) \/ SetPack24(v)
             \/ SetTriggerMode(v)
    BY <1>1, <1>4, EarlyStep, Zenon
  <1>5. CASE ChooseStreamer(v)
    BY <1>1, <1>2, <1>5, ChooseStep, Zenon
  <1>6. CASE StreamOpen(v)
    BY <1>1, <1>3, <1>6, OpenStep, Zenon
  <1>7. CASE LooksOld(v) \/ Fatal(v)
    <2>1. UNCHANGED <<setting, thread, device>>
      BY <1>7, Zenon DEF LooksOld, Fatal, Dies
    <2>2. /\ Thread(v)' = Thread(v) /\ knob'[v] = knob[v] /\ file' = file
          /\ UNCHANGED <<program, maxbytes, layout>>
      BY <2>1 DEF Thread, thread, output, setting, device
    <2> QED BY <1>1, <1>3, <2>2, Untouched DEF Output
  <1>8. CASE StreamEnds(v)
    BY <1>1, <1>2, <1>3, <1>8, EndStep, Zenon
  <1>9. CASE \E n \in 1..BufLen : Copy(v, n)
    BY <1>1, <1>2, <1>3, <1>9, CopyStep, Zenon
  <1>10. CASE \E n \in 1..BufLen : Unpack(v, n)
    BY <1>1, <1>2, <1>3, <1>10, UnpackStep, Zenon
  <1> QED BY <1>4, <1>5, <1>6, <1>7, <1>8, <1>9, <1>10, Zenon DEF Worker, Stream

\* A step keeps what is said of each thread.
LEMMA ThreadsStep ==
  ASSUME IInv, [Next]_vars
  PROVE  DOMAIN file' = Targets /\ \A u \in Targets : ThreadInv(u)' /\ FileType(u)'
  <1>1. TypeOK /\ KnobInv /\ \A u \in Targets : ThreadInv(u) /\ FileType(u)
    <2>1. TypeOK /\ KnobInv /\ \A u \in Targets : ThreadInv(u)
      BY Zenon DEF IInv
    <2>2. Output
      BY <2>1, TypeByKind, Zenon
    <2> QED BY <2>1, <2>2, Zenon DEF Output, FileType
  <1>2. ASSUME NEW v \in Targets, Worker(v)
        PROVE  DOMAIN file' = Targets /\ \A u \in Targets : ThreadInv(u)' /\ FileType(u)'
    <2>1. DOMAIN file' = Targets /\ ThreadInv(v)' /\ FileType(v)'
      BY <1>1, <1>2, WorkerStep, Zenon
    <2>2. /\ UNCHANGED <<program, maxbytes, layout>>
          /\ \A u \in Targets : u # v => Thread(u)' = Thread(u) /\ knob'[u] = knob[u]
      BY <1>1, <1>2, OtherThreads, Zenon
    <2>3. ASSUME NEW u \in Targets, u # v PROVE ThreadInv(u)' /\ FileType(u)'
      BY <1>1, <2>2, <2>3, Untouched, Zenon
    <2> QED BY <2>1, <2>3, Zenon
  <1>3. CASE Join \/ UNCHANGED vars
    <2>1. UNCHANGED <<setting, thread, device>>
      BY <1>3 DEF Join, vars, process
    <2>2. UNCHANGED <<program, maxbytes, layout, knob, file>>
      BY <2>1 DEF setting, thread, output, device
    <2>3. \A u : Thread(u)' = Thread(u)
      BY <2>1 DEF Thread, thread, output
    <2>4. ASSUME NEW u \in Targets PROVE ThreadInv(u)' /\ FileType(u)'
      <3>1. Thread(u)' = Thread(u) /\ knob'[u] = knob[u]
        BY <2>2, <2>3, Zenon
      <3> QED BY <1>1, <2>2, <3>1, Untouched, Zenon
    <2>5. DOMAIN file' = Targets
      BY <1>1, <2>2 DEF TypeOK
    <2> QED BY <2>4, <2>5, Zenon
  <1> QED BY <1>2, <1>3, Zenon DEF Next

\* The invariant is inductive.
LEMMA StepInv == IInv /\ [Next]_vars => IInv'
  <1> SUFFICES ASSUME IInv, [Next]_vars PROVE IInv'
    OBVIOUS
  <1>1. TypeOK /\ KnobInv /\ \A u \in Targets : ThreadInv(u)
    BY Zenon DEF IInv
  <1>2. Process /\ Progress /\ Streams /\ Flags /\ Output /\ Sent
    BY <1>1, TypeByKind, Zenon
  <1>3. Process' /\ Targets' = Targets /\ Sent'
    BY <1>2, ProcessStep, SentStep, Zenon
  <1>4. KnobInv'
    BY <1>1, KnobStep, Zenon
  <1>5. Progress'
    BY <1>2, ProgressStep, Zenon
  <1>6. Streams' /\ Flags'
    <2>1. \A u \in Targets : ConvInv(u)
      BY <1>1, Zenon DEF ThreadInv
    <2> QED BY <1>1, <1>2, <1>3, <2>1, StreamsStep, Zenon
  <1>7. DOMAIN file' = Targets /\ \A u \in Targets : ThreadInv(u)' /\ FileType(u)'
    BY ThreadsStep, Zenon
  <1>8. Output'
    BY <1>3, <1>7 DEF Output, FileType
  <1>9. TypeOK'
    BY <1>3, <1>5, <1>6, <1>8, Zenon
    DEF TypeOK, Process, Progress, Streams, Flags, Output, Sent, Stages, Reasons
  <1>10. (\A u \in Targets : ThreadInv(u))'
    BY <1>3, <1>7
  <1> QED BY <1>4, <1>9, <1>10, Zenon DEF IInv

\* No thread has begun.
LEMMA InitInv == Init => IInv
  <1> SUFFICES ASSUME Init PROVE IInv
    OBVIOUS
  <1> USE DEF Init
  <1>1. KnobInv /\ Sent
    <2>1. PICK fleet \in Fleets : /\ knob = [u \in DOMAIN fleet |-> fleet[u].says]
                                 /\ sends = [u \in DOMAIN fleet |-> fleet[u].sends]
      OBVIOUS
    <2>2. ASSUME NEW u \in Targets
          PROVE  /\ knob[u] = fleet[u].says /\ u \in DOMAIN fleet
                 /\ sends[u] \in [nchan : 1..224, nspad : Nat, packs : BOOLEAN]
      <3>1. u \in DOMAIN fleet /\ knob[u] = fleet[u].says /\ sends[u] = fleet[u].sends
        BY <2>1 DEF Targets
      <3>2. fleet[u].sends \in [nchan : 1..224, nspad : Nat, packs : BOOLEAN]
        BY <3>1, FleetsAssumption, Zenon
      <3> QED BY <3>1, <3>2
    <2>3. KnobInv
      <3> SUFFICES ASSUME NEW u \in Targets, NEW key \in DOMAIN knob[u]
                   PROVE  /\ knob[u][key] \in Nat \union {Empty}
                          /\ key \in {"NCHAN.0", "NCHAN.1"} => knob[u][key] <= 224
        BY DEF KnobInv
      <3>1. u \in DOMAIN fleet /\ knob[u] = fleet[u].says
        BY <2>2
      <3>2. /\ \A k \in DOMAIN fleet[u].says : fleet[u].says[k] \in Nat \cup {Empty}
            /\ \A k \in {"NCHAN.0", "NCHAN.1"} \cap DOMAIN fleet[u].says :
                 fleet[u].says[k] <= 224
        BY <3>1, FleetsAssumption
      <3> QED BY <3>1, <3>2
    <2>4. Sent
      BY <2>1, <2>2 DEF Sent, Targets
    <2> QED BY <2>3, <2>4
  <1>2. Process
    BY DEF Process
  <1>3. Progress
    <2>1. 0 \in 0..2
      OBVIOUS
    <2> QED BY <2>1 DEF Progress, Stages, Reasons
  <1>4. Streams /\ Flags
    BY DEF Streams, Flags, Converters
  <1>5. ASSUME NEW u \in Targets
        PROVE  /\ pc[u] \in Early /\ conv[u].type = "none" /\ nread[u] = 0 /\ nraw[u] = 0
               /\ file[u] = <<>>
    BY DEF Early
  <1>6. Output
    BY <1>5 DEF Output, Items
  <1>7. ASSUME NEW u \in Targets PROVE ThreadInv(u)
    BY <1>5 DEF ThreadInv, ConvInv, FreshInv, BytesInv, WordsInv, StopsInv, Early
  <1>8. TypeOK
    BY <1>1, <1>2, <1>3, <1>4, <1>6, TypeByKind, Zenon
  <1> QED BY <1>1, <1>7, <1>8, Zenon DEF IInv

\* In every state of a capture each thread has read, written and stopped as the
\* invariant says.
THEOREM Inductive == Spec => []IInv
  <1>1. Init => IInv
    BY InitInv
  <1>2. IInv /\ [Next]_vars => IInv'
    BY StepInv
  <1> QED BY <1>1, <1>2, PTL DEF Spec

\* Every variable of every thread has its type, and a file holds bytes or words.
THEOREM TypeCorrect == Spec => []TypeOK
  <1>1. IInv => TypeOK
    BY DEF IInv
  <1> QED BY <1>1, Inductive, PTL

\* The layout the program takes from what a UUT and the user say is the one of the
\* stream, whenever it can be known.
LEMMA FitsLayout ==
  ASSUME NEW u \in Targets, Process, Sent, KnobInv, Known(u)
  PROVE  /\ Unpacks(u) <=> Packed(u)
         /\ Packed(u) => Nchan(u) = sends[u].nchan /\ Nspad(u) = sends[u].nspad
  <1>1. CASE program = "stream"
    BY <1>1 DEF Unpacks, Packed
  <1>2. CASE program # "stream"
    <2>1. Described(u) /\ UserHelps(u) /\ program = "multistream"
      BY <1>2 DEF Known, Process
    <2>2. Unpacks(u) <=> Packed(u)
      BY <2>1 DEF Described, Says, Unpacks, Packed
    <2>3. sends[u].nchan \in Nat /\ sends[u].nspad \in Nat
      BY DEF Sent
    <2>4. Nchan(u) = sends[u].nchan
      <3>1. CASE layout.nchan > 0
        BY <2>1, <3>1 DEF UserHelps, Nchan
      <3>2. CASE ~(layout.nchan > 0) /\ Says(u, "NCHAN.1")
        BY <2>1, <3>2 DEF Described, Says, Nchan
      <3>3. CASE ~(layout.nchan > 0) /\ ~Says(u, "NCHAN.1") /\ Says(u, "NCHAN.0")
        <4>1. sends[u].nspad = 0
          BY <2>1, <3>3 DEF UserHelps
        <4> QED BY <2>1, <2>3, <3>3, <4>1 DEF Described, Says, Nchan
      <3>4. CASE ~(layout.nchan > 0) /\ ~Says(u, "NCHAN.1") /\ ~Says(u, "NCHAN.0")
        BY <2>1, <3>4 DEF Described, Says, Nchan
      <3> QED BY <3>1, <3>2, <3>3, <3>4
    <2>5. Nspad(u) = sends[u].nspad
      <3>1. CASE layout.nspad >= 0
        BY <2>1, <3>1 DEF UserHelps, Nspad
      <3>2. CASE ~(layout.nspad >= 0)
        BY <2>1, <3>2 DEF UserHelps, Described, Says, Nspad
      <3> QED BY <3>1, <3>2
    <2> QED BY <2>2, <2>4, <2>5
  <1> QED BY <1>1, <1>2

\* A product of three, in another order.
LEMMA OtherOrder ==
  ASSUME NEW k \in Nat, NEW m \in Nat, NEW n \in Nat
  PROVE  (k * m) * n = (k * n) * m
  OBVIOUS

\* However reads, limits and short writes have cut it: whenever the layout can be
\* known, a file is the beginning of what its UUT has sent, byte for byte, or word
\* for word as unpacked byte by byte, and without limit or short write all of what
\* was read; and a short write leaves a hole in a raw file but no byte twice or out
\* of order (acq400_multistream.cpp:49-79, 97-183; unpack24.h:57-153).
THEOREM FilesAreStreams == Spec => []FileIsStream
  <1>1. IInv => FileIsStream
    <2> SUFFICES
          ASSUME IInv, NEW u \in Targets, Known(u)
          PROVE  /\ nshort[u] = 0 \/ Packed(u) =>
                      \A i \in 1..Len(file[u]) : file[u][i] = Expected(u, i)
                 /\ ~Packed(u) => \A i \in 2..Len(file[u]) : file[u][i - 1] < file[u][i]
                 /\ nshort[u] = 0 /\ maxbytes = 0 => AllWritten(u)
      BY Zenon DEF FileIsStream
    <2>1. ThreadInv(u) /\ TypeOK /\ KnobInv
      BY Zenon DEF IInv
    <2>2. Process /\ Sent /\ conv[u] \in Converters
      <3>1. Process /\ Sent /\ Streams
        BY <2>1, TypeByKind, Zenon
      <3> QED BY <3>1 DEF Streams
    <2>3. /\ Unpacks(u) <=> Packed(u)
          /\ Packed(u) => Nchan(u) = sends[u].nchan /\ Nspad(u) = sends[u].nspad
      BY <2>1, <2>2, FitsLayout
    <2>4. PICK nchan \in Nat, nspad \in Nat : nchan = sends[u].nchan /\ nspad = sends[u].nspad
      BY <2>2 DEF Sent
    <2>5. CASE conv[u].type = "unpack24"
      <3>1. Packed(u) /\ conv[u] = [type |-> "unpack24", nchan |-> nchan, nspad |-> nspad]
        BY <2>1, <2>3, <2>4, <2>5 DEF ThreadInv, ConvInv
      <3>2. SizeIn(conv[u]) = 3 * nchan + 4 * nspad
        BY <2>2, <2>5, <3>1, Sizes
      <3>3. conv[u].nchan = nchan /\ conv[u].nspad = nspad
        BY <3>1
      <3>4. \A i : WordAt(conv[u], i) = Expected(u, i)
        BY <2>4, <3>1, <3>2, <3>3, Zenon DEF WordAt, Expected
      <3>5. \A i \in 1..Len(file[u]) : file[u][i] = Expected(u, i)
        BY <2>1, <2>5, <3>4 DEF ThreadInv, WordsInv
      <3>6. ASSUME nshort[u] = 0, maxbytes = 0 PROVE AllWritten(u)
        <4>1. PICK k \in Nat : /\ nraw[u] = k * SizeIn(conv[u])
                               /\ Len(file[u]) = k * (conv[u].nchan + conv[u].nspad)
          BY <2>1, <2>5, <3>6 DEF ThreadInv, WordsInv
        <4>2. PICK size \in Nat, ossw \in Nat :
                size = 3 * nchan + 4 * nspad /\ ossw = nchan + nspad
          OBVIOUS
        <4>3. nraw[u] = k * size /\ Len(file[u]) = k * ossw
          BY <3>2, <3>3, <4>1, <4>2, Zenon
        <4>4. (k * ossw) * size = (k * size) * ossw
          BY OtherOrder
        <4>5. Len(file[u]) * size = nraw[u] * ossw
          BY <4>3, <4>4, Zenon
        <4> QED BY <2>4, <3>1, <4>2, <4>5, Zenon DEF AllWritten
      <3> QED BY <3>1, <3>5, <3>6
    <2>6. CASE conv[u].type \in {"short", "long"}
      <3>1. ~Packed(u)
        BY <2>1, <2>3, <2>6 DEF ThreadInv, ConvInv
      <3>2. /\ Rising(file[u], nraw[u])
            /\ nshort[u] = 0 => Whole(file[u], nraw[u])
        BY <2>1, <2>6 DEF ThreadInv, BytesInv
      <3> QED BY <3>1, <3>2 DEF Expected, AllWritten, Rising, Whole
    <2>7. CASE conv[u].type = "none"
      <3>1. file[u] = <<>> /\ nraw[u] = 0
        BY <2>1, <2>7 DEF ThreadInv, FreshInv
      <3>2. AllWritten(u)
        BY <2>4, <3>1 DEF AllWritten
      <3> QED BY <3>1, <3>2
    <2> QED BY <2>2, <2>5, <2>6, <2>7 DEF Converters
  <1> QED BY <1>1, Inductive, PTL

\* maxbytes is kept: to the byte by the unpackers, to a buffer by streamer.
THEOREM WithinLimit == Spec => []AtMostMaxBytes
  <1>1. IInv => AtMostMaxBytes
    <2> SUFFICES ASSUME IInv, NEW u \in Targets, maxbytes > 0
                 PROVE  IF conv[u].type = "unpack24" THEN 4 * Len(file[u]) <= maxbytes
                        ELSE conv[u].type # "none" =>
                               Len(file[u]) < maxbytes + BufLen * SizeIn(conv[u])
      BY DEF AtMostMaxBytes
    <2>1. ThreadInv(u) /\ TypeOK
      BY Zenon DEF IInv
    <2>2. /\ conv[u] \in Converters /\ nraw[u] \in Nat /\ maxbytes \in Nat
          /\ file[u] \in Seq(Items(conv[u]))
      <3>1. Process /\ Streams /\ Output
        BY <2>1, TypeByKind, Zenon
      <3> QED BY <3>1, MultistreamAssumption DEF Process, Streams, Output
    <2>3. CASE conv[u].type = "unpack24"
      BY <2>1, <2>3 DEF ThreadInv, WordsInv
    <2>4. CASE conv[u].type \in {"short", "long"}
      <3>1. /\ Len(file[u]) <= nraw[u]
            /\ nraw[u] < IF pc[u] = "over" THEN maxbytes + BufLen * SizeIn(conv[u]) ELSE maxbytes
        BY <2>1, <2>4 DEF ThreadInv, BytesInv, Rising
      <3>2. PICK more \in Nat : more = BufLen * SizeIn(conv[u])
        <4>1. SizeIn(conv[u]) \in Nat /\ BufLen \in Nat
          BY <2>2, <2>4, Sizes, MultistreamAssumption
        <4>2. BufLen * SizeIn(conv[u]) \in Nat
          BY <4>1
        <4> QED BY <4>2
      <3>3. Len(file[u]) \in Nat
        BY <2>2, LenProperties
      <3>4. Len(file[u]) < maxbytes + more
        BY <2>2, <3>1, <3>2, <3>3
      <3> QED BY <2>4, <3>2, <3>4
    <2>5. CASE conv[u].type = "none"
      BY <2>5
    <2> QED BY <2>2, <2>3, <2>4, <2>5 DEF Converters
  <1> QED BY <1>1, Inductive, PTL

\* A capture that was under way is left at the end of the stream, after a short
\* write, or with as many bytes as were asked for.
THEOREM StoppedForAReason == Spec => []StopsForAReason
  <1>1. IInv => StopsForAReason
    BY Zenon DEF IInv, ThreadInv, StopsInv, StopsForAReason
  <1> QED BY <1>1, Inductive, PTL

\* A channel's number and the bit of its site have no bit in common.
LEMMA IdOfChannel ==
  ASSUME NEW ic \in 0..31
  PROVE  ChId(ic) = 32 + ic
  <1>1. ic \div 32 = 0
    OBVIOUS
  <1>2. ChId(ic) = Or(ic, 32)
    BY <1>1 DEF ChId
  <1> DEFINE bit(n, k) == (n \div k) % 2
             either(a, k) == IF bit(a, k) + bit(32, k) > 0 THEN k ELSE 0
  <1>3. Or(ic, 32) = either(ic, 1) + either(ic, 2) + either(ic, 4) + either(ic, 8)
                       + either(ic, 16) + either(ic, 32) + either(ic, 64) + either(ic, 128)
    BY DEF Or
  <1>4. /\ either(ic, 32) = 32 /\ either(ic, 64) = 0 /\ either(ic, 128) = 0
    OBVIOUS
  <1>5. /\ either(ic, 1) = ic % 2 /\ either(ic, 2) = 2 * ((ic \div 2) % 2)
        /\ either(ic, 4) = 4 * ((ic \div 4) % 2) /\ either(ic, 8) = 8 * ((ic \div 8) % 2)
        /\ either(ic, 16) = 16 * ((ic \div 16) % 2)
    OBVIOUS
  <1>6. ic = (ic % 2) + 2 * ((ic \div 2) % 2) + 4 * ((ic \div 4) % 2)
               + 8 * ((ic \div 8) % 2) + 16 * ((ic \div 16) % 2)
    OBVIOUS
  <1> HIDE DEF either
  <1> QED BY <1>2, <1>3, <1>4, <1>5, <1>6

\* A word that was unpacked has the id the SPAD decoder looks for, whenever the
\* layout can be known and has up to 32 channels (acq400_spad_frame_decoder.cpp:385).
THEOREM IdsDecoded == Spec => []IdsAsDecoded
  <1>1. Sent /\ FileIsStream => IdsAsDecoded
    <2> SUFFICES
          ASSUME Sent, FileIsStream, NEW u \in Targets, Known(u), Packed(u),
                 sends[u].nchan <= 32, NEW i \in 1..Len(file[u]),
                 (i - 1) % (sends[u].nchan + sends[u].nspad) < sends[u].nchan
          PROVE  file[u][i][1] = 32 + ((i - 1) % (sends[u].nchan + sends[u].nspad))
      BY Zenon DEF IdsAsDecoded
    <2>1. PICK nchan, nspad, ic, scan :
            /\ nchan = sends[u].nchan /\ nspad = sends[u].nspad
            /\ ic = (i - 1) % (nchan + nspad)
            /\ scan = Bytes(((i - 1) \div (nchan + nspad)) * (3 * nchan + 4 * nspad),
                            3 * nchan + 4 * nspad)
      OBVIOUS
    <2>2. nchan \in 1..32 /\ nspad \in Nat
      <3>1. sends[u].nchan \in 1..224 /\ sends[u].nspad \in Nat /\ sends[u].nchan <= 32
        BY DEF Sent
      <3>2. nchan \in 1..224 /\ nspad \in Nat /\ nchan <= 32
        BY <2>1, <3>1, Zenon
      <3> QED BY <3>2
    <2>3. ic \in 0..31 /\ ic < nchan /\ 1 + ic \in 1..(nchan + nspad) /\ 1 + ic <= nchan
          /\ (1 + ic) - 1 = ic
      <3>1. PICK a \in Int, d \in Nat \ {0} : a = i - 1 /\ d = nchan + nspad
        <4>1. i - 1 \in Int /\ nchan + nspad \in Nat \ {0}
          BY <2>2
        <4> QED BY <4>1
      <3>2. a % d \in 0..(d - 1)
        OBVIOUS
      <3>3. ic = a % d /\ ic < nchan
        BY <2>1, <3>1, Zenon
      <3> QED BY <2>2, <3>1, <3>2, <3>3
    <2>4. file[u][i] = Bytewise(scan, nchan, nspad)[1 + ic]
      BY <2>1, Zenon DEF FileIsStream, Expected
    <2>5. Bytewise(scan, nchan, nspad)[1 + ic] = SampleB(scan, ic)
      BY <2>3 DEF Bytewise
    <2>6. SampleB(scan, ic)[1] = ChId(ic)
      BY DEF SampleB
    <2>7. file[u][i][1] = 32 + ic
      BY <2>3, <2>4, <2>5, <2>6, IdOfChannel, Zenon
    <2> QED BY <2>1, <2>7, Zenon
  <1>2. TypeOK => Sent
    BY TypeByKind, Zenon
  <1> QED BY <1>1, <1>2, TypeCorrect, FilesAreStreams, PTL

=============================================================================
