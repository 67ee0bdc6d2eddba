------------------------- MODULE SpadDecoder_proofs -------------------------
(***************************************************************************)
(* The safety of the frame decoder, for all streams, counts, inputs and    *)
(* lost or damaged samples: which rows it writes and in what order, the    *)
(* count beside a sample, the transitions it prints, and when it stops.    *)
(***************************************************************************)
EXTENDS SpadDecoder, FiniteSetTheorems, FunctionTheorems, TLAPS

-----------------------------------------------------------------------------
(* The inductive invariant.                                                 *)

Running == pc \in {"read", "decode", "write"}
Sound4 == SoundUpTo(QUAD)

\* What the UUT sends: a sample's subframe and byte say its count.
Sent(x) == x.n > 0 /\ x.frame = Subframe(x.n) /\ x.scbyte = CountByte(x.n)

\* The stream is what a UUT sent, less one sample at most.
StreamInv ==
  /\ \A i \in 1..Len(stream) : Sent(stream[i])
  /\ \A i, j \in 1..Len(stream) : i < j => stream[j].n - stream[i].n \in {j - i, j - i + 1}

\* No sample is counted before the first set is decoded, which the first read
\* holds.
FirstInv ==
  /\ pc \in {"ui", "main"} =>
       tot_samples = 0 /\ out = <<>> /\ transitions = [b \in 1..NDI |-> 0]
  /\ tot_samples = 0 => di_previous = NoDi /\ i0 = 0
  /\ tot_samples = 0 /\ pc \in {"ui", "main", "read"} =>
       src = 0 /\ stale = 0 /\ \A s \in Slots : samples[s] = Garbage
  /\ tot_samples = 0 /\ pc = "decode" =>
       /\ src = QUAD - stale
       /\ \A s \in Slots : samples[s] = IF s < src THEN stream[s + 1] ELSE Garbage
  /\ pc = "write" => tot_samples > 0
  /\ tot_samples > 0 \/ pc \in {"decode", "write"} => src > 0

\* Unless a read was short, which the last one may be, the slots hold the last
\* samples taken from stdin; and they never hold anything but samples.
Holds(s, k) == k \in 1..Len(stream) /\ samples[s] = stream[k]
PlaceInv ==
  /\ stale > 0 => src = Len(stream)
  /\ stale = 0 /\ pc = "decode" => \A s \in Slots : Holds(s, src - QUAD + 1 + s)
  /\ stale = 0 /\ pc \in {"read", "write"} =>
       src >= i0 /\ \A s \in Slots : s < i0 => Holds(s, src - i0 + 1 + s)
OriginInv ==
  \A s \in Slots : samples[s] = Garbage \/ \E k \in 1..Len(stream) : samples[s] = stream[k]

\* The samples decoded are a beginning of the stream that ends with a subframe
\* 4, and the transitions are theirs.
Decoded == IF pc = "decode" THEN src - QUAD ELSE src - i0
Edges(b, k) == {i \in 2..k : (b \in stream[i - 1].di) # (b \in stream[i].di)}
AlignInv ==
  stale = 0 /\ Running =>
    /\ Decoded \in 0..Len(stream) /\ (tot_samples = 0 <=> Decoded = 0)
    /\ Decoded > 0 => stream[Decoded].frame = 4
DiInv ==
  stale = 0 /\ Running =>
    /\ di_previous = IF Decoded = 0 THEN NoDi ELSE stream[Decoded].di
    /\ \A b \in 1..NDI : transitions[b] = Cardinality(Edges(b, Decoded))

\* What is left of a set is the beginning of the next; only the first set has
\* less than four samples.
Fresh == stale = 0 \/ pc = "decode"
ResidueInv ==
  Sound4 /\ tot_samples > 0 =>
    /\ Running /\ Fresh => \A s \in Slots : s < i0 => samples[s].frame = s + 1 /\ samples[s].id
    /\ tot_samples >= FirstSet /\ (tot_samples > FirstSet => i0 = 0)

\* The set to write.
Known(n) == n = 0 \/ \E k \in 1..Len(stream) : n = stream[k].n /\ stream[k].id
WriteInv ==
  pc = "write" /\ Sound4 =>
    /\ \A s \in Slots : Known(samples[s].n)
    /\ stale = 0 /\ tot_samples > FirstSet =>
         \A s \in Slots : Holds(s, src - QUAD + 1 + s) /\ meta[s].sc = samples[s].n % Counts

\* The rows of a sequence of pieces; those written are of sets decoded, are all
\* but what cut writes lost, have the right counts, are of undamaged samples and
\* come in their order.
MetaRows(o) == {i \in 1..Len(o) : HasMeta(o[i])}
Written == IF pc \in {"decode", "write"} THEN src - QUAD ELSE src - i0
UptoInv == \A i \in MetaRows(out) : out[i].upto \in 1..tot_samples
CountInv ==
  stale = 0 /\ Running /\ outfile # "none" =>
    Written - Cardinality(MetaRows(out)) \in 0..(QUAD * cut)
NumberInv ==
  Sound4 =>
    \A i \in MetaRows(out) :
      out[i].upto > FirstSet /\ (Fresh \/ out[i].upto < tot_samples) =>
        out[i].sc = out[i].n % Counts
KnownInv == Sound4 => \A i \in MetaRows(out) : Known(out[i].n)
OrderInv ==
  Sound4 /\ stale = 0 =>
    /\ \A i, j \in MetaRows(out) : i < j /\ out[i].upto > FirstSet => out[i].n < out[j].n
    /\ Running => \A i \in MetaRows(out) :
         out[i].upto > FirstSet =>
           Written \in 1..Len(stream) /\ out[i].n <= stream[Written].n

IInv ==
  /\ TypeOK /\ StreamInv /\ FirstInv /\ PlaceInv /\ OriginInv /\ AlignInv /\ DiInv
  /\ ResidueInv /\ WriteInv /\ UptoInv /\ CountInv /\ NumberInv /\ KnownInv /\ OrderInv
  /\ SoundIsAccepted

-----------------------------------------------------------------------------
(* Numbers.                                                                 *)

\* The weight of a byte, place by place.
LEMMA Weights ==
  /\ Weight(0) = 1 /\ Weight(1) = Radix
  /\ Weight(2) = Radix * Radix /\ Weight(3) = Radix * Radix * Radix
  BY DEF Weight

\* Quotient and remainder make up the number.
LEMMA Division ==
  ASSUME NEW a \in Int, NEW d \in Nat \ {0}
  PROVE  a = d * (a \div d) + (a % d) /\ a % d \in 0..(d - 1) /\ a \div d \in Int
  OBVIOUS

\* A multiple of d is the larger, the larger its factor.
LEMMA Multiple ==
  ASSUME NEW d \in Nat \ {0}, NEW q \in Int, NEW p \in Int, q < p
  PROVE  d * p >= d * q + d
  <1>1. PICK k \in Nat : p = q + 1 + k
    <2>1. p - q - 1 \in Nat /\ p = q + 1 + (p - q - 1)
      OBVIOUS
    <2> QED BY <2>1
  <1>2. d * p = d * q + d + d * k /\ d * k \in Nat /\ d * q \in Int
    BY <1>1
  <1> QED BY <1>2

\* A product of positive numbers is positive.
LEMMA Product ==
  ASSUME NEW a \in Nat \ {0}, NEW b \in Nat \ {0}
  PROVE  a * b \in Nat \ {0}
  <1>1. a * b >= a * 0 + a /\ a * b \in Nat /\ a * 0 = 0
    BY Multiple
  <1> QED BY <1>1

\* There is one remainder.
LEMMA Remainder ==
  ASSUME NEW d \in Nat \ {0}, NEW a \in Int, NEW q \in Int, NEW r \in 0..(d - 1), a = d * q + r
  PROVE  a % d = r /\ a \div d = q
  <1> DEFINE p == a \div d
             s == a % d
  <1>1. a = d * p + s /\ s \in 0..(d - 1) /\ p \in Int
    BY Division
  <1> HIDE DEF p, s
  <1>2. d * p \in Int /\ d * q \in Int
    BY <1>1
  <1>3. ~(p < q)
    BY <1>1, <1>2, Multiple
  <1>4. ~(q < p)
    BY <1>1, <1>2, Multiple
  <1>5. p = q /\ s = r
    BY <1>1, <1>2, <1>3, <1>4
  <1> QED BY <1>5 DEF p, s

\* Division by a product is division twice.
LEMMA DivTwice ==
  ASSUME NEW a \in Int, NEW d \in Nat \ {0}, NEW e \in Nat \ {0}
  PROVE  a \div (d * e) = (a \div d) \div e
  <1> DEFINE p == a \div d
             s == a % d
             q == p \div e
             t == p % e
  <1>1. a = d * p + s /\ s \in 0..(d - 1) /\ p \in Int
    BY Division
  <1>2. p = e * q + t /\ t \in 0..(e - 1) /\ q \in Int
    BY <1>1, Division
  <1> HIDE DEF p, s, q, t
  <1>3. a = (d * e) * q + (d * t + s)
    BY <1>1, <1>2
  <1>4. d * t + s \in 0..(d * e - 1) /\ d * e \in Nat \ {0}
    <2>1. d * t \in Nat /\ d * e \in Nat
      BY <1>2
    <2>2. d * e >= d * t + d
      BY <1>2, Multiple
    <2> QED BY <1>1, <2>1, <2>2
  <1>5. a \div (d * e) = q
    BY <1>2, <1>3, <1>4, Remainder
  <1> QED BY <1>5 DEF q, p

\* A number of Radix, and what is below it, in four digits.
LEMMA Places ==
  ASSUME NEW R \in Nat \ {0}, NEW w \in Nat \ {0}, NEW n \in Int, NEW d \in 0..(R - 1),
         NEW low \in 0..(w - 1)
  PROVE  /\ d * w + low \in 0..(R * w - 1) /\ R * w \in Nat \ {0}
         /\ w * (R * n + d) + low = (R * w) * n + (d * w + low)
  <1>1. d * w \in Nat /\ R * w \in Nat /\ w * d = d * w /\ w * R = R * w
    OBVIOUS
  <1>2. w * R >= w * d + w
    BY Multiple
  <1>3. R * w # 0 /\ d * w + low <= R * w - 1 /\ d * w + low \in Nat
    BY <1>1, <1>2
  <1>4. w * (R * n + d) + low = (R * w) * n + (d * w + low)
    OBVIOUS
  <1> QED BY <1>1, <1>3, <1>4

\* The four bytes that carry a count are the count, as a number of 32 bits.
LEMMA FourBytes ==
  ASSUME NEW n \in Nat
  PROVE  /\ Counts \in Nat \ {0}
         /\ ((n \div Weight(0)) % Radix) * Weight(0) + ((n \div Weight(1)) % Radix) * Weight(1)
              + ((n \div Weight(2)) % Radix) * Weight(2) + ((n \div Weight(3)) % Radix) * Weight(3)
              = n % Counts
  <1> DEFINE R == Radix
             n1 == n \div R    d0 == n % R
             n2 == n1 \div R   d1 == n1 % R
             n3 == n2 \div R   d2 == n2 % R
             n4 == n3 \div R   d3 == n3 % R
             w2 == R * R
             w3 == R * w2
             w4 == R * w3
  <1>0. R \in Nat \ {0} /\ R * R \in Nat \ {0} /\ n \in Int
    <2>1. R \in Nat \ {0} /\ n \in Int
      BY RadixAssumption DEF QUAD
    <2> QED BY <2>1, Product, Zenon
  <1>1. n = R * n1 + d0 /\ d0 \in 0..(R - 1) /\ n1 \in Int
    BY <1>0, Division
  <1>2. n1 = R * n2 + d1 /\ d1 \in 0..(R - 1) /\ n2 \in Int
    BY <1>0, <1>1, Division
  <1>3. n2 = R * n3 + d2 /\ d2 \in 0..(R - 1) /\ n3 \in Int
    BY <1>0, <1>2, Division
  <1>4. n3 = R * n4 + d3 /\ d3 \in 0..(R - 1) /\ n4 \in Int
    BY <1>0, <1>3, Division
  <1>5. n \div 1 = n /\ n \div R = n1 /\ n \div (R * R) = n2 /\ n \div ((R * R) * R) = n3
    <2>1. n \div 1 = n
      OBVIOUS
    <2>2. n \div (R * R) = n2
      BY <1>0, DivTwice, Zenon
    <2>3. n \div ((R * R) * R) = n3
      BY <1>0, <2>2, DivTwice, Zenon
    <2> QED BY <2>1, <2>2, <2>3
  <1>6. /\ Weight(0) = 1 /\ Weight(1) = R /\ Weight(2) = w2 /\ Weight(3) = w3
        /\ (R * R) * R = w3 /\ Counts = w4
    <2>1. (R * R) * R = R * (R * R) /\ Radix * Radix * Radix = R * (R * R)
      BY <1>0
    <2> QED BY <2>1, Weights DEF Counts
  <1> DEFINE s2 == d1 * R + d0
             s3 == d2 * w2 + s2
             s4 == d3 * w3 + s3
  <1> HIDE DEF R, n1, n2, n3, n4, d0, d1, d2, d3
  <1>7. s2 \in 0..(w2 - 1) /\ w2 \in Nat \ {0} /\ n = w2 * n2 + s2
    BY <1>0, <1>1, <1>2, Places
  <1> HIDE DEF s2, w2
  <1>8. s3 \in 0..(w3 - 1) /\ w3 \in Nat \ {0} /\ n = w3 * n3 + s3
    BY <1>0, <1>3, <1>7, Places
  <1> HIDE DEF s3, w3
  <1>9. s4 \in 0..(w4 - 1) /\ w4 \in Nat \ {0} /\ n = w4 * n4 + s4
    BY <1>0, <1>4, <1>8, Places
  <1> HIDE DEF s4, w4
  <1>10. n % w4 = s4
    BY <1>4, <1>9, Remainder
  <1>11. d0 * 1 + d1 * R + d2 * w2 + d3 * w3 = s4
    <2>1. d0 \in Int /\ d1 * R \in Int /\ d2 * w2 \in Int /\ d3 * w3 \in Int
      BY <1>0, <1>1, <1>2, <1>3, <1>4, <1>7, <1>8
    <2> QED BY <2>1 DEF s2, s3, s4
  <1>12. /\ (n \div Weight(0)) % Radix = d0 /\ (n \div Weight(1)) % Radix = d1
         /\ (n \div Weight(2)) % Radix = d2 /\ (n \div Weight(3)) % Radix = d3
    <2>1. (n \div Weight(0)) % R = d0
      BY <1>5, <1>6 DEF d0
    <2>2. (n \div Weight(1)) % R = d1
      BY <1>5, <1>6 DEF d1
    <2>3. (n \div Weight(2)) % R = d2
      <3>1. n \div w2 = n2
        BY <1>5 DEF w2
      <3> QED BY <1>6, <3>1 DEF d2
    <2>4. (n \div Weight(3)) % R = d3
      <3>1. n \div w3 = n3
        BY <1>5, <1>6
      <3> QED BY <1>6, <3>1 DEF d3
    <2> QED BY <2>1, <2>2, <2>3, <2>4 DEF R
  <1> QED BY <1>6, <1>9, <1>10, <1>11, <1>12

\* Counting back from a count of 32 bits.
LEMMA CountBack ==
  ASSUME NEW n \in Nat, NEW k \in 0..n, NEW c \in Nat \ {0}, k < c
  PROVE  ((n % c) - k) % c = (n - k) % c
  <1> DEFINE q == n \div c
             m == n % c
  <1>1. n = c * q + m /\ m \in 0..(c - 1) /\ q \in Int
    BY Division
  <1> HIDE DEF q, m
  <1>2. CASE k <= m
    <2>1. m - k \in 0..(c - 1) /\ n - k = c * q + (m - k) /\ m - k = c * 0 + (m - k)
      BY <1>1, <1>2
    <2>2. (n - k) % c = m - k /\ (m - k) % c = m - k
      BY <1>1, <2>1, Remainder
    <2> QED BY <2>2 DEF m
  <1>3. CASE ~(k <= m)
    <2>1. /\ m - k + c \in 0..(c - 1) /\ q - 1 \in Int /\ n - k \in Int /\ m - k \in Int
          /\ m - k = c * (-1) + (m - k + c)
      BY <1>1, <1>3
    <2>2. n - k = c * (q - 1) + (m - k + c)
      <3>1. c * (q - 1) = c * q - c /\ c * q \in Int
        BY <1>1
      <3> QED BY <1>1, <3>1
    <2>3. (n - k) % c = m - k + c
      BY <1>1, <2>1, <2>2, Remainder
    <2>4. (m - k) % c = m - k + c
      BY <1>1, <2>1, Remainder
    <2> QED BY <2>3, <2>4 DEF m
  <1> QED BY <1>1, <1>2, <1>3

\* Counts in subframes that follow, with at most one lost between them.
LEMMA NextCount ==
  ASSUME NEW a \in Nat, NEW b \in Nat, Subframe(b) = Subframe(a) + 1, b - a \in 1..2
  PROVE  b = a + 1 /\ SetCount(b) = SetCount(a)
  <1>1. b % 4 = (a % 4) + 1 /\ a % 4 \in 0..3
    BY DEF Subframe, QUAD
  <1>2. b = a + 1
    BY <1>1
  <1> QED BY <1>1, <1>2 DEF SetCount, QUAD

\* A set's count is that of its sample with subframe 4.
LEMMA LastCount ==
  ASSUME NEW d \in Nat, Subframe(d) = 4
  PROVE  SetCount(d) = d
  BY DEF Subframe, SetCount, QUAD

\* Four samples with subframes 1 to 4, of which none or one is lost in between,
\* are a set, and their bytes are the count of the last.
LEMMA SetOfFour ==
  ASSUME NEW a \in Sample, NEW b \in Sample, NEW c \in Sample, NEW d \in Sample,
         Sent(a), Sent(b), Sent(c), Sent(d),
         a.frame = 1, b.frame = 2, c.frame = 3, d.frame = 4,
         b.n - a.n \in 1..2, c.n - b.n \in 1..2, d.n - c.n \in 1..2
  PROVE  /\ a.n = d.n - 3 /\ b.n = d.n - 2 /\ c.n = d.n - 1
         /\ d.scbyte * Weight(0) + c.scbyte * Weight(1) + b.scbyte * Weight(2)
              + a.scbyte * Weight(3) = d.n % Counts
  <1>1. /\ a.n \in Nat /\ b.n \in Nat /\ c.n \in Nat /\ d.n \in Nat
        /\ Subframe(a.n) = 1 /\ Subframe(b.n) = 2 /\ Subframe(c.n) = 3 /\ Subframe(d.n) = 4
    BY DEF Sample, Sent
  <1>2. /\ a.n = d.n - 3 /\ b.n = d.n - 2 /\ c.n = d.n - 1
        /\ SetCount(a.n) = d.n /\ SetCount(b.n) = d.n
        /\ SetCount(c.n) = d.n /\ SetCount(d.n) = d.n
    <2>1. b.n = a.n + 1 /\ SetCount(b.n) = SetCount(a.n)
      BY <1>1, NextCount
    <2>2. c.n = b.n + 1 /\ SetCount(c.n) = SetCount(b.n)
      BY <1>1, NextCount
    <2>3. d.n = c.n + 1 /\ SetCount(d.n) = SetCount(c.n)
      BY <1>1, NextCount
    <2>4. SetCount(d.n) = d.n
      BY <1>1, LastCount
    <2>5. a.n = d.n - 3 /\ b.n = d.n - 2 /\ c.n = d.n - 1
      <3>1. PICK i \in Nat : i = a.n
        BY <1>1
      <3>2. b.n = i + 1 /\ c.n = i + 2 /\ d.n = i + 3
        BY <2>1, <2>2, <2>3, <3>1
      <3> QED BY <3>1, <3>2
    <2> QED BY <2>1, <2>2, <2>3, <2>4, <2>5, Zenon
  <1>3. QUAD - 1 = 3 /\ QUAD - 2 = 2 /\ QUAD - 3 = 1 /\ QUAD - 4 = 0
    BY DEF QUAD
  <1>4. /\ a.scbyte = (d.n \div Weight(3)) % Radix /\ b.scbyte = (d.n \div Weight(2)) % Radix
        /\ c.scbyte = (d.n \div Weight(1)) % Radix /\ d.scbyte = (d.n \div Weight(0)) % Radix
    BY <1>1, <1>2, <1>3 DEF Sent, CountByte
  <1> QED BY <1>1, <1>2, <1>4, FourBytes

\* Weights and the number of counts are positive.
LEMMA WeightsNat == Counts \in Nat \ {0} /\ \A k \in 0..3 : Weight(k) \in Nat \ {0}
  <1>1. Radix \in Nat \ {0}
    BY RadixAssumption DEF QUAD
  <1>2. Radix * Radix \in Nat \ {0}
    BY <1>1, Product
  <1>3. Radix * Radix * Radix \in Nat \ {0}
    BY <1>1, <1>2, Product
  <1>4. Counts \in Nat \ {0}
    BY FourBytes
  <1> QED BY <1>1, <1>2, <1>3, <1>4, Weights

-----------------------------------------------------------------------------
(* Types.                                                                   *)

RowType ==
  [n : Nat, sc : 0..(Counts - 1) \union {NoCount}, di : (SUBSET (1..NDI)) \union {NoDi}, upto : Nat]

\* A piece that is no row has the type of one.
LEMMA ScrapType ==
  /\ Scrap \in RowType /\ ~HasMeta(Scrap)
  /\ \A k \in Nat : [Scrap EXCEPT !.n = k] \in RowType /\ ~HasMeta([Scrap EXCEPT !.n = k])
  BY DEF Scrap, RowType, HasMeta, NoCount, NoDi

\* What lies in a new Sample has the type of a sample.
LEMMA GarbageType == Garbage \in Sample
  BY RadixAssumption DEF Garbage, Sample, QUAD

\* Subframes are 1 to 4, and a byte of the count is a byte.
LEMMA SubframeRange ==
  ASSUME NEW n \in Nat
  PROVE  Subframe(n) \in 1..4 /\ CountByte(n) \in 0..(Radix - 1)
  <1>1. Subframe(n) \in 1..4 /\ n % QUAD \in 0..3
    BY DEF Subframe, QUAD
  <1>2. SetCount(n) \in Nat /\ QUAD - Subframe(n) \in 0..3
    BY <1>1 DEF SetCount, QUAD
  <1>3. Weight(QUAD - Subframe(n)) \in Nat \ {0}
    BY <1>2, WeightsNat
  <1>4. SetCount(n) \div Weight(QUAD - Subframe(n)) \in Int
    BY <1>2, <1>3, Division
  <1>5. Radix \in Nat \ {0}
    BY RadixAssumption DEF QUAD
  <1> QED BY <1>1, <1>4, <1>5, Division DEF CountByte

\* The streams that are sent have the stream's invariant.
LEMMA StreamInit ==
  ASSUME Init
  PROVE  stream \in Seq(Sample) /\ StreamInv
  <1>0. PICK start \in Starts, len \in 0..MaxLen, f \in Faults :
          \E di \in [1..len -> DiStates] : stream = StreamOf(start, len, di, f)
    BY DEF Init
  <1>1. PICK di \in [1..len -> DiStates] : stream = StreamOf(start, len, di, f)
    BY <1>0
  <1>2. start \in Nat \ {0} /\ len \in Nat
    BY <1>1, StartsAssumption
  <1> DEFINE Count(i) == IF f.kind = "lost" /\ i >= f.at THEN start + i ELSE start + i - 1
             Damaged(i) == f.kind = "damaged" /\ i = f.at
             Of(i) == [n |-> Count(i), id |-> ~Damaged(i), frame |-> Subframe(Count(i)),
                       scbyte |-> CountByte(Count(i)), di |-> di[i]]
  <1>3. stream = [i \in 1..len |-> Of(i)]
    BY <1>1 DEF StreamOf, SampleOf
  <1>4. /\ \A i \in 1..len : Count(i) \in Nat \ {0}
        /\ \A i, j \in 1..len : i < j => Count(j) - Count(i) \in {j - i, j - i + 1}
    <2>1. \A i \in 1..len : Count(i) \in {start + i, start + i - 1}
      OBVIOUS
    <2>2. f.at \in Int
      BY StartsAssumption DEF Faults
    <2> QED BY <1>2, <2>1, <2>2
  <1>5. \A i \in 1..len : di[i] \in SUBSET (1..NDI)
    BY DiAssumption
  <1>9. \A i \in 1..len : (~Damaged(i)) \in BOOLEAN
    OBVIOUS
  <1> HIDE DEF Count, Damaged
  <1>6. ASSUME NEW i \in 1..len PROVE Of(i) \in Sample
    <2>1. Subframe(Count(i)) \in 1..4 /\ CountByte(Count(i)) \in 0..(Radix - 1)
      BY <1>4, SubframeRange
    <2> QED BY <1>4, <1>5, <1>9, <2>1 DEF Sample
  <1>7. stream \in Seq(Sample) /\ Len(stream) = len /\ \A i \in 1..len : stream[i] = Of(i)
    BY <1>2, <1>3, <1>6
  <1>8. \A i \in 1..len : stream[i].n = Count(i) /\ Sent(stream[i])
    BY <1>4, <1>7 DEF Sent
  <1> QED BY <1>4, <1>7, <1>8 DEF StreamInv

-----------------------------------------------------------------------------
(* The output.                                                              *)

\* Sets with nothing in common add up.
LEMMA DisjointUnion ==
  ASSUME NEW S, NEW T, IsFiniteSet(S), IsFiniteSet(T), S \intersect T = {}
  PROVE  IsFiniteSet(S \union T) /\ Cardinality(S \union T) = Cardinality(S) + Cardinality(T)
  <1>1. /\ IsFiniteSet(S \union T)
        /\ Cardinality(S \union T) =
             Cardinality(S) + Cardinality(T) - Cardinality(S \intersect T)
    BY FS_Union
  <1>2. /\ Cardinality(S) \in Nat /\ Cardinality(T) \in Nat
        /\ Cardinality(S \intersect T) = 0
    BY FS_CardinalityType, FS_EmptySet
  <1> QED BY <1>1, <1>2

\* What rows put behind the output add to it.
LEMMA RowsAppended ==
  ASSUME NEW o \in Seq(RowType), NEW p \in Seq(RowType), \A j \in 1..Len(p) : HasMeta(p[j])
  PROVE  /\ o \o p \in Seq(RowType) /\ Len(o \o p) = Len(o) + Len(p)
         /\ \A i \in 1..Len(o) : (o \o p)[i] = o[i]
         /\ \A j \in 1..Len(p) : (o \o p)[Len(o) + j] = p[j]
         /\ MetaRows(o \o p) = MetaRows(o) \union ((Len(o) + 1)..(Len(o) + Len(p)))
         /\ IsFiniteSet(MetaRows(o))
         /\ Cardinality(MetaRows(o \o p)) = Cardinality(MetaRows(o)) + Len(p)
  <1> DEFINE new == (Len(o) + 1)..(Len(o) + Len(p))
  <1>1. Len(o) \in Nat /\ Len(p) \in Nat /\ o \o p \in Seq(RowType)
    OBVIOUS
  <1>2. Len(o \o p) = Len(o) + Len(p)
    BY <1>1
  <1>3. \A i \in 1..Len(o) : (o \o p)[i] = o[i]
    BY <1>1
  <1>4. \A j \in 1..Len(p) : (o \o p)[Len(o) + j] = p[j]
    BY <1>1
  <1>5. MetaRows(o \o p) = MetaRows(o) \union new
    <2>1. ASSUME NEW i \in MetaRows(o \o p) PROVE i \in MetaRows(o) \union new
      BY <1>1, <1>2, <1>3, <2>1 DEF MetaRows
    <2>2. ASSUME NEW i \in MetaRows(o) PROVE i \in MetaRows(o \o p)
      BY <1>1, <1>2, <1>3 DEF MetaRows
    <2>3. ASSUME NEW i \in new PROVE i \in MetaRows(o \o p)
      <3>1. i - Len(o) \in 1..Len(p) /\ Len(o) + (i - Len(o)) = i /\ i \in 1..Len(o \o p)
        BY <1>1, <1>2
      <3>2. (o \o p)[i] = p[i - Len(o)]
        BY <1>4, <3>1
      <3> QED BY <3>1, <3>2 DEF MetaRows
    <2> QED BY <2>1, <2>2, <2>3
  <1>6. IsFiniteSet(MetaRows(o)) /\ IsFiniteSet(new)
    <2>1. MetaRows(o) \subseteq 1..Len(o)
      BY DEF MetaRows
    <2>2. IsFiniteSet(1..Len(o)) /\ IsFiniteSet(new)
      BY <1>1, FS_Interval
    <2> QED BY <2>1, <2>2, FS_Subset
  <1>7. Cardinality(new) = Len(p)
    <2>1. PICK lo \in Int, hi \in Int : lo = Len(o) + 1 /\ hi = Len(o) + Len(p)
      BY <1>1
    <2>2. Cardinality(lo..hi) = IF lo > hi THEN 0 ELSE hi - lo + 1
      BY FS_Interval
    <2> QED BY <1>1, <2>1, <2>2
  <1>8. MetaRows(o) \intersect new = {}
    BY <1>1 DEF MetaRows
  <1> HIDE DEF new
  <1>9. Cardinality(MetaRows(o) \union new) = Cardinality(MetaRows(o)) + Cardinality(new)
    BY <1>6, <1>8, DisjointUnion
  <1> QED BY <1>1, <1>2, <1>3, <1>4, <1>5, <1>6, <1>7, <1>9 DEF new

\* A piece that is no row.
LEMMA ScrapAppended ==
  ASSUME NEW o \in Seq(RowType), NEW x \in RowType, ~HasMeta(x)
  PROVE  /\ Append(o, x) \in Seq(RowType) /\ Len(Append(o, x)) = Len(o) + 1
         /\ \A i \in 1..Len(o) : Append(o, x)[i] = o[i]
         /\ MetaRows(Append(o, x)) = MetaRows(o)
  <1>1. Len(o) \in Nat /\ Append(o, x) \in Seq(RowType)
    OBVIOUS
  <1>2. /\ Len(Append(o, x)) = Len(o) + 1 /\ Append(o, x)[Len(o) + 1] = x
        /\ \A i \in 1..Len(o) : Append(o, x)[i] = o[i]
    BY <1>1
  <1>3. MetaRows(Append(o, x)) = MetaRows(o)
    BY <1>1, <1>2 DEF MetaRows
  <1> QED BY <1>1, <1>2, <1>3

\* The four slots.
LEMMA SlotsAre == Slots = 0..3 /\ QUAD = 4 /\ Slots = {0, 1, 2, 3}
  BY DEF Slots, QUAD

\* The set that writev gives out is rows, one for each slot behind the residue.
LEMMA RowsType ==
  ASSUME TypeOK
  PROVE  /\ Rows \in Seq(RowType) /\ Len(Rows) = QUAD - i0 /\ QUAD - i0 \in 1..4
         /\ \A r \in 1..(QUAD - i0) : Rows[r] = Row(r - 1) /\ HasMeta(Rows[r])
  <1>1. i0 \in 0..3 /\ QUAD - i0 \in 1..4
    BY SlotsAre DEF TypeOK
  <1>2. ASSUME NEW r \in 1..(QUAD - i0) PROVE Row(r - 1) \in RowType /\ HasMeta(Row(r - 1))
    <2>1. r - 1 \in Slots
      BY <1>1, SlotsAre
    <2>2. samples[r - 1].n \in Nat /\ tot_samples \in Nat
      BY <2>1 DEF TypeOK, Sample
    <2>3. meta[r - 1].sc \in 0..(Counts - 1) /\ meta[r - 1].di \in SUBSET (1..NDI)
      BY <2>1 DEF TypeOK
    <2>4. meta[r - 1].sc # NoCount
      BY <2>3, WeightsNat DEF NoCount
    <2> QED BY <2>2, <2>3, <2>4 DEF Row, RowType, HasMeta
  <1>3. Rows = [r \in 1..(QUAD - i0) |-> Row(r - 1)]
    BY DEF Rows
  <1> HIDE DEF Row
  <1>4. \A r \in 1..(QUAD - i0) : Rows[r] = Row(r - 1)
    BY <1>3
  <1>5. Rows \in Seq(RowType) /\ Len(Rows) = QUAD - i0
    BY <1>1, <1>2, <1>3
  <1> QED BY <1>1, <1>2, <1>4, <1>5

\* The steps that end the program, and those before the first read.
Stop ==
  /\ pc' \in {"done", "error"} /\ UNCHANGED <<input, src, set, stale, cut>>
  /\ out' \in Seq(RowType) /\ MetaRows(out') = MetaRows(out)
  /\ \A i \in MetaRows(out) : out'[i] = out[i]
Enter ==
  /\ pc \in {"ui", "main"} /\ pc' \in {"main", "read"}
  /\ UNCHANGED <<input, src, set, out, stale, cut>>

\* The writes: k rows of the set are given out, all of them or, if the write is
\* cut, fewer.
Gives(k) ==
  /\ MetaRows(out') = MetaRows(out) \union ((Len(out) + 1)..(Len(out) + k))
  /\ Cardinality(MetaRows(out')) = Cardinality(MetaRows(out)) + k
  /\ \A i \in MetaRows(out) : out'[i] = out[i]
  /\ \A r \in 1..k : out'[Len(out) + r] = Row(r - 1)
  /\ outfile = "none" \/ (cut' = cut /\ k = QUAD - i0) \/ cut' = cut + 1
Wrote ==
  /\ pc = "write" /\ pc' = "read" /\ UNCHANGED <<input, src, set, stale>>
  /\ out' \in Seq(RowType) /\ cut' \in {cut, cut + 1} /\ cut' \in 0..MaxCuts
  /\ \E k \in 0..(QUAD - i0) : Gives(k)

\* A step that ends the program changes no row.
LEMMA EndsStops ==
  ASSUME TypeOK, NEW w \in Seq(RowType), MetaRows(w) = MetaRows(out),
         \A i \in MetaRows(out) : w[i] = out[i],
         NEW state \in {"done", "error"}, Ends(state, w)
  PROVE  Stop
  <1>1. pc' \in {"done", "error"} /\ UNCHANGED <<input, src, set, stale, cut>>
    BY DEF Ends
  <1>2. out' = w \/ out' = Append(w, Scrap)
    BY DEF Ends
  <1>3. /\ Append(w, Scrap) \in Seq(RowType) /\ MetaRows(Append(w, Scrap)) = MetaRows(w)
        /\ \A i \in 1..Len(w) : Append(w, Scrap)[i] = w[i]
    BY ScrapType, ScrapAppended
  <1>4. MetaRows(w) \subseteq 1..Len(w)
    BY DEF MetaRows
  <1> QED BY <1>1, <1>2, <1>3, <1>4 DEF Stop

\* The output is a sequence of pieces.
LEMMA OutType ==
  ASSUME TypeOK
  PROVE  out \in Seq(RowType)
  BY DEF TypeOK, RowType

\* What a write gives out.
LEMMA WriteGives ==
  ASSUME TypeOK, Write \/ WriteCut
  PROVE  Wrote
  <1>1. out \in Seq(RowType) /\ Len(out) \in Nat
    BY OutType
  <1>2. /\ Rows \in Seq(RowType) /\ Len(Rows) = QUAD - i0 /\ QUAD - i0 \in 1..4
        /\ \A r \in 1..(QUAD - i0) : Rows[r] = Row(r - 1) /\ HasMeta(Rows[r])
    BY RowsType
  <1> DEFINE Begins(p) ==
               /\ Len(p) <= QUAD - i0 /\ \A r \in 1..Len(p) : p[r] = Rows[r]
               /\ outfile = "none" \/ (cut' = cut /\ Len(p) = QUAD - i0)
  <1>3. ASSUME NEW p \in Seq(RowType), Begins(p), out' = out \o p
        PROVE  out' \in Seq(RowType) /\ \E k \in 0..(QUAD - i0) : Gives(k)
    <2>1. Len(p) \in 0..(QUAD - i0) /\ \A j \in 1..Len(p) : HasMeta(p[j])
      BY <1>2, <1>3
    <2>2. /\ out \o p \in Seq(RowType)
          /\ \A i \in 1..Len(out) : (out \o p)[i] = out[i]
          /\ \A j \in 1..Len(p) : (out \o p)[Len(out) + j] = p[j]
          /\ MetaRows(out \o p) = MetaRows(out) \union ((Len(out) + 1)..(Len(out) + Len(p)))
          /\ Cardinality(MetaRows(out \o p)) = Cardinality(MetaRows(out)) + Len(p)
      BY <1>1, <2>1, RowsAppended
    <2>3. \A i \in MetaRows(out) : out'[i] = out[i]
      BY <1>3, <2>2 DEF MetaRows
    <2>4. \A r \in 1..Len(p) : out'[Len(out) + r] = Row(r - 1)
      BY <1>2, <1>3, <2>1, <2>2
    <2>5. Gives(Len(p))
      BY <1>3, <2>2, <2>3, <2>4 DEF Gives
    <2> QED BY <1>3, <2>1, <2>2, <2>5
  <1>4. CASE Write
    <2>1. /\ pc = "write" /\ pc' = "read" /\ UNCHANGED <<input, src, set, stale, cut>>
          /\ cut \in 0..MaxCuts
      BY <1>4 DEF Write, TypeOK
    <2>2. CASE outfile = "none"
      <3>1. out' = out \o <<>>
        BY <1>1, <1>4, <2>2 DEF Write
      <3>2. out' \in Seq(RowType) /\ \E k \in 0..(QUAD - i0) : Gives(k)
        <4>1. <<>> \in Seq(RowType) /\ Len(<<>>) = 0
          OBVIOUS
        <4>2. Begins(<<>>)
          BY <1>2, <2>2, <4>1
        <4> HIDE DEF Begins
        <4> QED BY <1>3, <3>1, <4>1, <4>2
      <3> QED BY <2>1, <3>2 DEF Wrote
    <2>3. CASE outfile # "none"
      <3>1. out' = out \o Rows
        BY <1>4, <2>3 DEF Write
      <3>2. out' \in Seq(RowType) /\ \E k \in 0..(QUAD - i0) : Gives(k)
        <4>1. Begins(Rows)
          BY <1>2, <2>1
        <4> HIDE DEF Begins
        <4> QED BY <1>2, <1>3, <3>1, <4>1
      <3> QED BY <2>1, <3>2 DEF Wrote
    <2> QED BY <2>2, <2>3
  <1>5. CASE WriteCut
    <2>1. PICK k \in 0..(Len(Rows) - 1), torn \in {<<>>, <<Scrap>>} :
            out' = out \o SubSeq(Rows, 1, k) \o torn
      BY <1>5 DEF WriteCut
    <2>2. /\ pc = "write" /\ pc' = "read" /\ UNCHANGED <<input, src, set, stale>>
          /\ cut' = cut + 1 /\ cut' \in 0..MaxCuts
      BY <1>5, CutsAssumption DEF WriteCut, TypeOK
    <2> DEFINE p == SubSeq(Rows, 1, k)
               o == out \o p
    <2>3. /\ p \in Seq(RowType) /\ Len(p) = k /\ k \in 0..(QUAD - i0)
          /\ \A r \in 1..k : p[r] = Rows[r]
      BY <1>2
    <2>4. /\ o \in Seq(RowType)
          /\ \A i \in 1..Len(out) : o[i] = out[i]
          /\ \A j \in 1..k : o[Len(out) + j] = p[j]
          /\ MetaRows(o) = MetaRows(out) \union ((Len(out) + 1)..(Len(out) + k))
          /\ Cardinality(MetaRows(o)) = Cardinality(MetaRows(out)) + k
          /\ Len(o) = Len(out) + k
      <3> HIDE DEF p
      <3>1. \A j \in 1..Len(p) : HasMeta(p[j])
        BY <1>2, <2>3
      <3> QED BY <1>1, <2>3, <3>1, RowsAppended
    <2> HIDE DEF p, o
    <2>5. /\ out' \in Seq(RowType) /\ MetaRows(out') = MetaRows(o)
          /\ \A i \in 1..Len(o) : out'[i] = o[i]
      <3>1. out' = o \o torn
        BY <2>1 DEF o, p
      <3>2. CASE torn = <<>>
        BY <2>4, <3>1, <3>2
      <3>3. CASE torn = <<Scrap>>
        <4>1. out' = Append(o, Scrap)
          BY <2>4, <3>1, <3>3
        <4> QED BY <2>4, <4>1, ScrapType, ScrapAppended
      <3> QED BY <3>2, <3>3
    <2>6. \A i \in MetaRows(out) : i \in 1..Len(o) /\ out'[i] = out[i]
      BY <1>1, <2>3, <2>4, <2>5 DEF MetaRows
    <2>7. \A r \in 1..k : out'[Len(out) + r] = Row(r - 1)
      <3> SUFFICES ASSUME NEW r \in 1..k PROVE out'[Len(out) + r] = Row(r - 1)
        OBVIOUS
      <3>1. Len(out) + r \in 1..Len(o) /\ r \in 1..(QUAD - i0)
        BY <1>1, <1>2, <2>3, <2>4
      <3> QED BY <1>2, <2>3, <2>4, <2>5, <3>1
    <2>8. Gives(k)
      BY <2>2, <2>4, <2>5, <2>6, <2>7 DEF Gives
    <2> QED BY <2>2, <2>3, <2>5, <2>8 DEF Wrote
  <1> QED BY <1>4, <1>5

\* What a step can do.
LEMMA Steps ==
  ASSUME TypeOK, Next
  PROVE  Enter \/ Stop \/ Read \/ (\E ii \in Slots : DecodeSet(ii)) \/ Wrote
  <1>1. out \in Seq(RowType)
    BY OutType
  <1>2. ASSUME NEW state \in {"done", "error"}, Ends(state, out) PROVE Stop
    BY <1>1, <1>2, EndsStops
  <1>3. CASE Ui \/ Main
    BY <1>2, <1>3 DEF Ui, Main, Goto, Enter
  <1>4. CASE End \/ BadSequence \/ WriteFails
    BY <1>2, <1>4 DEF End, BadSequence, WriteFails
  <1>5. ASSUME NEW s \in Slots, NotValid(s) PROVE Stop
    <2> DEFINE x == [Scrap EXCEPT !.n = samples[s].n]
    <2>1. samples[s].n \in Nat
      BY DEF TypeOK, Sample
    <2>2. x \in RowType /\ ~HasMeta(x)
      BY <2>1, ScrapType
    <2>3. Ends("error", Append(out, x))
      BY <1>5 DEF NotValid
    <2> HIDE DEF x
    <2>4. /\ Append(out, x) \in Seq(RowType) /\ MetaRows(Append(out, x)) = MetaRows(out)
          /\ \A i \in 1..Len(out) : Append(out, x)[i] = out[i]
      BY <1>1, <2>2, ScrapAppended
    <2>5. \A i \in MetaRows(out) : Append(out, x)[i] = out[i]
      BY <2>4 DEF MetaRows
    <2> QED BY <2>3, <2>4, <2>5, EndsStops
  <1>6. CASE Write \/ WriteCut
    BY <1>6, WriteGives
  <1> QED BY <1>3, <1>4, <1>5, <1>6 DEF Next

\* What a read puts into the free slots: stdin has been read to top, and st slots
\* could not be filled.
Filled(top, st) ==
  /\ src' = top /\ stale' = st /\ src < top /\ top <= Len(stream) /\ top + st = src + QUAD - i0
  /\ st > 0 => top = Len(stream)
  /\ \A s \in Slots : i0 <= s /\ s < QUAD - st =>
       src + s - i0 + 1 \in 1..Len(stream) /\ samples'[s] = stream[src + s - i0 + 1]
  /\ \A s \in Slots : s < i0 \/ s >= QUAD - st => samples'[s] = samples[s]

\* What fread does.
LEMMA ReadFills ==
  ASSUME TypeOK, Read
  PROVE  /\ pc = "read" /\ pc' = "decode" /\ UNCHANGED <<input, i0, meta, counters, out, cut>>
         /\ i0 \in 0..3 /\ src \in Nat /\ Len(stream) \in Nat /\ QUAD = 4
         /\ samples' \in [Slots -> Sample]
         /\ \E top \in Nat, st \in 0..3 : Filled(top, st)
  <1> DEFINE rc == Least(QUAD - i0, Len(stream) - src)
             top == src + rc
             st == QUAD - i0 - rc
  <1>1. i0 \in 0..3 /\ src \in 0..Len(stream) /\ Len(stream) \in Nat /\ QUAD = 4
    BY SlotsAre DEF TypeOK
  <1>2. /\ rc > 0
        /\ samples' = [s \in Slots |->
             IF s >= i0 /\ s < i0 + rc THEN stream[src + s - i0 + 1] ELSE samples[s]]
        /\ src' = src + rc /\ stale' = QUAD - i0 - rc
        /\ pc = "read" /\ pc' = "decode" /\ UNCHANGED <<input, i0, meta, counters, out, cut>>
    BY DEF Read
  <1>3. /\ rc \in 1..4 /\ rc <= QUAD - i0 /\ rc <= Len(stream) - src
        /\ rc = QUAD - i0 \/ rc = Len(stream) - src
    BY <1>1, <1>2 DEF Least
  <1> HIDE DEF rc
  <1>4. /\ src < top /\ top <= Len(stream) /\ top \in Nat /\ st \in 0..3
        /\ top + st = src + QUAD - i0 /\ i0 + rc = QUAD - st
        /\ st > 0 => top = Len(stream)
    BY <1>1, <1>3
  <1>5. \A s \in Slots : i0 <= s /\ s < i0 + rc => src + s - i0 + 1 \in 1..Len(stream)
    BY <1>1, <1>3, SlotsAre
  <1>6. \A s \in Slots : IF s >= i0 /\ s < i0 + rc
                           THEN samples'[s] = stream[src + s - i0 + 1]
                           ELSE samples'[s] = samples[s]
    BY <1>2
  <1>7. \A k \in 1..Len(stream) : stream[k] \in Sample
    BY DEF TypeOK
  <1>8. samples' \in [Slots -> Sample]
    <2>1. \A s \in Slots : samples[s] \in Sample
      BY DEF TypeOK
    <2>2. \A s \in Slots :
            (IF s >= i0 /\ s < i0 + rc THEN stream[src + s - i0 + 1] ELSE samples[s]) \in Sample
      BY <1>5, <1>7, <2>1
    <2> QED BY <1>2, <2>2
  <1>9. src' = top /\ stale' = st
    BY <1>2
  <1> HIDE DEF top, st
  <1>10. \A s \in Slots : /\ i0 <= s /\ s < QUAD - st => s >= i0 /\ s < i0 + rc
                          /\ s < i0 \/ s >= QUAD - st => ~(s >= i0 /\ s < i0 + rc)
    BY <1>1, <1>3, <1>4, SlotsAre
  <1>11. \A s \in Slots : i0 <= s /\ s < QUAD - st =>
              src + s - i0 + 1 \in 1..Len(stream) /\ samples'[s] = stream[src + s - i0 + 1]
    BY <1>5, <1>6, <1>10
  <1>12. \A s \in Slots : s < i0 \/ s >= QUAD - st => samples'[s] = samples[s]
    BY <1>6, <1>10
  <1>13. Filled(top, st)
    BY <1>4, <1>9, <1>11, <1>12 DEF Filled
  <1> QED BY <1>1, <1>2, <1>4, <1>8, <1>13

\* What decode does to the slots, and what it found there.
LEMMA DecodeMoves ==
  ASSUME TypeOK, NEW ii \in Slots, DecodeSet(ii)
  PROVE  /\ pc = "decode" /\ pc' = "write" /\ UNCHANGED <<input, src, out, stale, cut>>
         /\ ii \in 0..3 /\ i0 \in 0..3 /\ i0 <= ii /\ tot_samples' = tot_samples + (ii - i0) + 1
         /\ i0' = 3 - ii /\ tot_samples \in Nat /\ tot_samples' \in Nat
         /\ \A s \in Slots :
              s + ii < 3 => ii + 1 + s \in Slots /\ samples'[s] = samples[ii + 1 + s]
         /\ \A s \in Slots : ~(s + ii < 3) => samples'[s] = samples[s]
         /\ samples[ii].frame = 4
         /\ \A s \in Slots : i0 <= s /\ s <= ii => Valid(s) /\ InSequence(s)
         /\ samples' \in [Slots -> Sample]
  <1>1. /\ ii \in 0..3 /\ i0 \in 0..3 /\ tot_samples \in Nat /\ QUAD = 4
        /\ \A s \in Slots : samples[s] \in Sample
    BY SlotsAre DEF TypeOK
  <1>2. /\ pc = "decode" /\ pc' = "write" /\ UNCHANGED <<input, src, out, stale, cut>>
        /\ tot_samples' = tot_samples + (ii - i0) + 1 /\ i0' = QUAD - 1 - ii
        /\ samples' = Shuffled(ii) /\ EndsAt(ii)
    BY DEF DecodeSet, Residue
  <1>3. /\ ii >= i0 /\ Valid(ii) /\ InSequence(ii) /\ samples[ii].frame = 4
        /\ \A t \in i0..(ii - 1) : Valid(t) /\ InSequence(t)
    BY <1>2 DEF EndsAt, Reaches
  <1>4. \A s \in Slots : i0 <= s /\ s <= ii => Valid(s) /\ InSequence(s)
    <2> SUFFICES ASSUME NEW s \in Slots, i0 <= s, s <= ii PROVE Valid(s) /\ InSequence(s)
      OBVIOUS
    <2>1. s = ii \/ s \in i0..(ii - 1)
      BY <1>1, SlotsAre
    <2> QED BY <1>3, <2>1
  <1>5. \A s \in Slots : /\ s + ii < 3 => ii + 1 + s \in Slots
                         /\ (s < QUAD - 1 - ii) <=> (s + ii < 3)
    BY <1>1, SlotsAre
  <1>6. \A s \in Slots :
          samples'[s] = IF s < QUAD - 1 - ii THEN samples[ii + 1 + s] ELSE samples[s]
    BY <1>2 DEF Shuffled
  <1>7. samples' \in [Slots -> Sample]
    <2>1. samples' = [s \in Slots |->
                        IF s < QUAD - 1 - ii THEN samples[ii + 1 + s] ELSE samples[s]]
      BY <1>2 DEF Shuffled
    <2>2. \A s \in Slots :
            (IF s < QUAD - 1 - ii THEN samples[ii + 1 + s] ELSE samples[s]) \in Sample
      <3>1. \A s \in Slots : s < QUAD - 1 - ii => samples[ii + 1 + s] \in Sample
        BY <1>1, <1>5
      <3> QED BY <1>1, <3>1
    <2> QED BY <2>1, <2>2
  <1>8. i0' = 3 - ii /\ tot_samples' \in Nat
    <2>1. QUAD - 1 - ii = 3 - ii /\ tot_samples + (ii - i0) + 1 \in Nat
      BY <1>1, <1>3
    <2> QED BY <1>2, <2>1
  <1>9. \A s \in Slots : s + ii < 3 => ii + 1 + s \in Slots /\ samples'[s] = samples[ii + 1 + s]
    BY <1>5, <1>6
  <1>10. \A s \in Slots : ~(s + ii < 3) => samples'[s] = samples[s]
    BY <1>5, <1>6
  <1>11. i0 <= ii /\ samples[ii].frame = 4
    BY <1>1, <1>3
  <1> QED BY <1>1, <1>2, <1>4, <1>7, <1>8, <1>9, <1>10, <1>11, Zenon

-----------------------------------------------------------------------------
(* Type correctness.                                                        *)

\* Counts written and edges counted are numbers.
LEMMA DecodeNumbers ==
  ASSUME TypeOK, NEW ii \in 0..3
  PROVE  /\ \A s \in Slots : s <= ii => SampleCount(ii, s) \in 0..(Counts - 1)
         /\ \A b \in 1..NDI : Changes(b, ii) \in Nat
  <1>1. \A s \in Slots : samples[s].scbyte \in Nat
    BY DEF TypeOK, Sample
  <1> DEFINE part(k) == IF k <= ii THEN samples[ii - k].scbyte * Weight(k) ELSE 0
  <1>2. ASSUME NEW k \in 0..3 PROVE part(k) \in Nat
    <2>1. CASE k <= ii
      <3>1. ii - k \in Slots
        BY <2>1, SlotsAre
      <3>2. PICK a \in Nat, w \in Nat : a = samples[ii - k].scbyte /\ w = Weight(k)
        BY <1>1, <3>1, WeightsNat
      <3> QED BY <2>1, <3>2
    <2> QED BY <2>1
  <1>3. Assembled(ii) = part(0) + part(1) + part(2) + part(3)
    BY DEF Assembled
  <1> HIDE DEF part
  <1>4. Assembled(ii) \in Nat
    BY <1>2, <1>3
  <1>5. ASSUME NEW s \in Slots, s <= ii PROVE SampleCount(ii, s) \in 0..(Counts - 1)
    <2>1. Assembled(ii) - (ii - s) \in Int
      BY <1>4, SlotsAre
    <2> QED BY <2>1, WeightsNat, Division DEF SampleCount
  <1>6. ASSUME NEW b \in 1..NDI PROVE Changes(b, ii) \in Nat
    <2> DEFINE S == {ic \in 0..ii : /\ Before(ic) # NoDi
                                    /\ (b \in Before(ic)) # (b \in samples[ic].di)}
    <2>1. IsFiniteSet(0..ii) /\ S \subseteq 0..ii
      BY FS_Interval
    <2> HIDE DEF S
    <2>2. IsFiniteSet(S)
      BY <2>1, FS_Subset
    <2>3. Cardinality(S) \in Nat
      BY <2>2, FS_CardinalityType
    <2> QED BY <2>3 DEF S, Changes
  <1> QED BY <1>5, <1>6

\* A step keeps the types.
LEMMA TypeStep ==
  ASSUME TypeOK, [Next]_vars
  PROVE  TypeOK'
  <1>0. out \in Seq(RowType)
    BY OutType
  <1>1. CASE Enter
    BY <1>1 DEF TypeOK, Enter, input, set, counters
  <1>2. CASE Stop
    BY <1>2 DEF TypeOK, Stop, RowType, input, set, counters
  <1>3. CASE Read
    <2>1. /\ pc' = "decode" /\ UNCHANGED <<input, i0, meta, counters, out, cut>>
          /\ samples' \in [Slots -> Sample] /\ src \in Nat /\ Len(stream) \in Nat
      BY <1>3, ReadFills
    <2>2. PICK top \in Nat, st \in 0..3 : Filled(top, st)
      BY <1>3, ReadFills
    <2>3. src' = top /\ stale' = st /\ top \in 0..Len(stream)
      BY <2>1, <2>2 DEF Filled
    <2> QED BY <2>1, <2>3, SlotsAre DEF TypeOK, input, counters
  <1>4. CASE \E ii \in Slots : DecodeSet(ii)
    <2>1. PICK ii \in Slots : DecodeSet(ii)
      BY <1>4
    <2>2. /\ pc' = "write" /\ UNCHANGED <<input, src, out, stale, cut>>
          /\ ii \in 0..3 /\ i0' \in 0..3 /\ tot_samples' \in Nat
          /\ samples' \in [Slots -> Sample]
      BY <2>1, DecodeMoves
    <2>3. /\ meta' = [s \in Slots |-> IF s <= ii
                        THEN [sc |-> SampleCount(ii, s), di |-> samples[s].di] ELSE meta[s]]
          /\ transitions' = [b \in 1..NDI |-> transitions[b] + Changes(b, ii)]
          /\ di_previous' = samples[ii].di
      BY <2>1 DEF DecodeSet
    <2>4. \A s \in Slots : samples[s].di \in SUBSET (1..NDI)
      BY DEF TypeOK, Sample
    <2>5. meta' \in [Slots -> [sc : 0..(Counts - 1), di : SUBSET (1..NDI)]]
      <3>1. meta \in [Slots -> [sc : 0..(Counts - 1), di : SUBSET (1..NDI)]]
        BY DEF TypeOK
      <3>2. \A s \in Slots : s <= ii => SampleCount(ii, s) \in 0..(Counts - 1)
        BY <2>2, DecodeNumbers
      <3> QED BY <2>3, <2>4, <3>1, <3>2
    <2>6. transitions' \in [1..NDI -> Nat]
      <3>1. transitions \in [1..NDI -> Nat]
        BY DEF TypeOK
      <3>2. \A b \in 1..NDI : Changes(b, ii) \in Nat
        BY <2>2, DecodeNumbers
      <3>3. \A b \in 1..NDI : transitions[b] + Changes(b, ii) \in Nat
        BY <3>1, <3>2
      <3> QED BY <2>3, <3>3
    <2> QED BY <2>2, <2>3, <2>4, <2>5, <2>6, SlotsAre DEF TypeOK, input
  <1>5. CASE Wrote
    BY <1>5 DEF TypeOK, Wrote, RowType, input, set, counters
  <1>6. CASE UNCHANGED vars
    BY <1>6 DEF TypeOK, vars, input, set, counters
  <1> QED BY <1>1, <1>2, <1>3, <1>4, <1>5, <1>6, Steps

-----------------------------------------------------------------------------
(* The stream and the slots.                                                *)

\* No step changes stdin or the option.
LEMMA StreamStays ==
  ASSUME TypeOK, [Next]_vars
  PROVE  UNCHANGED <<stream, outfile>>
  <1>1. CASE Read
    BY <1>1, ReadFills DEF input
  <1>2. CASE \E ii \in Slots : DecodeSet(ii)
    BY <1>2 DEF DecodeSet, input
  <1>3. CASE Enter \/ Stop \/ Wrote \/ UNCHANGED vars
    BY <1>3 DEF Enter, Stop, Wrote, vars, input
  <1> QED BY <1>1, <1>2, <1>3, Steps

\* A step keeps FirstInv: only a decoded set counts samples.
LEMMA FirstStep ==
  ASSUME TypeOK, FirstInv, [Next]_vars
  PROVE  FirstInv'
  <1>1. CASE Enter
    BY <1>1 DEF FirstInv, Enter, input, set, counters
  <1>2. CASE Stop
    BY <1>2 DEF FirstInv, Stop, input, set, counters
  <1>3. CASE Read
    <2>1. /\ pc = "read" /\ pc' = "decode"
          /\ UNCHANGED <<stream, i0, tot_samples, di_previous, out>>
          /\ src \in Nat /\ i0 \in 0..3
      BY <1>3, ReadFills DEF input, counters
    <2>2. PICK top \in Nat, st \in 0..3 : Filled(top, st)
      BY <1>3, ReadFills
    <2>3. src' = top /\ stale' = st /\ top > 0 /\ top + st = src + QUAD - i0
      BY <2>1, <2>2 DEF Filled
    <2>4. ASSUME tot_samples' = 0
          PROVE  /\ di_previous' = NoDi /\ i0' = 0 /\ top = QUAD - st
                 /\ \A s \in Slots : samples'[s] = IF s < top THEN stream[s + 1] ELSE Garbage
      <3>1. /\ src = 0 /\ i0 = 0 /\ di_previous = NoDi /\ \A s \in Slots : samples[s] = Garbage
        BY <2>1, <2>4 DEF FirstInv
      <3>2. top = QUAD - st
        BY <2>3, <3>1, SlotsAre
      <3>3. ASSUME NEW s \in Slots
            PROVE  samples'[s] = IF s < top THEN stream[s + 1] ELSE Garbage
        <4>1. CASE s < top
          <5>1. i0 <= s /\ s < QUAD - st /\ src + s - i0 + 1 = s + 1
            BY <3>1, <3>2, <4>1, SlotsAre
          <5>2. samples'[s] = stream[src + s - i0 + 1]
            BY <2>2, <5>1 DEF Filled
          <5> QED BY <4>1, <5>1, <5>2
        <4>2. CASE ~(s < top)
          <5>1. s >= QUAD - st
            BY <3>2, <4>2, SlotsAre
          <5>2. samples'[s] = samples[s]
            BY <2>2, <5>1 DEF Filled
          <5> QED BY <3>1, <4>2, <5>2
        <4> QED BY <4>1, <4>2
      <3> QED BY <2>1, <3>1, <3>2, <3>3
    <2> QED BY <2>1, <2>3, <2>4 DEF FirstInv
  <1>4. CASE \E ii \in Slots : DecodeSet(ii)
    <2>1. PICK ii \in Slots : DecodeSet(ii)
      BY <1>4
    <2>2. pc = "decode" /\ pc' = "write" /\ src' = src /\ tot_samples' > 0
      <3>1. /\ pc = "decode" /\ pc' = "write" /\ UNCHANGED <<input, src, out, stale, cut>>
            /\ ii \in 0..3 /\ i0 \in 0..3 /\ i0 <= ii
            /\ tot_samples' = tot_samples + (ii - i0) + 1 /\ tot_samples \in Nat
        BY <2>1, DecodeMoves
      <3> QED BY <3>1
    <2> QED BY <2>2 DEF FirstInv
  <1>5. CASE Wrote
    BY <1>5 DEF FirstInv, Wrote, input, set, counters
  <1>6. CASE UNCHANGED vars
    BY <1>6 DEF FirstInv, vars, input, set, counters
  <1> QED BY <1>1, <1>2, <1>3, <1>4, <1>5, <1>6, Steps

\* A step keeps PlaceInv: fread goes on behind the residue, and the shuffle keeps its
\* order.
LEMMA PlaceStep ==
  ASSUME TypeOK, PlaceInv, FirstInv, [Next]_vars
  PROVE  PlaceInv'
  <1>0. i0 \in 0..3 /\ src \in Nat /\ QUAD = 4
    BY SlotsAre DEF TypeOK
  <1>1. CASE Enter
    BY <1>0, <1>1, SlotsAre DEF PlaceInv, FirstInv, Holds, Enter, input, set, counters
  <1>2. CASE Stop
    BY <1>2 DEF PlaceInv, Stop, input, set, counters
  <1>3. CASE Read
    <2>1. pc = "read" /\ pc' = "decode" /\ UNCHANGED <<stream, i0>> /\ Len(stream) \in Nat
      BY <1>3, ReadFills DEF input
    <2>2. PICK top \in Nat, st \in 0..3 : Filled(top, st)
      BY <1>3, ReadFills
    <2>3. /\ src' = top /\ stale' = st /\ src < top /\ top <= Len(stream)
          /\ top + st = src + QUAD - i0
          /\ st > 0 => top = Len(stream)
      BY <2>2 DEF Filled
    <2>4. stale = 0
      <3>1. stale \in 0..3 /\ (stale > 0 => src = Len(stream))
        BY SlotsAre DEF PlaceInv, TypeOK
      <3> QED BY <1>0, <2>1, <2>3, <3>1
    <2>5. ASSUME st = 0
          PROVE  top - 3 = src - i0 + 1
      <3>1. top + st = src + QUAD - i0
        BY <2>3
      <3> QED BY <1>0, <2>5, <3>1
    <2>6. ASSUME st = 0, NEW s \in Slots
          PROVE  /\ top - 3 + s \in 1..Len(stream)
                 /\ samples'[s] = stream[top - 3 + s]
      <3>0. src - i0 + 1 = top - 3 /\ s \in 0..3
        BY <2>5, <2>6, SlotsAre
      <3>1. CASE s < i0
        <4>1. samples'[s] = samples[s]
          BY <2>2, <3>1 DEF Filled
        <4>2. Holds(s, src - i0 + 1 + s)
          BY <2>1, <2>4, <3>1 DEF PlaceInv
        <4> QED BY <3>0, <4>1, <4>2 DEF Holds
      <3>2. CASE ~(s < i0)
        <4>1. i0 <= s /\ s < QUAD - st
          BY <1>0, <2>6, <3>0, <3>2
        <4>2. src + s - i0 + 1 \in 1..Len(stream) /\ samples'[s] = stream[src + s - i0 + 1]
          BY <2>2, <4>1 DEF Filled
        <4>3. src + s - i0 + 1 = src - i0 + 1 + s
          BY <1>0, <3>0
        <4> QED BY <3>0, <4>2, <4>3
      <3> QED BY <3>1, <3>2
    <2>7. stale' > 0 => src' = Len(stream')
      BY <2>1, <2>3
    <2>8. ASSUME stale' = 0, NEW s \in Slots PROVE Holds(s, src - QUAD + 1 + s)'
      <3>1. st = 0 /\ src' - QUAD + 1 + s = top - 3 + s
        <4>1. top - QUAD + 1 + s = top - 3 + s
          BY <1>0, SlotsAre
        <4>2. src' = top /\ st = 0
          BY <2>3, <2>8
        <4> QED BY <4>1, <4>2
      <3>2. top - 3 + s \in 1..Len(stream) /\ samples'[s] = stream[top - 3 + s]
        BY <2>6, <3>1
      <3> QED BY <2>1, <3>1, <3>2 DEF Holds
    <2> QED BY <2>1, <2>7, <2>8 DEF PlaceInv
  <1>4. CASE \E ii \in Slots : DecodeSet(ii)
    <2>1. PICK ii \in Slots : DecodeSet(ii)
      BY <1>4
    <2>2. /\ pc = "decode" /\ pc' = "write" /\ UNCHANGED <<stream, src, stale>>
          /\ ii \in 0..3 /\ i0' = 3 - ii
          /\ \A s \in Slots :
               s + ii < 3 => ii + 1 + s \in Slots /\ samples'[s] = samples[ii + 1 + s]
      BY <2>1, DecodeMoves DEF input
    <2>3. ASSUME stale = 0 PROVE src' >= i0'
      <3>1. 0 \in Slots
        BY SlotsAre
      <3>2. src - QUAD + 1 + 0 \in 1..Len(stream)
        BY <2>2, <2>3, <3>1 DEF PlaceInv, Holds
      <3> QED BY <1>0, <2>2, <3>2
    <2>4. ASSUME stale = 0, NEW s \in Slots, s < i0' PROVE Holds(s, src - i0 + 1 + s)'
      <3>1. s + ii < 3
        BY <2>2, <2>4, SlotsAre
      <3>2. ii + 1 + s \in Slots /\ samples'[s] = samples[ii + 1 + s]
        BY <2>2, <3>1
      <3>3. Holds(ii + 1 + s, src - QUAD + 1 + (ii + 1 + s))
        BY <2>2, <2>4, <3>2 DEF PlaceInv
      <3>4. src - QUAD + 1 + (ii + 1 + s) = src' - i0' + 1 + s
        BY <1>0, <2>2, SlotsAre
      <3> QED BY <2>2, <3>2, <3>3, <3>4 DEF Holds
    <2> QED BY <2>2, <2>3, <2>4 DEF PlaceInv
  <1>5. CASE Wrote
    BY <1>5 DEF PlaceInv, Holds, Wrote, input, set, counters
  <1>6. CASE UNCHANGED vars
    BY <1>6 DEF PlaceInv, Holds, vars, input, set, counters
  <1> QED BY <1>1, <1>2, <1>3, <1>4, <1>5, <1>6, Steps

\* A step keeps OriginInv: slots are filled from stdin or from other slots.
LEMMA OriginStep ==
  ASSUME TypeOK, OriginInv, [Next]_vars
  PROVE  OriginInv'
  <1>1. CASE Enter \/ Stop \/ Wrote \/ UNCHANGED vars
    BY <1>1 DEF OriginInv, Enter, Stop, Wrote, vars, input, set
  <1>2. CASE Read
    <2>1. stream' = stream /\ i0 \in 0..3 /\ QUAD = 4
      BY <1>2, ReadFills DEF input
    <2>2. PICK top \in Nat, st \in 0..3 : Filled(top, st)
      BY <1>2, ReadFills
    <2>3. ASSUME NEW s \in Slots
          PROVE  samples'[s] = Garbage \/ \E k \in 1..Len(stream) : samples'[s] = stream[k]
      <3>1. CASE i0 <= s /\ s < QUAD - st
        BY <2>2, <3>1 DEF Filled
      <3>2. CASE ~(i0 <= s /\ s < QUAD - st)
        <4>1. s < i0 \/ s >= QUAD - st
          BY <2>1, <3>2, SlotsAre
        <4>2. samples'[s] = samples[s]
          BY <2>2, <4>1 DEF Filled
        <4> QED BY <4>2 DEF OriginInv
      <3> QED BY <3>1, <3>2
    <2> QED BY <2>1, <2>3 DEF OriginInv
  <1>3. CASE \E ii \in Slots : DecodeSet(ii)
    <2>1. PICK ii \in Slots : DecodeSet(ii)
      BY <1>3
    <2>2. /\ stream' = stream
          /\ \A s \in Slots :
               s + ii < 3 => ii + 1 + s \in Slots /\ samples'[s] = samples[ii + 1 + s]
          /\ \A s \in Slots : ~(s + ii < 3) => samples'[s] = samples[s]
      BY <2>1, DecodeMoves DEF input
    <2> QED BY <2>2 DEF OriginInv
  <1> QED BY <1>1, <1>2, <1>3, Steps

\* A read follows full ones only, and one that fills every slot moves on by as
\* many samples as were decoded.
LEMMA ReadWhole ==
  ASSUME TypeOK, PlaceInv, Read
  PROVE  stale = 0 /\ (stale' = 0 => src' - QUAD = src - i0)
  <1>1. i0 \in 0..3 /\ src \in Nat /\ QUAD = 4 /\ stale \in 0..3 /\ Len(stream) \in Nat
    BY SlotsAre DEF TypeOK
  <1>2. PICK top \in Nat, st \in 0..3 : Filled(top, st)
    BY ReadFills
  <1>3. /\ src < top /\ top <= Len(stream) /\ top + st = src + QUAD - i0
        /\ src' = top /\ stale' = st
    BY <1>2 DEF Filled
  <1>4. pc = "read"
    BY DEF Read
  <1>5. stale = 0
    BY <1>1, <1>3, <1>4 DEF PlaceInv
  <1>6. st = 0 => top - QUAD = src - i0
    <2>1. top + st = src + QUAD - i0
      BY <1>3
    <2> QED BY <1>1, <2>1
  <1> QED BY <1>3, <1>5, <1>6

\* Behind the first set of a stream that begins soundly, a set is four samples:
\* the residue begins it, and the loop goes on in sequence.
LEMMA LaterSet ==
  ASSUME TypeOK, ResidueInv, Sound4, tot_samples > 0, NEW ii \in Slots, DecodeSet(ii)
  PROVE  ii = 3 /\ \A s \in Slots : samples[s].frame = s + 1 /\ samples[s].id
  <1>1. /\ ii \in 0..3 /\ i0 \in 0..3 /\ i0 <= ii /\ pc = "decode" /\ samples[ii].frame = 4
        /\ tot_samples \in Nat /\ \A s \in Slots : i0 <= s /\ s <= ii => Valid(s) /\ InSequence(s)
    BY DecodeMoves
  <1>2. \A s \in Slots : s < i0 => samples[s].frame = s + 1 /\ samples[s].id
    BY <1>1 DEF ResidueInv, Running, Fresh
  <1>3. ASSUME NEW s \in Slots, s <= ii, s = 0 \/ samples[s - 1].frame = s
        PROVE  samples[s].frame = s + 1 /\ samples[s].id
    <2>1. CASE s < i0
      BY <1>2, <2>1
    <2>2. CASE ~(s < i0)
      <3>1. Valid(s) /\ InSequence(s) /\ tot_samples + (s - i0) # 0
        BY <1>1, <1>3, <2>2, SlotsAre
      <3>2. LastFrame(s) = s
        BY <1>3 DEF LastFrame
      <3> QED BY <3>1, <3>2 DEF Valid, InSequence
    <2> QED BY <2>1, <2>2
  <1>4. samples[0].frame = 1 /\ samples[0].id
    BY <1>1, <1>3, SlotsAre
  <1>5. ii >= 1 /\ samples[1].frame = 2 /\ samples[1].id
    <2>1. ii >= 1
      BY <1>1, <1>4
    <2>2. 1 - 1 = 0 /\ 1 \in Slots /\ 1 + 1 = 2
      BY SlotsAre
    <2> QED BY <1>3, <1>4, <2>1, <2>2
  <1>6. ii >= 2 /\ samples[2].frame = 3 /\ samples[2].id
    <2>1. ii >= 2
      BY <1>1, <1>5
    <2>2. 2 - 1 = 1 /\ 2 \in Slots /\ 2 + 1 = 3
      BY SlotsAre
    <2> QED BY <1>3, <1>5, <2>1, <2>2
  <1>7. ii = 3 /\ samples[3].frame = 4 /\ samples[3].id
    <2>1. ii = 3
      BY <1>1, <1>6
    <2>2. 3 - 1 = 2 /\ 3 \in Slots /\ 3 + 1 = 4
      BY SlotsAre
    <2> QED BY <1>3, <1>6, <2>1, <2>2
  <1> QED BY <1>4, <1>5, <1>6, <1>7, SlotsAre

\* A step keeps AlignInv: each set ends with a subframe 4.
LEMMA AlignStep ==
  ASSUME TypeOK, FirstInv, PlaceInv, AlignInv, [Next]_vars
  PROVE  AlignInv'
  <1>0. i0 \in 0..3 /\ src \in Nat /\ QUAD = 4 /\ Len(stream) \in Nat
    BY SlotsAre DEF TypeOK
  <1>1. CASE Enter
    BY <1>0, <1>1 DEF AlignInv, Decoded, Running, FirstInv, Enter, input, set, counters
  <1>2. CASE Stop
    BY <1>2 DEF AlignInv, Running, Stop
  <1>3. CASE Read
    <2>1. pc = "read" /\ pc' = "decode" /\ UNCHANGED <<stream, i0, tot_samples>>
      BY <1>3, ReadFills DEF input, counters
    <2>2. stale = 0 /\ (stale' = 0 => src' - QUAD = src - i0)
      BY <1>3, ReadWhole
    <2>3. stale' = 0 => Decoded' = Decoded
      BY <2>1, <2>2 DEF Decoded
    <2> QED BY <2>1, <2>2, <2>3 DEF AlignInv, Running
  <1>4. CASE \E ii \in Slots : DecodeSet(ii)
    <2>1. PICK ii \in Slots : DecodeSet(ii)
      BY <1>4
    <2>2. /\ pc = "decode" /\ pc' = "write" /\ UNCHANGED <<stream, src, stale>>
          /\ ii \in 0..3 /\ i0' = 3 - ii /\ samples[ii].frame = 4
      BY <2>1, DecodeMoves DEF input
    <2>3. tot_samples' > 0
      <3>1. i0 <= ii /\ tot_samples' = tot_samples + (ii - i0) + 1 /\ tot_samples \in Nat
        BY <2>1, DecodeMoves
      <3> QED BY <1>0, <2>2, <3>1
    <2>4. Decoded' = src - QUAD + 1 + ii
      <3>1. src - (3 - ii) = src - QUAD + 1 + ii
        BY <1>0, <2>2
      <3> QED BY <2>2, <3>1 DEF Decoded
    <2>5. ASSUME stale = 0 PROVE /\ Decoded' \in 1..Len(stream) /\ stream[Decoded'].frame = 4
      <3>1. Holds(ii, src - QUAD + 1 + ii)
        BY <2>2, <2>5 DEF PlaceInv
      <3> QED BY <2>2, <2>4, <3>1 DEF Holds
    <2>6. ASSUME stale = 0 PROVE Decoded' \in 0..Len(stream) /\ Decoded' # 0
      BY <1>0, <2>5, <2>6
    <2> QED BY <2>2, <2>3, <2>5, <2>6 DEF AlignInv
  <1>5. CASE Wrote
    BY <1>5 DEF AlignInv, Decoded, Running, Wrote, input, set, counters
  <1>6. CASE UNCHANGED vars
    BY <1>6 DEF AlignInv, Decoded, Running, vars, input, set, counters
  <1> QED BY <1>1, <1>2, <1>3, <1>4, <1>5, <1>6, Steps

-----------------------------------------------------------------------------
(* The transitions.                                                         *)

\* Numbers that are all moved by k are as many.
LEMMA Shifted ==
  ASSUME NEW S \in SUBSET Int, IsFiniteSet(S), NEW k \in Int
  PROVE  /\ IsFiniteSet({k + i : i \in S})
         /\ Cardinality({k + i : i \in S}) = Cardinality(S)
  <1> DEFINE T == {k + i : i \in S}
             f == [i \in S |-> k + i]
  <1>1. f \in [S -> T] /\ \A a, b \in S : f[a] = f[b] => a = b
    OBVIOUS
  <1>2. \A t \in T : \E s \in S : f[s] = t
    OBVIOUS
  <1> HIDE DEF T, f
  <1>3. f \in Bijection(S, T)
    BY <1>1, <1>2, Fun_IsBij
  <1>4. ExistsBijection(S, T)
    BY <1>3 DEF ExistsBijection
  <1>5. IsFiniteSet(T) /\ Cardinality(T) = Cardinality(S)
    BY <1>4, FS_Bijection
  <1> QED BY <1>5 DEF T

\* A set adds the changes within it and the one on its left, of which there is
\* none at the beginning of the stream.
LEMMA EdgesGrow ==
  ASSUME TypeOK, PlaceInv, AlignInv, DiInv, stale = 0,
         NEW ii \in Slots, DecodeSet(ii), NEW b \in 1..NDI
  PROVE  Cardinality(Edges(b, src - QUAD + 1 + ii))
           = Cardinality(Edges(b, src - QUAD)) + Changes(b, ii)
  <1>1. pc = "decode" /\ ii \in 0..3 /\ src \in Nat /\ QUAD = 4 /\ Len(stream) \in Nat
    <2>1. pc = "decode" /\ ii \in 0..3
      BY DecodeMoves
    <2> QED BY <2>1, SlotsAre DEF TypeOK
  <1>2. PICK D \in Nat : D = src - QUAD
    BY <1>1 DEF AlignInv, Decoded, Running
  <1>3. di_previous = IF D = 0 THEN NoDi ELSE stream[D].di
    BY <1>1, <1>2 DEF DiInv, Decoded, Running
  <1>4. \A s \in 0..3 : D + 1 + s \in 1..Len(stream) /\ samples[s] = stream[D + 1 + s]
    BY <1>1, <1>2, SlotsAre DEF PlaceInv, Holds
  <1>5. \A k \in 1..Len(stream) : stream[k].di # NoDi
    <2>1. \A k \in 1..Len(stream) : stream[k] \in Sample
      BY DEF TypeOK
    <2>2. ASSUME NEW d \in SUBSET (1..NDI) PROVE d # NoDi
      <3>1. ~(0 \in 1..NDI) /\ 0 \in NoDi
        BY DiAssumption DEF NoDi
      <3> QED BY <3>1
    <2>3. \A x \in Sample : x.di \in SUBSET (1..NDI)
      BY DEF Sample
    <2> QED BY <2>1, <2>2, <2>3
  <1> DEFINE S == {ic \in 0..ii : /\ Before(ic) # NoDi
                                  /\ (b \in Before(ic)) # (b \in samples[ic].di)}
             New == {(D + 1) + ic : ic \in S}
             top == D + 1 + ii
  <1>6. ASSUME NEW ic \in 0..ii
        PROVE  ic \in S <=> D + 1 + ic \in Edges(b, top)
    <2>1. ic \in 0..3 /\ D + 1 + ic <= top /\ D + 1 + ic - 1 = D + ic
      BY <1>1
    <2>2. Before(ic) = IF D + ic = 0 THEN NoDi ELSE stream[D + ic].di
      <3>1. CASE ic = 0
        BY <1>2, <1>3, <3>1 DEF Before
      <3>2. CASE ic # 0
        <4>1. ic - 1 \in 0..3 /\ D + 1 + (ic - 1) = D + ic /\ D + ic # 0
          BY <1>2, <2>1, <3>2
        <4>2. samples[ic - 1] = stream[D + ic]
          BY <1>4, <4>1
        <4> QED BY <3>2, <4>1, <4>2 DEF Before
      <3> QED BY <3>1, <3>2
    <2>3. D + ic # 0 => D + ic \in 1..Len(stream)
      <3>1. D + 1 + ic \in 1..Len(stream)
        BY <1>4, <2>1
      <3> QED BY <1>1, <1>2, <2>1, <3>1
    <2>4. D + 1 + ic \in 2..top <=> D + ic # 0
      BY <1>1, <1>2, <2>1
    <2>5. samples[ic] = stream[D + 1 + ic]
      BY <1>4, <2>1
    <2>6. CASE D + ic = 0
      BY <2>2, <2>4, <2>6 DEF Edges
    <2>7. CASE D + ic # 0
      <3>1. ic \in S <=> (b \in stream[D + ic].di) # (b \in stream[D + 1 + ic].di)
        BY <1>5, <2>2, <2>3, <2>5, <2>7
      <3>2. D + 1 + ic \in Edges(b, top)
              <=> (b \in stream[D + ic].di) # (b \in stream[D + 1 + ic].di)
        BY <2>1, <2>4, <2>7 DEF Edges
      <3> QED BY <3>1, <3>2
    <2> QED BY <2>6, <2>7
  <1>7. S \subseteq 0..ii
    OBVIOUS
  <1> HIDE DEF S
  <1>8. Edges(b, top) = Edges(b, D) \union New
    <2>1. ASSUME NEW i \in Edges(b, top) PROVE i \in Edges(b, D) \union New
      <3>1. i \in 2..top
        BY DEF Edges
      <3>2. CASE i <= D
        BY <1>2, <3>1, <3>2 DEF Edges
      <3>3. CASE i > D
        <4>1. i - D - 1 \in 0..ii /\ D + 1 + (i - D - 1) = i
          BY <1>1, <1>2, <3>1, <3>3
        <4>2. i - D - 1 \in S
          BY <1>6, <4>1
        <4> QED BY <4>1, <4>2
      <3> QED BY <1>2, <3>1, <3>2, <3>3
    <2>2. ASSUME NEW i \in Edges(b, D) PROVE i \in Edges(b, top)
      BY <1>1, <1>2 DEF Edges
    <2>3. ASSUME NEW i \in New PROVE i \in Edges(b, top)
      <3>1. PICK ic \in S : i = D + 1 + ic
        OBVIOUS
      <3> QED BY <1>6, <1>7, <3>1
    <2> QED BY <2>1, <2>2, <2>3
  <1>9. IsFiniteSet(S) /\ IsFiniteSet(Edges(b, D)) /\ S \in SUBSET Int
    <2>1. IsFiniteSet(0..ii) /\ IsFiniteSet(2..D)
      BY <1>1, <1>2, FS_Interval
    <2>2. Edges(b, D) \subseteq 2..D
      BY DEF Edges
    <2>3. S \in SUBSET Int
      BY <1>1, <1>7
    <2> QED BY <1>7, <2>1, <2>2, <2>3, FS_Subset
  <1>10. IsFiniteSet(New) /\ Cardinality(New) = Cardinality(S)
    <2>1. D + 1 \in Int
      BY <1>2
    <2> QED BY <1>9, <2>1, Shifted
  <1>11. Edges(b, D) \intersect New = {}
    <2> SUFFICES ASSUME NEW ic \in S PROVE ~(D + 1 + ic \in Edges(b, D))
      OBVIOUS
    <2> QED BY <1>1, <1>2, <1>7 DEF Edges
  <1> HIDE DEF New
  <1>12. Cardinality(Edges(b, top)) = Cardinality(Edges(b, D)) + Cardinality(S)
    BY <1>8, <1>9, <1>10, <1>11, DisjointUnion
  <1>13. Cardinality(S) = Changes(b, ii)
    BY DEF S, Changes
  <1>14. src - QUAD + 1 + ii = top
    BY <1>2
  <1> QED BY <1>2, <1>12, <1>13, <1>14

\* A step keeps DiInv: a set adds its changes to the transitions.
LEMMA DiStep ==
  ASSUME TypeOK, FirstInv, PlaceInv, AlignInv, DiInv, [Next]_vars
  PROVE  DiInv'
  <1>0. i0 \in 0..3 /\ src \in Nat /\ QUAD = 4 /\ stream' = stream
    BY SlotsAre, StreamStays DEF TypeOK
  <1>1. CASE Enter
    <2>1. CASE pc' = "read"
      <3>1. /\ Decoded' = 0 /\ di_previous' = NoDi /\ transitions' = [b \in 1..NDI |-> 0]
        <4>1. /\ UNCHANGED <<src, i0, di_previous, transitions>> /\ src = 0 /\ i0 = 0
              /\ di_previous = NoDi /\ transitions = [b \in 1..NDI |-> 0]
          BY <1>1 DEF FirstInv, Enter, set, counters
        <4> QED BY <2>1, <4>1 DEF Decoded
      <3>2. \A b : Cardinality(Edges(b, 0)) = 0
        <4>1. \A b : Edges(b, 0) = {}
          BY DEF Edges
        <4> QED BY <4>1, FS_EmptySet
      <3> QED BY <1>0, <3>1, <3>2 DEF DiInv, Edges
    <2> QED BY <1>1, <2>1 DEF DiInv, Running, Enter
  <1>2. CASE Stop
    BY <1>2 DEF DiInv, Running, Stop
  <1>3. CASE Read
    <2>1. pc = "read" /\ pc' = "decode" /\ UNCHANGED <<stream, di_previous, transitions>>
      BY <1>3, ReadFills DEF input, counters
    <2>2. stale = 0 /\ (stale' = 0 => src' - QUAD = src - i0)
      BY <1>3, ReadWhole
    <2>3. stale' = 0 => Decoded' = Decoded
      BY <2>1, <2>2 DEF Decoded
    <2> QED BY <2>1, <2>2, <2>3 DEF DiInv, Running, Edges
  <1>4. CASE \E ii \in Slots : DecodeSet(ii)
    <2>1. PICK ii \in Slots : DecodeSet(ii)
      BY <1>4
    <2>2. /\ pc = "decode" /\ pc' = "write" /\ UNCHANGED <<stream, src, stale>>
          /\ ii \in 0..3 /\ i0' = 3 - ii
      BY <2>1, DecodeMoves DEF input
    <2>3. Decoded' = src - QUAD + 1 + ii /\ Decoded = src - QUAD
      <3>1. src - (3 - ii) = src - QUAD + 1 + ii
        BY <1>0, <2>2
      <3> QED BY <2>2, <3>1 DEF Decoded
    <2>4. SUFFICES ASSUME stale = 0 PROVE DiInv'
      BY <2>2 DEF DiInv
    <2>5. Holds(ii, src - QUAD + 1 + ii)
      BY <2>2, <2>4 DEF PlaceInv
    <2>6. Decoded' # 0 /\ di_previous' = stream[Decoded'].di
      BY <2>1, <2>3, <2>5 DEF Holds, DecodeSet
    <2>7. ASSUME NEW b \in 1..NDI
          PROVE  transitions'[b] = Cardinality(Edges(b, src - QUAD + 1 + ii))
      <3>1. transitions[b] = Cardinality(Edges(b, src - QUAD))
        BY <2>2, <2>3, <2>4 DEF DiInv, Running
      <3>2. transitions'[b] = transitions[b] + Changes(b, ii)
        BY <2>1 DEF DecodeSet
      <3> QED BY <2>1, <2>4, <3>1, <3>2, EdgesGrow
    <2> QED BY <2>2, <2>3, <2>6, <2>7 DEF DiInv, Edges
  <1>5. CASE Wrote
    BY <1>5 DEF DiInv, Edges, Decoded, Running, Wrote, input, set, counters
  <1>6. CASE UNCHANGED vars
    BY <1>6 DEF DiInv, Edges, Decoded, Running, vars, input, set, counters
  <1> QED BY <1>1, <1>2, <1>3, <1>4, <1>5, <1>6, Steps

-----------------------------------------------------------------------------
(* The sets.                                                                *)

\* A subframe 4 at most three samples ahead, and the subframes behind it.
LEMMA Turn ==
  ASSUME NEW a \in Nat, NEW k \in 0..3, Subframe(a + k) = 4
  PROVE  k = 4 - Subframe(a) /\ \A m \in 0..3 : Subframe(a + k + 1 + m) = m + 1
  <1>1. (a + k) % 4 = 3
    BY DEF Subframe, QUAD
  <1>2. k = 3 - (a % 4)
    BY <1>1
  <1>3. ASSUME NEW m \in 0..3 PROVE (a + k + 1 + m) % 4 = m
    BY <1>1
  <1> QED BY <1>2, <1>3 DEF Subframe, QUAD

\* The first set ends with the first subframe 4; what follows it is in order.
LEMMA FirstSetEnds ==
  ASSUME TypeOK, StreamInv, FirstInv, Sound4, tot_samples = 0, NEW ii \in Slots, DecodeSet(ii)
  PROVE  /\ i0 = 0 /\ ii + 1 = FirstSet
         /\ \A s \in Slots : samples[s] = Garbage \/
              (s + 1 \in 1..Len(stream) /\ samples[s] = stream[s + 1] /\ samples[s].id)
         /\ stale = 0 => \A s \in Slots : ii < s =>
              samples[s].id /\ samples[s].frame = s - ii
  <1>1. /\ pc = "decode" /\ ii \in 0..3 /\ samples[ii].frame = 4 /\ i0 <= ii
        /\ \A s \in Slots : i0 <= s /\ s <= ii => Valid(s)
    BY DecodeMoves
  <1>2. /\ i0 = 0 /\ src = QUAD - stale
        /\ \A s \in Slots : samples[s] = IF s < src THEN stream[s + 1] ELSE Garbage
    BY <1>1 DEF FirstInv
  <1>3. stale \in 0..3 /\ QUAD = 4 /\ Len(stream) \in Nat /\ src \in 0..Len(stream)
    BY SlotsAre DEF TypeOK
  <1>4. src \in 1..4
    BY <1>2, <1>3
  <1>5. PICK n1 \in Nat : n1 = stream[1].n
    <2>1. stream[1] \in Sample
      BY <1>3, <1>4 DEF TypeOK
    <2> QED BY <2>1 DEF Sample
  <1>6. ASSUME NEW s \in Slots, s < src
        PROVE  /\ s + 1 \in 1..Len(stream) /\ samples[s] = stream[s + 1] /\ samples[s].id
               /\ samples[s].frame = Subframe(n1 + s)
    <2>1. /\ s + 1 \in 1..Len(stream) /\ s + 1 <= QUAD /\ s \in 0..3
          /\ n1 + (s + 1) - 1 = n1 + s
      BY <1>3, <1>4, <1>6, SlotsAre
    <2>2. samples[s] = stream[s + 1]
      BY <1>2, <1>6
    <2>3. stream[s + 1].id /\ stream[s + 1].n = n1 + s
      BY <1>5, <2>1 DEF Sound4, SoundUpTo
    <2>4. stream[s + 1].frame = Subframe(stream[s + 1].n)
      BY <2>1 DEF StreamInv, Sent
    <2> QED BY <2>1, <2>2, <2>3, <2>4
  <1>7. ii < src
    <2>1. Valid(ii)
      BY <1>1
    <2>2. samples[ii].id
      BY <2>1 DEF Valid
    <2> QED BY <1>2, <2>2 DEF Garbage
  <1>8. ii = 4 - Subframe(n1) /\ \A m \in 0..3 : Subframe(n1 + ii + 1 + m) = m + 1
    <2>1. Subframe(n1 + ii) = 4
      BY <1>1, <1>6, <1>7
    <2> QED BY <1>1, <2>1, Turn
  <1>9. ii + 1 = FirstSet
    <2>1. stream[1].frame = Subframe(n1)
      BY <1>3, <1>4, <1>5 DEF StreamInv, Sent
    <2>2. Subframe(n1) \in 1..4
      BY SubframeRange
    <2> QED BY <1>1, <1>3, <1>8, <2>1, <2>2 DEF FirstSet
  <1>10. \A s \in Slots : samples[s] = Garbage \/
           (s + 1 \in 1..Len(stream) /\ samples[s] = stream[s + 1] /\ samples[s].id)
    BY <1>2, <1>6
  <1>11. ASSUME stale = 0, NEW s \in Slots, ii < s
         PROVE  samples[s].id /\ samples[s].frame = s - ii
    <2>1. s < src /\ s - ii - 1 \in 0..3 /\ n1 + ii + 1 + (s - ii - 1) = n1 + s
          /\ (s - ii - 1) + 1 = s - ii
      BY <1>1, <1>2, <1>3, <1>11, SlotsAre
    <2>2. Subframe(n1 + s) = s - ii
      BY <1>8, <2>1
    <2> QED BY <1>6, <2>1, <2>2
  <1> QED BY <1>2, <1>9, <1>10, <1>11

\* A step keeps ResidueInv: the residue of a set is the beginning of the next.
LEMMA ResidueStep ==
  ASSUME TypeOK, StreamInv, FirstInv, PlaceInv, ResidueInv, [Next]_vars
  PROVE  ResidueInv'
  <1>0. stream' = stream /\ (Sound4' <=> Sound4) /\ FirstSet' = FirstSet
    BY StreamStays DEF Sound4, SoundUpTo, FirstSet
  <1>1. CASE Enter
    <2>1. tot_samples' = 0
      BY <1>1 DEF FirstInv, Enter, set, counters
    <2> QED BY <2>1 DEF ResidueInv
  <1>2. CASE Stop
    BY <1>0, <1>2 DEF ResidueInv, Running, Stop, set, counters
  <1>3. CASE Read
    <2>1. /\ pc = "read" /\ UNCHANGED <<i0, tot_samples>> /\ stale = 0
          /\ i0 \in 0..3
      BY <1>3, ReadFills, ReadWhole DEF counters
    <2>2. PICK top \in Nat, st \in 0..3 : Filled(top, st)
      BY <1>3, ReadFills
    <2>3. \A s \in Slots : s < i0 => samples'[s] = samples[s]
      BY <2>2 DEF Filled
    <2> QED BY <1>0, <2>1, <2>3 DEF ResidueInv, Running, Fresh
  <1>4. CASE \E ii \in Slots : DecodeSet(ii)
    <2>1. PICK ii \in Slots : DecodeSet(ii)
      BY <1>4
    <2>2. /\ pc = "decode" /\ pc' = "write" /\ stale' = stale
          /\ ii \in 0..3 /\ i0 \in 0..3 /\ i0 <= ii
          /\ tot_samples' = tot_samples + (ii - i0) + 1
          /\ i0' = 3 - ii /\ tot_samples \in Nat
          /\ \A s \in Slots :
               s + ii < 3 => ii + 1 + s \in Slots /\ samples'[s] = samples[ii + 1 + s]
      BY <2>1, DecodeMoves
    <2>3. SUFFICES ASSUME Sound4 PROVE ResidueInv'
      BY <1>0 DEF ResidueInv
    <2>4. CASE tot_samples = 0
      <3>1. /\ i0 = 0 /\ ii + 1 = FirstSet
            /\ stale = 0 => \A s \in Slots : ii < s => samples[s].id /\ samples[s].frame = s - ii
        BY <2>1, <2>3, <2>4, FirstSetEnds
      <3>2. tot_samples' = FirstSet
        BY <2>2, <2>4, <3>1
      <3>3. ASSUME stale = 0, NEW s \in Slots, s < i0'
            PROVE  samples'[s].frame = s + 1 /\ samples'[s].id
        <4>1. s + ii < 3 /\ ii < ii + 1 + s /\ (ii + 1 + s) - ii = s + 1
          BY <2>2, <3>3, SlotsAre
        <4>2. ii + 1 + s \in Slots /\ samples'[s] = samples[ii + 1 + s]
          BY <2>2, <4>1
        <4> QED BY <3>1, <3>3, <4>1, <4>2
      <3>4. tot_samples' >= FirstSet' /\ ~(tot_samples' > FirstSet')
        <4>1. FirstSet \in Nat
          BY <2>2, <3>1
        <4> QED BY <1>0, <3>2, <4>1
      <3>5. Fresh' => stale = 0
        BY <2>2 DEF Fresh
      <3> QED BY <3>3, <3>4, <3>5 DEF ResidueInv
    <2>5. CASE tot_samples # 0
      <3>1. ii = 3
        BY <2>1, <2>2, <2>3, <2>5, LaterSet
      <3>2. i0' = 0 /\ tot_samples' > tot_samples
        BY <2>2, <3>1
      <3>3. tot_samples >= FirstSet
        BY <2>2, <2>3, <2>5 DEF ResidueInv
      <3>4. FirstSet \in Int
        <4>1. src > 0
          BY <2>2 DEF FirstInv
        <4>2. stream[1] \in Sample
          BY <4>1 DEF TypeOK
        <4> QED BY <4>2, SlotsAre DEF FirstSet, Sample
      <3>5. tot_samples' >= FirstSet
        BY <2>2, <3>2, <3>3, <3>4
      <3>6. \A s \in Slots : ~(s < i0')
        BY <3>2, SlotsAre
      <3> QED BY <1>0, <3>2, <3>5, <3>6 DEF ResidueInv
    <2> QED BY <2>4, <2>5
  <1>5. CASE Wrote
    BY <1>0, <1>5 DEF ResidueInv, Running, Fresh, Wrote, input, set, counters
  <1>6. CASE UNCHANGED vars
    BY <1>0, <1>6 DEF ResidueInv, Running, Fresh, vars, input, set, counters
  <1> QED BY <1>1, <1>2, <1>3, <1>4, <1>5, <1>6, Steps

\* A set is less than the number of counts.
LEMMA CountsLarge == Counts > 3
  <1>1. Radix \in Nat /\ Radix >= 4 /\ Weight(3) \in Nat \ {0} /\ Counts = Radix * Weight(3)
    BY RadixAssumption, WeightsNat DEF QUAD, Counts
  <1>2. PICK w \in Nat : Weight(3) = w + 1
    <2>1. Weight(3) - 1 \in Nat /\ Weight(3) = (Weight(3) - 1) + 1
      BY <1>1
    <2> QED BY <2>1
  <1>3. Counts = Radix * w + Radix /\ Radix * w \in Nat
    BY <1>1, <1>2
  <1> QED BY <1>1, <1>3

\* Neighbours in the slots are neighbours in the stream.
LEMMA Neighbours ==
  ASSUME TypeOK, StreamInv, PlaceInv, stale = 0, pc = "decode"
  PROVE  /\ \A s \in 0..2 : samples[s + 1].n - samples[s].n \in 1..2
         /\ \A s \in Slots : samples[s] \in Sample /\ Sent(samples[s])
  <1>1. src \in Nat /\ Len(stream) \in Nat /\ QUAD = 4
    BY SlotsAre DEF TypeOK
  <1>2. \A s \in Slots :
          src - QUAD + 1 + s \in 1..Len(stream) /\ samples[s] = stream[src - QUAD + 1 + s]
    BY DEF PlaceInv, Holds
  <1>3. ASSUME NEW s \in 0..2 PROVE samples[s + 1].n - samples[s].n \in 1..2
    <2>1. s \in Slots /\ s + 1 \in Slots
      BY SlotsAre
    <2>2. PICK i \in 1..Len(stream) : i = src - QUAD + 1 + s
      BY <1>2, <2>1
    <2>3. src - QUAD + 1 + (s + 1) = i + 1 /\ i + 1 - i = 1 /\ i + 1 - i + 1 = 2 /\ i < i + 1
      BY <1>1, <2>2
    <2>4. i + 1 \in 1..Len(stream) /\ samples[s] = stream[i] /\ samples[s + 1] = stream[i + 1]
      BY <1>2, <2>1, <2>2, <2>3
    <2>5. stream[i + 1].n - stream[i].n \in {i + 1 - i, i + 1 - i + 1}
      BY <2>3, <2>4 DEF StreamInv
    <2> QED BY <2>3, <2>4, <2>5
  <1>4. \A k \in 1..Len(stream) : stream[k] \in Sample /\ Sent(stream[k])
    BY DEF TypeOK, StreamInv
  <1> QED BY <1>2, <1>3, <1>4

\* Behind the first set the count of a sample is the one the UUT gave it.
LEMMA LaterNumbers ==
  ASSUME TypeOK, StreamInv, PlaceInv, ResidueInv, Sound4, tot_samples > 0, stale = 0,
         NEW ii \in Slots, DecodeSet(ii)
  PROVE  \A s \in Slots : meta'[s].sc = samples[s].n % Counts
  <1>1. ii = 3 /\ \A s \in Slots : samples[s].frame = s + 1
    BY LaterSet
  <1>2. pc = "decode"
    BY DecodeMoves
  <1> DEFINE a == samples[0]
             b == samples[1]
             c == samples[2]
             d == samples[3]
  <1>3. /\ a \in Sample /\ b \in Sample /\ c \in Sample /\ d \in Sample
        /\ Sent(a) /\ Sent(b) /\ Sent(c) /\ Sent(d)
    BY <1>2, Neighbours, SlotsAre
  <1>4. a.frame = 1 /\ b.frame = 2 /\ c.frame = 3 /\ d.frame = 4
    BY <1>1, SlotsAre
  <1>5. b.n - a.n \in 1..2 /\ c.n - b.n \in 1..2 /\ d.n - c.n \in 1..2
    <2>1. \A s \in 0..2 : samples[s + 1].n - samples[s].n \in 1..2
      BY <1>2, Neighbours
    <2>2. 0 + 1 = 1 /\ 1 + 1 = 2 /\ 2 + 1 = 3
      OBVIOUS
    <2> QED BY <2>1, <2>2
  <1>6. Assembled(3) = d.scbyte * Weight(0) + c.scbyte * Weight(1) + b.scbyte * Weight(2)
                         + a.scbyte * Weight(3)
    <2>1. 3 - 0 = 3 /\ 3 - 1 = 2 /\ 3 - 2 = 1 /\ 3 - 3 = 0
      OBVIOUS
    <2> QED BY <2>1 DEF Assembled
  <1> HIDE DEF a, b, c, d
  <1>7. /\ a.n = d.n - 3 /\ b.n = d.n - 2 /\ c.n = d.n - 1
        /\ Assembled(3) = d.n % Counts
    BY <1>3, <1>4, <1>5, <1>6, SetOfFour
  <1>8. PICK n \in Nat : n = d.n /\ n >= 3
    <2>1. a.n \in Nat /\ d.n \in Nat
      BY <1>3 DEF Sample
    <2> QED BY <1>7, <2>1
  <1>9. ASSUME NEW s \in Slots PROVE meta'[s].sc = samples[s].n % Counts
    <2>1. 3 - s \in 0..n /\ 3 - s < Counts /\ s <= ii /\ Counts \in Nat \ {0}
      BY <1>1, <1>8, CountsLarge, WeightsNat, SlotsAre
    <2>2. meta'[s].sc = (Assembled(3) - (3 - s)) % Counts
      BY <1>1, <2>1 DEF DecodeSet, SampleCount
    <2>3. ((n % Counts) - (3 - s)) % Counts = (n - (3 - s)) % Counts
      BY <2>1, CountBack
    <2>4. samples[s].n = n - (3 - s)
      <3>1. samples[0].n = n - 3 /\ samples[1].n = n - 2 /\ samples[2].n = n - 1 /\ samples[3].n = n
        BY <1>7, <1>8 DEF a, b, c, d
      <3>2. s = 0 \/ s = 1 \/ s = 2 \/ s = 3
        BY SlotsAre
      <3> QED BY <3>1, <3>2
    <2> QED BY <1>7, <1>8, <2>2, <2>3, <2>4
  <1> QED BY <1>9

\* Before a set is decoded, its slots hold undamaged samples, or none.
LEMMA SlotsKnown ==
  ASSUME TypeOK, StreamInv, FirstInv, OriginInv, ResidueInv, Sound4,
         NEW ii \in Slots, DecodeSet(ii)
  PROVE  \A s \in Slots : Known(samples[s].n)
  <1>1. tot_samples \in Nat
    BY DEF TypeOK
  <1>2. CASE tot_samples = 0
    BY <1>2, FirstSetEnds DEF Known, Garbage
  <1>3. CASE tot_samples # 0
    <2>1. \A s \in Slots : samples[s].id
      BY <1>1, <1>3, LaterSet
    <2> QED BY <2>1 DEF OriginInv, Known, Garbage
  <1> QED BY <1>2, <1>3

\* A step keeps WriteInv: what decode leaves to write has its counts.
LEMMA WriteStep ==
  ASSUME TypeOK, StreamInv, FirstInv, PlaceInv, OriginInv, ResidueInv, WriteInv, [Next]_vars
  PROVE  WriteInv'
  <1>0. stream' = stream /\ (Sound4' <=> Sound4) /\ FirstSet' = FirstSet
    BY StreamStays DEF Sound4, SoundUpTo, FirstSet
  <1>1. CASE Enter \/ Stop \/ Read \/ Wrote
    BY <1>1, ReadFills DEF WriteInv, Enter, Stop, Wrote
  <1>2. CASE \E ii \in Slots : DecodeSet(ii)
    <2>1. PICK ii \in Slots : DecodeSet(ii)
      BY <1>2
    <2>2. /\ pc = "decode" /\ UNCHANGED <<src, stale>>
          /\ ii \in 0..3 /\ i0 \in 0..3 /\ i0 <= ii
          /\ tot_samples' = tot_samples + (ii - i0) + 1 /\ tot_samples \in Nat
          /\ \A s \in Slots :
               s + ii < 3 => ii + 1 + s \in Slots /\ samples'[s] = samples[ii + 1 + s]
          /\ \A s \in Slots : ~(s + ii < 3) => samples'[s] = samples[s]
      BY <2>1, DecodeMoves
    <2>3. SUFFICES ASSUME Sound4 PROVE WriteInv'
      BY <1>0 DEF WriteInv
    <2>4. \A s \in Slots : Known(samples[s].n)
      BY <2>1, <2>3, SlotsKnown
    <2>5. \A s \in Slots : Known(samples'[s].n)
      BY <2>2, <2>4
    <2>6. ASSUME stale = 0, tot_samples' > FirstSet, NEW s \in Slots
          PROVE  Holds(s, src - QUAD + 1 + s)' /\ meta'[s].sc = samples'[s].n % Counts
      <3>1. tot_samples > 0
        <4>1. CASE tot_samples = 0
          <5>1. i0 = 0 /\ ii + 1 = FirstSet
            BY <2>1, <2>3, <4>1, FirstSetEnds
          <5>2. tot_samples' = ii + 1
            BY <2>2, <4>1, <5>1
          <5> QED BY <2>2, <2>6, <5>1, <5>2
        <4> QED BY <2>2, <4>1
      <3>2. ii = 3
        BY <2>1, <2>3, <3>1, LaterSet
      <3>3. samples'[s] = samples[s]
        BY <2>2, <3>2, SlotsAre
      <3>4. meta'[s].sc = samples[s].n % Counts
        BY <2>1, <2>3, <2>6, <3>1, LaterNumbers
      <3>5. Holds(s, src - QUAD + 1 + s)
        BY <2>2, <2>6 DEF PlaceInv
      <3> QED BY <1>0, <2>2, <3>3, <3>4, <3>5 DEF Holds
    <2>7. \A s \in Slots : Known(samples[s].n)'
      BY <1>0, <2>5 DEF Known
    <2>8. stale' = 0 /\ tot_samples' > FirstSet' =>
            \A s \in Slots : Holds(s, src - QUAD + 1 + s)' /\ meta'[s].sc = samples'[s].n % Counts
      BY <1>0, <2>2, <2>6
    <2> QED BY <2>7, <2>8 DEF WriteInv
  <1>3. CASE UNCHANGED vars
    BY <1>0, <1>3 DEF WriteInv, Known, Holds, vars, input, set, counters
  <1> QED BY <1>1, <1>2, <1>3, Steps

-----------------------------------------------------------------------------
(* The rows.                                                                *)

\* A place behind the first n, as a place among the next k.
LEMMA NewRow ==
  ASSUME NEW n \in Nat, NEW k \in Nat, NEW i \in (n + 1)..(n + k)
  PROVE  \E r \in 1..k : i = n + r
  <1>1. i - n \in 1..k /\ i = n + (i - n)
    OBVIOUS
  <1> QED BY <1>1

\* A step keeps UptoInv.
LEMMA UptoStep ==
  ASSUME TypeOK, FirstInv, UptoInv, [Next]_vars
  PROVE  UptoInv'
  <1>0. tot_samples \in Nat
    BY DEF TypeOK
  <1>1. CASE Enter \/ Stop \/ Read \/ UNCHANGED vars
    BY <1>1, ReadFills DEF UptoInv, Enter, Stop, vars, set, counters
  <1>2. CASE \E ii \in Slots : DecodeSet(ii)
    <2>1. PICK ii \in Slots : DecodeSet(ii)
      BY <1>2
    <2>2. out' = out /\ tot_samples' \in Nat /\ tot_samples' > tot_samples
      <3>1. /\ out' = out /\ ii \in 0..3 /\ i0 \in 0..3 /\ i0 <= ii
            /\ tot_samples' = tot_samples + (ii - i0) + 1
        BY <2>1, DecodeMoves
      <3> QED BY <1>0, <3>1
    <2> QED BY <1>0, <2>2 DEF UptoInv
  <1>3. CASE Wrote
    <2>1. PICK k \in 0..(QUAD - i0) : Gives(k)
      BY <1>3 DEF Wrote
    <2>2. /\ MetaRows(out') = MetaRows(out) \union ((Len(out) + 1)..(Len(out) + k))
          /\ \A i \in MetaRows(out) : out'[i] = out[i]
          /\ \A r \in 1..k : out'[Len(out) + r] = Row(r - 1)
      BY <2>1 DEF Gives
    <2>3. tot_samples' = tot_samples /\ tot_samples > 0
      BY <1>3 DEF Wrote, FirstInv, set, counters
    <2>4. ASSUME NEW i \in MetaRows(out') PROVE out'[i].upto \in 1..tot_samples
      <3>1. CASE i \in MetaRows(out)
        BY <2>2, <3>1 DEF UptoInv
      <3>2. CASE i \in (Len(out) + 1)..(Len(out) + k)
        <4>1. PICK r \in 1..k : i = Len(out) + r
          BY <3>2, NewRow
        <4>2. out'[i] = Row(r - 1) /\ Row(r - 1).upto = tot_samples
          BY <2>2, <4>1 DEF Row
        <4> QED BY <1>0, <2>3, <4>2
      <3> QED BY <2>2, <3>1, <3>2
    <2> QED BY <2>3, <2>4 DEF UptoInv
  <1> QED BY <1>1, <1>2, <1>3, Steps

\* A step keeps CountInv: a write gives out its set, or is cut.
LEMMA CountStep ==
  ASSUME TypeOK, FirstInv, PlaceInv, CountInv, [Next]_vars
  PROVE  CountInv'
  <1>0. /\ i0 \in 0..3 /\ src \in Nat /\ QUAD = 4 /\ outfile' = outfile /\ cut \in Nat
        /\ out \in Seq(RowType)
    <2>1. outfile' = outfile /\ out \in Seq(RowType)
      BY StreamStays, OutType
    <2> QED BY <2>1, SlotsAre, CutsAssumption DEF TypeOK
  <1>1. CASE Enter
    <2>1. CASE pc' = "read"
      <3>1. /\ UNCHANGED <<src, i0, out, cut>> /\ src = 0 /\ out = <<>>
            /\ tot_samples = 0 /\ i0 = 0
        BY <1>1 DEF FirstInv, Enter, set
      <3>2. Written' = 0
        BY <2>1, <3>1 DEF Written
      <3>3. Cardinality(MetaRows(out)) = 0
        <4>1. MetaRows(out) = {}
          BY <3>1 DEF MetaRows
        <4> QED BY <4>1, FS_EmptySet
      <3>4. 0 - 0 \in 0..(QUAD * cut)
        BY <1>0
      <3> QED BY <3>1, <3>2, <3>3, <3>4 DEF CountInv
    <2> QED BY <1>1, <2>1 DEF CountInv, Running, Enter
  <1>2. CASE Stop
    BY <1>2 DEF CountInv, Running, Stop
  <1>3. CASE Read
    <2>1. pc = "read" /\ pc' = "decode" /\ UNCHANGED <<out, cut>>
      BY <1>3, ReadFills
    <2>2. stale = 0 /\ (stale' = 0 => src' - QUAD = src - i0)
      BY <1>3, ReadWhole
    <2>3. stale' = 0 => Written' = Written
      BY <2>1, <2>2 DEF Written
    <2> QED BY <1>0, <2>1, <2>2, <2>3 DEF CountInv, Running
  <1>4. CASE \E ii \in Slots : DecodeSet(ii)
    <2>1. pc = "decode" /\ pc' = "write" /\ UNCHANGED <<src, out, stale, cut>>
      BY <1>4, DecodeMoves
    <2>2. Written' = Written
      BY <2>1 DEF Written
    <2> QED BY <1>0, <2>1, <2>2 DEF CountInv, Running
  <1>5. CASE Wrote
    <2>1. PICK k \in 0..(QUAD - i0) : Gives(k)
      BY <1>5 DEF Wrote
    <2>2. /\ Cardinality(MetaRows(out')) = Cardinality(MetaRows(out)) + k
          /\ outfile = "none" \/ (cut' = cut /\ k = QUAD - i0) \/ cut' = cut + 1
      BY <2>1 DEF Gives
    <2>3. pc = "write" /\ pc' = "read" /\ UNCHANGED <<src, i0, stale>>
      BY <1>5 DEF Wrote, set
    <2>4. Written = src - QUAD /\ Written' = src - i0
      BY <2>3 DEF Written
    <2>5. SUFFICES ASSUME stale = 0, outfile # "none"
                   PROVE  Written' - Cardinality(MetaRows(out')) \in 0..(QUAD * cut')
      BY <1>0, <2>3 DEF CountInv
    <2>6. Written - Cardinality(MetaRows(out)) \in 0..(QUAD * cut)
      BY <2>3, <2>5 DEF CountInv, Running
    <2>7. PICK c \in Nat, c2 \in Nat, n \in Nat :
            c = cut /\ c2 = cut' /\ n = Cardinality(MetaRows(out))
      <3>1. cut' \in Nat
        BY <1>0, <2>2, <2>5
      <3>2. Cardinality(MetaRows(out)) \in Nat
        <4>1. MetaRows(out) \subseteq 1..Len(out) /\ IsFiniteSet(1..Len(out))
          BY <1>0, FS_Interval DEF MetaRows
        <4> QED BY <4>1, FS_Subset, FS_CardinalityType
      <3> QED BY <1>0, <3>1, <3>2
    <2>8. (src - i0) - (n + k) \in 0..(QUAD * c2)
      <3>1. src - QUAD - n \in 0..(QUAD * c) /\ ((c2 = c /\ k = QUAD - i0) \/ c2 = c + 1)
        BY <2>2, <2>4, <2>5, <2>6, <2>7
      <3> QED BY <1>0, <3>1
    <2> QED BY <2>2, <2>4, <2>7, <2>8
  <1>6. CASE UNCHANGED vars
    BY <1>6 DEF CountInv, Written, Running, vars, input, set, counters
  <1> QED BY <1>1, <1>2, <1>3, <1>4, <1>5, <1>6, Steps

\* The rows a write gives out.
LEMMA RowsWritten ==
  ASSUME TypeOK, NEW k \in 0..(QUAD - i0), Gives(k), NEW i \in MetaRows(out')
  PROVE  \/ i \in MetaRows(out) /\ out'[i] = out[i]
         \/ \E s \in Slots : s < k /\ i = Len(out) + 1 + s /\ out'[i] = Row(s)
  <1>1. /\ MetaRows(out') = MetaRows(out) \union ((Len(out) + 1)..(Len(out) + k))
        /\ \A j \in MetaRows(out) : out'[j] = out[j]
        /\ \A r \in 1..k : out'[Len(out) + r] = Row(r - 1)
    BY DEF Gives
  <1>2. k \in 0..4 /\ out \in Seq(RowType)
    <2>1. out \in Seq(RowType)
      BY OutType
    <2>2. i0 \in 0..3 /\ QUAD = 4
      BY SlotsAre DEF TypeOK
    <2> QED BY <2>1, <2>2
  <1>3. CASE i \in (Len(out) + 1)..(Len(out) + k)
    <2>1. PICK n \in Nat : n = Len(out)
      BY <1>2
    <2>2. PICK r \in 1..k : i = n + r
      BY <1>2, <1>3, <2>1, NewRow
    <2>3. r - 1 \in Slots /\ r - 1 < k /\ n + r = n + 1 + (r - 1)
      BY <1>2, SlotsAre
    <2>4. out'[i] = Row(r - 1)
      BY <1>1, <2>1, <2>2
    <2> HIDE DEF Row
    <2> QED BY <2>1, <2>2, <2>3, <2>4
  <1> QED BY <1>1, <1>3

\* A step keeps NumberInv: the set written last has its counts if the read was full.
LEMMA NumberStep ==
  ASSUME TypeOK, PlaceInv, WriteInv, NumberInv, [Next]_vars
  PROVE  NumberInv'
  <1>0. stream' = stream /\ (Sound4' <=> Sound4) /\ FirstSet' = FirstSet
    BY StreamStays DEF Sound4, SoundUpTo, FirstSet
  <1>1. CASE Enter
    BY <1>0, <1>1 DEF NumberInv, Fresh, Enter, set, counters
  <1>2. CASE Stop
    BY <1>0, <1>2 DEF NumberInv, Fresh, Stop, set, counters
  <1>3. CASE Read
    <2>1. stale = 0 /\ out' = out
      BY <1>3, ReadFills, ReadWhole
    <2> QED BY <1>0, <2>1 DEF NumberInv, Fresh
  <1>4. CASE \E ii \in Slots : DecodeSet(ii)
    <2>1. pc = "decode" /\ out' = out
      BY <1>4, DecodeMoves
    <2> QED BY <1>0, <2>1 DEF NumberInv, Fresh
  <1>5. CASE Wrote
    <2>1. PICK k \in 0..(QUAD - i0) : Gives(k)
      BY <1>5 DEF Wrote
    <2>2. pc = "write" /\ pc' = "read" /\ UNCHANGED <<stale, tot_samples>> /\ tot_samples \in Nat
      BY <1>5 DEF Wrote, TypeOK, set, counters
    <2>3. ASSUME Sound4, NEW i \in MetaRows(out'), out'[i].upto > FirstSet,
                 stale = 0 \/ out'[i].upto < tot_samples
          PROVE  out'[i].sc = out'[i].n % Counts
      <3>1. CASE i \in MetaRows(out) /\ out'[i] = out[i]
        BY <2>3, <3>1 DEF NumberInv, Fresh
      <3>2. CASE \E s \in Slots : s < k /\ i = Len(out) + 1 + s /\ out'[i] = Row(s)
        <4>1. PICK s \in Slots : out'[i] = Row(s)
          BY <3>2
        <4>2. /\ out'[i].upto = tot_samples /\ out'[i].n = samples[s].n
              /\ out'[i].sc = meta[s].sc
          BY <4>1 DEF Row
        <4>3. tot_samples > FirstSet /\ stale = 0
          BY <2>2, <2>3, <4>2
        <4>4. meta[s].sc = samples[s].n % Counts
          BY <2>2, <2>3, <4>3 DEF WriteInv
        <4> QED BY <4>2, <4>4
      <3> QED BY <2>1, <3>1, <3>2, RowsWritten
    <2> QED BY <1>0, <2>2, <2>3 DEF NumberInv, Fresh
  <1>6. CASE UNCHANGED vars
    BY <1>0, <1>6 DEF NumberInv, Fresh, vars, set, counters
  <1> QED BY <1>1, <1>2, <1>3, <1>4, <1>5, <1>6, Steps

\* A step keeps KnownInv.
LEMMA KnownStep ==
  ASSUME TypeOK, WriteInv, KnownInv, [Next]_vars
  PROVE  KnownInv'
  <1>0. stream' = stream /\ (Sound4' <=> Sound4) /\ \A n : Known(n)' <=> Known(n)
    BY StreamStays DEF Sound4, SoundUpTo, Known
  <1>1. CASE Stop
    BY <1>0, <1>1 DEF KnownInv, Known, Stop
  <1>2. CASE Enter \/ Read \/ (\E ii \in Slots : DecodeSet(ii)) \/ UNCHANGED vars
    <2>1. out' = out
      BY <1>2, ReadFills, DecodeMoves DEF Enter, vars
    <2> QED BY <1>0, <2>1 DEF KnownInv, Known
  <1>3. CASE Wrote
    <2>1. PICK k \in 0..(QUAD - i0) : Gives(k)
      BY <1>3 DEF Wrote
    <2>2. ASSUME Sound4, NEW i \in MetaRows(out') PROVE Known(out'[i].n)
      <3>1. CASE i \in MetaRows(out) /\ out'[i] = out[i]
        BY <2>2, <3>1 DEF KnownInv
      <3>2. CASE \E s \in Slots : s < k /\ i = Len(out) + 1 + s /\ out'[i] = Row(s)
        <4>1. PICK s \in Slots : out'[i] = Row(s)
          BY <3>2
        <4>2. out'[i].n = samples[s].n
          BY <4>1 DEF Row
        <4>3. Known(samples[s].n)
          BY <1>3, <2>2 DEF WriteInv, Wrote
        <4> QED BY <4>2, <4>3
      <3> QED BY <2>1, <3>1, <3>2, RowsWritten
    <2> QED BY <1>0, <2>2 DEF KnownInv, Known
  <1> QED BY <1>1, <1>2, <1>3, Steps

\* Counts grow along the stream.
LEMMA Increasing ==
  ASSUME TypeOK, StreamInv, NEW i \in 1..Len(stream), NEW j \in 1..Len(stream)
  PROVE  stream[i].n \in Nat /\ (i < j => stream[i].n < stream[j].n)
  <1>1. stream[i] \in Sample /\ stream[j] \in Sample
    BY DEF TypeOK
  <1>2. stream[i].n \in Nat /\ stream[j].n \in Nat
    BY <1>1 DEF Sample
  <1>3. i < j => stream[j].n - stream[i].n \in {j - i, j - i + 1}
    BY DEF StreamInv
  <1> QED BY <1>2, <1>3

\* The size of the first set, once one sample has been read.
LEMMA FirstSetType ==
  ASSUME TypeOK, FirstInv, tot_samples > 0
  PROVE  FirstSet \in 1..5
  <1>1. src > 0 /\ src \in 0..Len(stream) /\ Len(stream) \in Nat
    BY DEF FirstInv, TypeOK
  <1>2. stream[1] \in Sample
    BY <1>1 DEF TypeOK
  <1> QED BY <1>2, SlotsAre DEF FirstSet, Sample

\* Behind the first set, a write gives out the samples that follow those written.
LEMMA RowsFollow ==
  ASSUME TypeOK, StreamInv, FirstInv, ResidueInv, WriteInv, UptoInv, OrderInv, Wrote,
         Sound4, stale = 0,
         NEW k \in 0..(QUAD - i0), Gives(k), tot_samples > FirstSet
  PROVE  /\ i0 = 0 /\ src \in 1..Len(stream)
         /\ \A i \in MetaRows(out') : out'[i].upto > FirstSet => out'[i].n <= stream[src].n
         /\ \A i, j \in MetaRows(out') :
              i < j /\ out'[i].upto > FirstSet => out'[i].n < out'[j].n
  <1>1. pc = "write" /\ tot_samples > 0
    BY DEF Wrote, FirstInv
  <1>2. i0 = 0
    BY <1>1 DEF ResidueInv
  <1>3. src \in Nat /\ QUAD = 4 /\ Len(stream) \in Nat /\ out \in Seq(RowType)
    <2>1. out \in Seq(RowType)
      BY OutType
    <2> QED BY <2>1, SlotsAre DEF TypeOK
  <1>4. \A s \in 0..3 : src - 3 + s \in 1..Len(stream) /\ samples[s] = stream[src - 3 + s]
    <2>1. ASSUME NEW s \in 0..3
          PROVE  src - QUAD + 1 + s \in 1..Len(stream) /\ samples[s] = stream[src - QUAD + 1 + s]
      BY <1>1, SlotsAre DEF WriteInv, Holds
    <2>2. \A s \in 0..3 : src - QUAD + 1 + s = src - 3 + s
      BY <1>3
    <2> QED BY <2>1, <2>2
  <1>5. src \in 1..Len(stream)
    <2>1. src - 3 + 3 \in 1..Len(stream) /\ src - 3 + 3 = src
      BY <1>3, <1>4
    <2> QED BY <2>1
  \* The rows there were, and the new ones.
  <1> DEFINE Old(i) == i \in MetaRows(out) /\ out'[i] = out[i]
             New(i, s) == s < k /\ i = Len(out) + 1 + s /\ out'[i] = Row(s)
  <1>6. ASSUME NEW i \in MetaRows(out') PROVE Old(i) \/ \E s \in 0..3 : New(i, s)
    BY RowsWritten, SlotsAre
  <1>7. ASSUME NEW i, Old(i), out'[i].upto > FirstSet
        PROVE  src - 4 \in 1..Len(stream) /\ out'[i].n <= stream[src - 4].n /\ out'[i].n \in Nat
    <2>1. Written = src - 4
      BY <1>1, <1>3 DEF Written
    <2>2. Written \in 1..Len(stream) /\ out[i].n <= stream[Written].n
      BY <1>1, <1>7 DEF OrderInv, Running
    <2>3. out[i] \in RowType
      BY <1>3, <1>7 DEF MetaRows
    <2> QED BY <1>7, <2>1, <2>2, <2>3 DEF RowType
  <1>8. ASSUME NEW i, NEW s \in 0..3, New(i, s)
        PROVE  out'[i].n = stream[src - 3 + s].n
    BY <1>4, <1>8 DEF Row
  <1>9. ASSUME NEW i \in MetaRows(out'), out'[i].upto > FirstSet
        PROVE  out'[i].n <= stream[src].n
    <2>1. CASE Old(i)
      <3>1. src - 4 < src
        BY <1>3
      <3>2. stream[src - 4].n \in Nat /\ stream[src - 4].n < stream[src].n /\ stream[src].n \in Nat
        BY <1>5, <1>7, <1>9, <2>1, <3>1, Increasing
      <3>3. out'[i].n <= stream[src - 4].n /\ out'[i].n \in Nat
        BY <1>7, <1>9, <2>1
      <3> QED BY <3>2, <3>3
    <2>2. ASSUME NEW s \in 0..3, New(i, s) PROVE out'[i].n <= stream[src].n
      <3>1. src - 3 + s < src \/ src - 3 + s = src
        BY <1>3
      <3>2. src - 3 + s \in 1..Len(stream)
        BY <1>4
      <3>3. /\ stream[src - 3 + s].n \in Nat /\ stream[src].n \in Nat
            /\ src - 3 + s < src => stream[src - 3 + s].n < stream[src].n
        BY <1>5, <3>2, Increasing
      <3>4. out'[i].n = stream[src - 3 + s].n
        BY <1>8, <2>2
      <3> QED BY <3>1, <3>3, <3>4
    <2> HIDE DEF Old, New
    <2> QED BY <1>6, <2>1, <2>2
  <1>10. ASSUME NEW i \in MetaRows(out'), NEW j \in MetaRows(out'), i < j,
                out'[i].upto > FirstSet
         PROVE  out'[i].n < out'[j].n
    <2>0. i \in Int /\ j \in Int
      BY DEF MetaRows
    <2>1. CASE Old(i) /\ Old(j)
      BY <1>10, <2>1 DEF OrderInv
    <2>2. ASSUME NEW t \in 0..3, Old(i), New(j, t) PROVE out'[i].n < out'[j].n
      <3>1. src - 4 < src - 3 + t /\ src - 3 + t \in 1..Len(stream)
        BY <1>3, <1>4
      <3>2. src - 4 \in 1..Len(stream) /\ out'[i].n <= stream[src - 4].n /\ out'[i].n \in Nat
        BY <1>7, <1>10, <2>2
      <3>3. /\ stream[src - 4].n \in Nat /\ stream[src - 3 + t].n \in Nat
            /\ stream[src - 4].n < stream[src - 3 + t].n
        BY <3>1, <3>2, Increasing
      <3>4. out'[j].n = stream[src - 3 + t].n
        BY <1>8, <2>2
      <3> QED BY <3>2, <3>3, <3>4
    <2>3. ASSUME NEW s \in 0..3, New(i, s), Old(j) PROVE FALSE
      <3>1. j <= Len(out) /\ Len(out) \in Nat
        BY <1>3, <2>3 DEF MetaRows
      <3> QED BY <1>10, <2>0, <2>3, <3>1
    <2>4. ASSUME NEW s \in 0..3, NEW t \in 0..3, New(i, s), New(j, t)
          PROVE  out'[i].n < out'[j].n
      <3>1. s < t
        <4>1. Len(out) \in Nat
          BY <1>3
        <4> QED BY <1>10, <2>4, <4>1
      <3>2. /\ src - 3 + s < src - 3 + t /\ src - 3 + s \in 1..Len(stream)
            /\ src - 3 + t \in 1..Len(stream)
        BY <1>3, <1>4, <3>1
      <3>3. stream[src - 3 + s].n < stream[src - 3 + t].n
        BY <3>2, Increasing
      <3>4. out'[i].n = stream[src - 3 + s].n
        BY <1>8, <2>4
      <3>5. out'[j].n = stream[src - 3 + t].n
        BY <1>8, <2>4
      <3> QED BY <3>3, <3>4, <3>5
    <2> HIDE DEF Old, New
    <2> QED BY <1>6, <2>1, <2>2, <2>3, <2>4
  <1> QED BY <1>2, <1>5, <1>9, <1>10

\* A step keeps OrderInv: a set follows the ones before it.
LEMMA OrderStep ==
  ASSUME TypeOK, StreamInv, FirstInv, PlaceInv, ResidueInv, WriteInv, UptoInv, OrderInv,
         [Next]_vars
  PROVE  OrderInv'
  <1>0. stream' = stream /\ (Sound4' <=> Sound4) /\ FirstSet' = FirstSet
    BY StreamStays DEF Sound4, SoundUpTo, FirstSet
  <1>1. CASE Enter
    <2>1. out' = <<>>
      BY <1>1 DEF FirstInv, Enter
    <2>2. MetaRows(out') = {}
      BY <2>1 DEF MetaRows
    <2> QED BY <2>2 DEF OrderInv
  <1>2. CASE Stop
    BY <1>0, <1>2 DEF OrderInv, Running, Stop
  <1>3. CASE Read
    <2>1. pc = "read" /\ pc' = "decode" /\ out' = out
      BY <1>3, ReadFills
    <2>2. stale = 0 /\ (stale' = 0 => src' - QUAD = src - i0)
      BY <1>3, ReadWhole
    <2>3. stale' = 0 => Written' = Written
      BY <2>1, <2>2 DEF Written
    <2> QED BY <1>0, <2>1, <2>2, <2>3 DEF OrderInv, Running
  <1>4. CASE \E ii \in Slots : DecodeSet(ii)
    <2>1. pc = "decode" /\ pc' = "write" /\ UNCHANGED <<src, out, stale>>
      BY <1>4, DecodeMoves
    <2>2. Written' = Written
      BY <2>1 DEF Written
    <2> QED BY <1>0, <2>1, <2>2 DEF OrderInv, Running
  <1>5. CASE Wrote
    <2>1. PICK k \in 0..(QUAD - i0) : Gives(k)
      BY <1>5 DEF Wrote
    <2>2. pc = "write" /\ pc' = "read" /\ UNCHANGED <<stale, src, i0, tot_samples>>
      BY <1>5 DEF Wrote, set, counters
    <2>3. Written' = src - i0
      BY <2>2 DEF Written
    <2>4. SUFFICES ASSUME Sound4, stale = 0 PROVE OrderInv'
      BY <1>0, <2>2 DEF OrderInv
    <2>5. CASE tot_samples > FirstSet
      <3>1. /\ i0 = 0 /\ src \in 1..Len(stream)
            /\ \A i \in MetaRows(out') : out'[i].upto > FirstSet => out'[i].n <= stream[src].n
            /\ \A i, j \in MetaRows(out') :
                 i < j /\ out'[i].upto > FirstSet => out'[i].n < out'[j].n
        BY <1>5, <2>1, <2>4, <2>5, RowsFollow
      <3>2. Written' = src
        BY <2>3, <3>1
      <3> QED BY <1>0, <3>1, <3>2 DEF OrderInv
    <2>6. CASE ~(tot_samples > FirstSet)
      <3>1. \A i \in MetaRows(out') : ~(out'[i].upto > FirstSet)
        <4>1. UptoInv'
          BY UptoStep
        <4>2. tot_samples \in Nat /\ FirstSet \in Nat
          <5>1. tot_samples > 0
            BY <2>2 DEF FirstInv
          <5> QED BY <5>1, FirstSetType DEF TypeOK
        <4>3. \A i \in MetaRows(out') : out'[i].upto \in 1..tot_samples
          BY <2>2, <4>1 DEF UptoInv
        <4> QED BY <2>6, <4>2, <4>3
      <3> QED BY <1>0, <3>1 DEF OrderInv
    <2> QED BY <2>5, <2>6
  <1>6. CASE UNCHANGED vars
    BY <1>0, <1>6 DEF OrderInv, Written, Running, vars, input, set, counters
  <1> QED BY <1>1, <1>2, <1>3, <1>4, <1>5, <1>6, Steps

-----------------------------------------------------------------------------
(* A sound stream.                                                          *)

\* After a full read of a sound stream the loop finds a set: in the first one
\* nothing is checked before the first sample, later ones follow a subframe 4.
LEMMA SetIsFound ==
  ASSUME TypeOK, StreamInv, FirstInv, PlaceInv, AlignInv, Sound, stale = 0, pc = "decode"
  PROVE  (\A s \in Slots : Valid(s)) /\ (\E ii \in Slots : EndsAt(ii))
  <1>1. src \in Nat /\ QUAD = 4 /\ Len(stream) \in Nat /\ i0 \in 0..3 /\ tot_samples \in Nat
    BY SlotsAre DEF TypeOK
  <1>2. \A s \in Slots : src - 3 + s \in 1..Len(stream) /\ samples[s] = stream[src - 3 + s]
    <2>1. \A s \in Slots :
            src - QUAD + 1 + s \in 1..Len(stream) /\ samples[s] = stream[src - QUAD + 1 + s]
      BY DEF PlaceInv, Holds
    <2>2. \A s \in Slots : src - QUAD + 1 + s = src - 3 + s
      BY <1>1, SlotsAre
    <2> QED BY <2>1, <2>2
  <1>3. \A k \in 1..Len(stream) :
          /\ stream[k].id /\ stream[k].n = stream[1].n + k - 1
          /\ stream[k].frame = Subframe(stream[k].n) /\ stream[k].n \in Nat /\ stream[k].n > 0
    <2>1. \A k \in 1..Len(stream) : stream[k] \in Sample
      BY DEF TypeOK
    <2> QED BY <1>1, <2>1 DEF Sound, SoundUpTo, StreamInv, Sent, Sample
  <1>4. PICK n0 \in Nat : n0 = samples[0].n /\ n0 > 0
    BY <1>2, <1>3, SlotsAre
  <1>5. ASSUME NEW s \in Slots
        PROVE  samples[s].id /\ samples[s].frame = Subframe(n0 + s)
    <2>1. PICK k \in 1..Len(stream), k0 \in 1..Len(stream) :
            k = src - 3 + s /\ k0 = src - 3 + 0
      BY <1>2, SlotsAre
    <2>2. k = k0 + s /\ s \in 0..3
      BY <1>1, <2>1, SlotsAre
    <2>3. samples[s] = stream[k] /\ samples[0] = stream[k0]
      BY <1>2, <2>1, SlotsAre
    <2>4. /\ stream[k].n = stream[1].n + k - 1 /\ stream[k0].n = stream[1].n + k0 - 1
          /\ stream[1].n \in Nat
      <3>1. 1 \in 1..Len(stream)
        BY <1>1, <2>1
      <3> QED BY <1>3, <3>1
    <2>5. stream[k].n = n0 + s
      BY <1>4, <2>2, <2>3, <2>4
    <2> QED BY <1>3, <2>3, <2>5
  <1>6. tot_samples = 0 => i0 = 0
    BY DEF FirstInv
  <1>7. tot_samples # 0 => n0 % 4 = 0
    <2> SUFFICES ASSUME tot_samples # 0 PROVE n0 % 4 = 0
      OBVIOUS
    <2>1. PICK D \in 1..Len(stream) : D = src - 4 /\ stream[D].frame = 4
      <3>1. Decoded = src - 4
        BY <1>1 DEF Decoded
      <3>2. Decoded \in 0..Len(stream) /\ Decoded # 0 /\ (Decoded > 0 => stream[Decoded].frame = 4)
        BY DEF AlignInv, Running
      <3> QED BY <1>1, <3>1, <3>2
    <2>2. PICK k0 \in 1..Len(stream) : k0 = src - 3 + 0 /\ samples[0] = stream[k0]
      BY <1>2, SlotsAre
    <2>3. k0 = D + 1
      BY <1>1, <2>1, <2>2
    <2>4. /\ stream[k0].n = stream[1].n + k0 - 1 /\ stream[D].n = stream[1].n + D - 1
          /\ stream[1].n \in Nat /\ 4 = Subframe(stream[D].n) /\ stream[D].n \in Nat
      <3>1. 1 \in 1..Len(stream)
        BY <1>1, <2>1
      <3> QED BY <1>3, <2>1, <3>1
    <2>5. stream[D].n = n0 - 1
      BY <1>4, <2>2, <2>3, <2>4
    <2>6. (n0 - 1) % 4 = 3
      BY <1>4, <2>4, <2>5 DEF Subframe, QUAD
    <2> QED BY <1>4, <2>6
  <1>8. PICK ii \in 0..3 : ii = 3 - (n0 % 4)
    <2>1. n0 % 4 \in 0..3
      OBVIOUS
    <2>2. 3 - (n0 % 4) \in 0..3
      BY <2>1
    <2> QED BY <2>2
  <1>9. \A s \in 0..3 : s <= ii => Subframe(n0 + s) = (n0 % 4) + 1 + s
    BY <1>8 DEF Subframe, QUAD
  <1>10. i0 <= ii
    <2>1. CASE tot_samples = 0
      BY <1>6, <1>8, <2>1
    <2>2. CASE tot_samples # 0
      BY <1>1, <1>7, <1>8, <2>2
    <2> QED BY <2>1, <2>2
  <1>11. \A s \in Slots : Valid(s)
    BY <1>4, <1>5, SubframeRange, SlotsAre DEF Valid
  <1>12. ASSUME NEW s \in Slots, i0 <= s, s <= ii PROVE InSequence(s)
    <2>1. CASE s = 0
      <3>1. CASE tot_samples = 0
        <4>1. tot_samples + (s - i0) = 0
          BY <1>6, <2>1, <3>1
        <4> QED BY <4>1 DEF InSequence
      <3>2. CASE tot_samples # 0
        <4>1. samples[s].frame = 1 /\ LastFrame(s) = 0
          <5>1. samples[s].frame = Subframe(n0 + s) /\ LastFrame(s) = 0
            BY <1>5, <2>1 DEF LastFrame
          <5>2. Subframe(n0 + s) = 1
            BY <1>4, <1>7, <2>1, <3>2 DEF Subframe, QUAD
          <5> QED BY <5>1, <5>2
        <4> QED BY <4>1 DEF InSequence
      <3> QED BY <3>1, <3>2
    <2>2. CASE s # 0
      <3>1. s \in 0..3 /\ s - 1 \in 0..3 /\ s - 1 \in Slots /\ s - 1 <= ii
        BY <1>12, <2>2, SlotsAre
      <3>2. samples[s].frame = (n0 % 4) + 1 + s /\ samples[s - 1].frame = (n0 % 4) + 1 + (s - 1)
        BY <1>5, <1>9, <1>12, <3>1
      <3>3. samples[s].frame = samples[s - 1].frame + 1
        BY <1>4, <3>1, <3>2
      <3> QED BY <2>2, <3>3 DEF InSequence, LastFrame
    <2> QED BY <2>1, <2>2
  <1>13. samples[ii].frame = 4 /\ \A s \in 0..3 : s < ii => samples[s].frame # 4
    <2>1. ASSUME NEW s \in 0..3, s <= ii PROVE samples[s].frame = 4 - ii + s
      <3>1. samples[s].frame = Subframe(n0 + s) /\ Subframe(n0 + s) = (n0 % 4) + 1 + s
        BY <1>5, <1>9, <2>1, SlotsAre
      <3>2. (n0 % 4) + 1 = 4 - ii /\ n0 % 4 \in 0..3
        BY <1>4, <1>8
      <3> QED BY <3>1, <3>2
    <2>2. samples[ii].frame = 4 - ii + ii
      BY <2>1
    <2>3. ASSUME NEW s \in 0..3, s < ii PROVE samples[s].frame # 4
      BY <2>1, <2>3
    <2> QED BY <2>2, <2>3
  <1>14. EndsAt(ii)
    <2>1. ii \in Slots /\ \A t \in i0..(ii - 1) : t \in Slots /\ t \in 0..3 /\ i0 <= t /\ t < ii
      BY <1>1, SlotsAre
    <2>2. Reaches(ii)
      BY <1>10, <1>11, <1>12, <1>13, <2>1 DEF Reaches
    <2> QED BY <1>10, <1>11, <1>12, <1>13, <2>1, <2>2 DEF EndsAt
  <1> QED BY <1>11, <1>14, SlotsAre

\* A step keeps SoundIsAccepted: decode finds the set of a full read.
LEMMA SoundStep ==
  ASSUME TypeOK, StreamInv, FirstInv, PlaceInv, AlignInv, SoundIsAccepted, [Next]_vars
  PROVE  SoundIsAccepted'
  <1>0. Sound' <=> Sound
    BY StreamStays DEF Sound, SoundUpTo
  <1>1. CASE UNCHANGED vars
    BY <1>0, <1>1 DEF SoundIsAccepted, vars
  <1>2. CASE Ui
    <2>1. tot_samples = 0 /\ src = 0 /\ src' = src
      BY <1>2 DEF FirstInv, Ui, Goto, Ends
    <2> QED BY <2>1 DEF SoundIsAccepted
  <1>3. CASE BadSequence \/ \E s \in Slots : NotValid(s)
    <2>1. pc = "decode" /\ UNCHANGED <<src, stale>>
      BY <1>3 DEF BadSequence, NotValid, Ends
    <2>2. SUFFICES ASSUME Sound, stale = 0 PROVE FALSE
      BY <1>0, <2>1 DEF SoundIsAccepted
    <2>3. (\A s \in Slots : Valid(s)) /\ \E ii \in Slots : EndsAt(ii)
      BY <2>1, <2>2, SetIsFound
    <2> QED BY <1>3, <2>3 DEF BadSequence, NotValid
  <1>4. CASE Main \/ End \/ WriteFails
    BY <1>4 DEF Main, End, WriteFails, Goto, Ends, SoundIsAccepted
  <1>5. CASE Read
    BY <1>5 DEF Read, SoundIsAccepted
  <1>6. CASE \E ii \in Slots : DecodeSet(ii)
    BY <1>6 DEF DecodeSet, SoundIsAccepted
  <1>7. CASE Write \/ WriteCut
    BY <1>7 DEF Write, WriteCut, SoundIsAccepted
  <1> QED BY <1>1, <1>2, <1>3, <1>4, <1>5, <1>6, <1>7 DEF Next

-----------------------------------------------------------------------------
(* The invariant is inductive.                                              *)

\* The invariant holds at the beginning.
LEMMA InitIInv == Init => IInv
  <1> SUFFICES ASSUME Init PROVE IInv
    OBVIOUS
  <1>1. stream \in Seq(Sample) /\ StreamInv
    BY StreamInit
  <1>2. /\ pc = "ui" /\ src = 0 /\ samples = [s \in Slots |-> Garbage] /\ i0 = 0
        /\ meta = [s \in Slots |-> [sc |-> 0, di |-> {}]] /\ tot_samples = 0
        /\ di_previous = NoDi /\ transitions = [b \in 1..NDI |-> 0] /\ out = <<>>
        /\ stale = 0 /\ cut = 0 /\ outfile \in {"none", "-", "FILE"}
    BY DEF Init
  <1>3. TypeOK
    <2>1. samples \in [Slots -> Sample]
      BY <1>2, GarbageType
    <2>2. meta \in [Slots -> [sc : 0..(Counts - 1), di : SUBSET (1..NDI)]]
      BY <1>2, WeightsNat
    <2>3. src \in 0..Len(stream) /\ cut \in 0..MaxCuts /\ i0 \in Slots /\ stale \in Slots
      BY <1>1, <1>2, CutsAssumption, SlotsAre
    <2> QED BY <1>1, <1>2, <2>1, <2>2, <2>3 DEF TypeOK
  <1>4. MetaRows(out) = {}
    BY <1>2 DEF MetaRows
  <1>5. FirstInv /\ OriginInv /\ PlaceInv
    BY <1>2, SlotsAre DEF FirstInv, OriginInv, PlaceInv
  <1>6. AlignInv /\ DiInv /\ ResidueInv /\ WriteInv /\ CountInv /\ SoundIsAccepted
    BY <1>2 DEF AlignInv, DiInv, ResidueInv, WriteInv, CountInv, SoundIsAccepted, Running
  <1>7. UptoInv /\ NumberInv /\ KnownInv /\ OrderInv
    BY <1>4 DEF UptoInv, NumberInv, KnownInv, OrderInv
  <1> QED BY <1>1, <1>3, <1>5, <1>6, <1>7 DEF IInv

\* A step keeps the stream's invariant.
LEMMA StreamStep ==
  ASSUME TypeOK, StreamInv, [Next]_vars
  PROVE  StreamInv'
  BY StreamStays DEF StreamInv, Sent

\* Every step keeps the invariant.
LEMMA NextIInv == IInv /\ [Next]_vars => IInv'
  <1> SUFFICES ASSUME IInv, [Next]_vars PROVE IInv'
    OBVIOUS
  <1>0. /\ TypeOK /\ StreamInv /\ FirstInv /\ PlaceInv /\ OriginInv /\ AlignInv /\ DiInv
        /\ ResidueInv /\ WriteInv /\ UptoInv /\ CountInv /\ NumberInv /\ KnownInv /\ OrderInv
        /\ SoundIsAccepted
    BY DEF IInv
  <1>1. TypeOK' /\ StreamInv' /\ FirstInv' /\ PlaceInv' /\ OriginInv'
    BY <1>0, TypeStep, StreamStep, FirstStep, PlaceStep, OriginStep
  <1>2. AlignInv' /\ DiInv' /\ ResidueInv' /\ WriteInv'
    BY <1>0, AlignStep, DiStep, ResidueStep, WriteStep
  <1>3. UptoInv' /\ CountInv' /\ NumberInv' /\ KnownInv' /\ OrderInv'
    BY <1>0, UptoStep, CountStep, NumberStep, KnownStep, OrderStep
  <1>4. SoundIsAccepted'
    BY <1>0, SoundStep
  <1> QED BY <1>1, <1>2, <1>3, <1>4 DEF IInv

\* The invariant holds in every reachable state.
THEOREM Inductive == Spec => []IInv
  <1>1. Init => IInv
    BY InitIInv
  <1>2. IInv /\ [Next]_vars => IInv'
    BY NextIInv
  <1> QED BY <1>1, <1>2, PTL DEF Spec

-----------------------------------------------------------------------------
(* What it says.                                                            *)

\* Every variable has its type, i0 leaves room for a sample, and the counts
\* beside samples are numbers of 32 bits.
THEOREM TypeCorrect == Spec => []TypeOK
  <1>1. IInv => TypeOK
    BY DEF IInv
  <1> QED BY <1>1, Inductive, PTL

\* decode() writes the right count beside every sample behind the first set,
\* whatever is lost on the way and whatever a short last fread leaves behind.
THEOREM Numbered == Spec => []RowsNumbered
  <1>1. IInv => RowsNumbered
    <2> SUFFICES ASSUME IInv, Sound4, NEW i \in 1..Len(out), HasMeta(out[i]),
                        out[i].upto > FirstSet, stale > 0 => out[i].upto < tot_samples
                 PROVE  out[i].sc = out[i].n % Counts
      BY DEF RowsNumbered, Sound4
    <2>1. stale = 0 \/ stale > 0
      BY SlotsAre DEF IInv, TypeOK
    <2> QED BY <2>1 DEF IInv, NumberInv, MetaRows, Fresh
  <1> QED BY <1>1, Inductive, PTL

\* read() gives every sample of a decoded set one row, in the order of stdin,
\* but for what a writev that was cut short lost.
THEOREM RowsComplete == Spec => []AllRows
  <1>1. IInv => AllRows
    <2> SUFFICES ASSUME IInv, Sound4, stale = 0, outfile # "none"
                 PROVE  /\ pc = "read" =>
                             src - i0 - Cardinality(MetaRows(out)) \in 0..(QUAD * cut)
                        /\ \A i, j \in MetaRows(out) :
                             i < j /\ out[i].upto > FirstSet => out[i].n < out[j].n
      BY DEF AllRows, Sound4, MetaRows
    <2>1. pc = "read" => src - i0 - Cardinality(MetaRows(out)) \in 0..(QUAD * cut)
      BY DEF IInv, CountInv, Written, Running
    <2> QED BY <2>1 DEF IInv, OrderInv
  <1> QED BY <1>1, Inductive, PTL

\* decode() stops at a damaged sample: none behind the first fread gets a row.
THEOREM DamageStops == Spec => []StopsOnError
  <1>1. IInv => StopsOnError
    <2> SUFFICES ASSUME IInv, Sound4, NEW i \in 1..Len(out), NEW j \in 1..Len(stream),
                        HasMeta(out[i]), stream[j].n = out[i].n
                 PROVE  stream[j].id
      BY DEF StopsOnError, Sound4
    <2>1. TypeOK /\ StreamInv /\ Known(out[i].n)
      BY DEF IInv, KnownInv, MetaRows
    <2>2. stream[j].n > 0
      BY <2>1 DEF StreamInv, Sent
    <2>3. PICK k \in 1..Len(stream) : stream[j].n = stream[k].n /\ stream[k].id
      BY <2>1, <2>2 DEF Known
    <2>4. /\ stream[j].n \in Nat /\ stream[k].n \in Nat
          /\ j < k => stream[j].n < stream[k].n
          /\ k < j => stream[k].n < stream[j].n
      BY <2>1, Increasing
    <2>5. j = k
      BY <2>3, <2>4
    <2> QED BY <2>3, <2>5
  <1> QED BY <1>1, Inductive, PTL

\* decode() rejects no sound stream, in whatever subframe it begins.
THEOREM Accepted == Spec => []SoundIsAccepted
  <1>1. IInv => SoundIsAccepted
    BY DEF IInv
  <1> QED BY <1>1, Inductive, PTL

\* count_states() counts every change of the inputs once, within a set and from
\* one set to the next.
THEOREM TransitionsCounted == Spec => []DiTransitions
  <1>1. IInv => DiTransitions
    <2> SUFFICES ASSUME IInv, pc = "read", stale = 0, NEW b \in 1..NDI
                 PROVE  transitions[b] = Cardinality(Edges(b, src - i0))
      BY DEF DiTransitions, Edges
    <2> QED BY DEF IInv, DiInv, Decoded, Running
  <1> QED BY <1>1, Inductive, PTL

=============================================================================
