---------------------------- MODULE SpadDecoder ----------------------------
(***************************************************************************)
(* acq400_spad_frame_decoder: a stream of samples, each with a SPAD_FRAME  *)
(* word, is read four at a time; a set that ends in subframe 4 gives its   *)
(* samples a sample count, and what follows it moves to the front.         *)
(*                                                                         *)
(*   pc           "ui", "main", then "read", "decode" and "write" within   *)
(*                Sample::read; "done" or "error" (exit(1))                *)
(*   stream       what stdin delivers until end of file                    *)
(*   outfile      option -o: "none", "-" or "FILE"                         *)
(*   src          samples taken from stdin                                 *)
(*   samples      the four slots of Sample::samples                        *)
(*   i0           slots at the front that hold samples of the next set     *)
(*   meta         Sample::meta, the column sc and the column di            *)
(*   tot_samples, di_previous, transitions                                 *)
(*                the counters; transitions adds the two rows of DISTATES, *)
(*                as print_states does                                     *)
(*   out          what was written to stdout, a pipe or a file: rows and   *)
(*                other pieces, which have no count; a row has the number  *)
(*                of samples decoded before it was written (history)       *)
(*   stale, cut   slots the last short fread did not fill, and writes that *)
(*                were cut short (history)                                 *)
(*                                                                         *)
(* The words SEW1 and SEW2 are put together like the sample count and are  *)
(* left out; of the data columns, a sample keeps the count n the UUT gave  *)
(* it.  The UUT numbers samples from 1, and sample 3 carries subframe 4.   *)
(* For -o FILE the file is opened, and the rows go to stdout all the same. *)
(***************************************************************************)
EXTENDS Integers, Sequences, FiniteSets

CONSTANTS
  Radix,        \* values of the byte that carries part of the count (256)
  NDI,          \* digital inputs (4)
  Starts,       \* counts the first sample may have
  MaxLen,       \* bound: samples in a stream
  DiStates,     \* bound: states of the inputs, sets of 1..NDI
  MaxFlips,     \* bound: changes of the inputs in a stream
  MaxCuts       \* bound: writes cut short

QUAD == 4

\* What a byte k places above the lowest counts, and the number of counts four
\* bytes hold.
Weight(k) ==
  CASE k = 0 -> 1 [] k = 1 -> Radix [] k = 2 -> Radix * Radix [] k = 3 -> Radix * Radix * Radix
Counts == Radix * Weight(3)

ASSUME RadixAssumption == Radix \in Nat /\ Radix >= QUAD
ASSUME StartsAssumption == Starts \subseteq Nat \ {0} /\ MaxLen \in Nat
ASSUME DiAssumption == NDI \in Nat /\ DiStates \subseteq SUBSET (1..NDI)
ASSUME CutsAssumption == MaxFlips \in Nat /\ MaxCuts \in Nat

VARIABLES pc, stream, outfile, src, samples, i0, meta, tot_samples,
          di_previous, transitions, out, stale, cut

counters == <<tot_samples, di_previous, transitions>>
input == <<stream, outfile>>
set == <<samples, i0, meta, counters>>
vars == <<pc, input, src, set, out, stale, cut>>

-----------------------------------------------------------------------------
(* The stream (external): what a UUT with spad=2 sends.                     *)

Subframe(n) == (n % QUAD) + 1

\* The count of the sample that ends the set of sample n, and its bytes, the
\* most significant in subframe 1.
SetCount(n) == n - (n % QUAD) + 3
CountByte(n) == (SetCount(n) \div Weight(QUAD - Subframe(n))) % Radix

SampleOf(n, di) ==
  [n |-> n, id |-> TRUE, frame |-> Subframe(n), scbyte |-> CountByte(n), di |-> di]

\* One fault at most: sample number p of the stream is lost, or its channel
\* ids are damaged.
Faults == {[kind |-> "none", at |-> 0]} \union
          {[kind |-> k, at |-> p] : k \in {"lost", "damaged"}, p \in 1..MaxLen}

StreamOf(start, len, di, f) ==
  [i \in 1..len |->
     LET n == IF f.kind = "lost" /\ i >= f.at THEN start + i ELSE start + i - 1
     IN [SampleOf(n, di[i]) EXCEPT !.id = ~(f.kind = "damaged" /\ i = f.at)]]

\* Memory of a new Sample, before fread has filled it: no channel ids.
Garbage == [n |-> 0, id |-> FALSE, frame |-> 0, scbyte |-> 0, di |-> {}]

Slots == 0..(QUAD - 1)
NoDi == {0}                     \* DI_PREVIOUS_NONE
NoCount == -1                   \* a sample written without its metadata

-----------------------------------------------------------------------------
(* ui() and main().                                                         *)

\* Bytes on stdout that are no row: a part of one, a sample that was found not
\* to be valid, or the line "hello" that ui() prints, which stdio gives out
\* when the process ends.
Scrap == [n |-> 0, sc |-> NoCount, di |-> NoDi, upto |-> 0]

Ends(state, written) ==
  /\ pc' = state
  /\ out' = IF outfile = "none" THEN written ELSE Append(written, Scrap)
  /\ UNCHANGED <<input, src, set, stale, cut>>

Goto(p) == pc' = p /\ UNCHANGED <<input, src, set, out, stale, cut>>

\* A FILE that cannot be opened is an exit.
Ui ==
  /\ pc = "ui"
  /\ Goto("main") \/ (outfile = "FILE" /\ Ends("error", out))

\* A number of channels other than 16, 32 or 64 is a message and the end.
Main ==
  /\ pc = "main"
  /\ Goto("read") \/ Ends("done", out)

-----------------------------------------------------------------------------
(* read(): fread.                                                           *)

Least(a, b) == IF a < b THEN a ELSE b

\* fread fills the free slots; it returns fewer samples at end of file only.
Read ==
  LET free == QUAD - i0
      rc   == Least(free, Len(stream) - src)
  IN /\ pc = "read"
     /\ rc > 0
     /\ samples' = [s \in Slots |->
                      IF s >= i0 /\ s < i0 + rc THEN stream[src + s - i0 + 1] ELSE samples[s]]
     /\ src' = src + rc
     /\ stale' = free - rc
     /\ pc' = "decode"
     /\ UNCHANGED <<input, i0, meta, counters, out, cut>>

\* End of file: run() prints the transitions.
End ==
  /\ pc = "read"
  /\ src = Len(stream)
  /\ Ends("done", out)

-----------------------------------------------------------------------------
(* decode().                                                                *)

\* valid_sample(samples[s])
Valid_FrameOnly(s) == samples[s].frame \in 1..4
Valid(s) == samples[s].id /\ samples[s].frame \in 1..4

\* last_frame when the loop is at slot s.
LastFrame_Zero(s) == IF s = i0 THEN 0 ELSE samples[s - 1].frame
LastFrame(s) == IF s = 0 THEN 0 ELSE samples[s - 1].frame

\* The frame sequence check; tot_samples counts the slots already passed.
InSequence_Any(s) == TRUE
InSequence(s) == tot_samples + (s - i0) # 0 => samples[s].frame = LastFrame(s) + 1

\* The loop reaches slot s: every slot before it passed and had no subframe 4.
Reaches(s) ==
  s >= i0 /\ \A t \in i0..(s - 1) : Valid(t) /\ InSequence(t) /\ samples[t].frame # 4
EndsAt(s) == Reaches(s) /\ Valid(s) /\ InSequence(s) /\ samples[s].frame = 4

\* Slots 0..ii hold a set: their bytes are a number, the last one lowest.
Assembled(ii) ==
  LET part(k) == IF k <= ii THEN samples[ii - k].scbyte * Weight(k) ELSE 0
  IN part(0) + part(1) + part(2) + part(3)

\* meta[ic].sc, as an unsigned 32 bit number.
SampleCount(ii, ic) == (Assembled(ii) - (ii - ic)) % Counts

\* count_states(di4(samples[ic])) for the slots 0..ii in turn.
Before_None(ic) == IF ic = 0 THEN NoDi ELSE samples[ic - 1].di
Before(ic) == IF ic = 0 THEN di_previous ELSE samples[ic - 1].di
Changes(b, ii) ==
  Cardinality({ic \in 0..ii : /\ Before(ic) # NoDi
                              /\ (b \in Before(ic)) # (b \in samples[ic].di)})

\* The slots once the samples behind slot ii are at the front, and their number.
Shuffled(ii) ==
  [s \in Slots |-> IF s < QUAD - 1 - ii THEN samples[ii + 1 + s] ELSE samples[s]]
Residue_OneMore(ii) == QUAD - ii
Residue(ii) == QUAD - 1 - ii

DecodeSet(ii) ==
  /\ pc = "decode"
  /\ EndsAt(ii)
  /\ tot_samples' = tot_samples + (ii - i0) + 1
  /\ meta' = [s \in Slots |->
                IF s <= ii THEN [sc |-> SampleCount(ii, s), di |-> samples[s].di] ELSE meta[s]]
  /\ transitions' = [b \in 1..NDI |-> transitions[b] + Changes(b, ii)]
  /\ di_previous' = samples[ii].di
  /\ samples' = Shuffled(ii)
  /\ i0' = Residue(ii)
  /\ pc' = "write"
  /\ UNCHANGED <<input, src, out, stale, cut>>

\* A sample that is not valid is written as it is, and the program exits.
NotValid(s) ==
  /\ pc = "decode"
  /\ Reaches(s) /\ ~Valid(s)
  /\ Ends("error", Append(out, [Scrap EXCEPT !.n = samples[s].n]))

\* "frame sequence error", or four samples without a subframe 4.
BadSequence ==
  /\ pc = "decode"
  /\ \A s \in Slots : ~EndsAt(s) /\ ~(Reaches(s) /\ ~Valid(s))
  /\ Ends("error", out)

-----------------------------------------------------------------------------
(* read(): writev.                                                          *)

\* 2*(QUAD-i0) pieces: the slots as they are after the shuffle, each with its
\* metadata.
Row(s) ==
  [n |-> samples[s].n, sc |-> meta[s].sc, di |-> meta[s].di, upto |-> tot_samples]
Rows_All == [r \in 1..QUAD |-> Row(r - 1)]
Rows == [r \in 1..(QUAD - i0) |-> Row(r - 1)]

Write ==
  /\ pc = "write"
  /\ out' = IF outfile = "none" THEN out ELSE out \o Rows
  /\ pc' = "read"
  /\ UNCHANGED <<input, src, set, stale, cut>>

\* SIGINT and SIGPIPE have a handler, and a writev that one of them interrupts
\* returns when it has taken some bytes: what it did not take is lost.
WriteCut ==
  /\ pc = "write" /\ outfile # "none" /\ cut < MaxCuts
  /\ \E k \in 0..(Len(Rows) - 1), torn \in {<<>>, <<Scrap>>} :
       /\ k > 0 \/ torn # <<>>
       /\ out' = out \o SubSeq(Rows, 1, k) \o torn
  /\ cut' = cut + 1
  /\ pc' = "read"
  /\ UNCHANGED <<input, src, set, stale>>

\* The reader of stdout has gone: writev fails and run() ends.
WriteFails ==
  /\ pc = "write" /\ outfile # "none"
  /\ Ends("done", out)

-----------------------------------------------------------------------------

Init ==
  /\ pc = "ui"
  /\ \E start \in Starts, len \in 0..MaxLen, f \in Faults :
       \E di \in [1..len -> DiStates] :
          /\ f.at <= len
          /\ Cardinality({i \in 2..len : di[i] # di[i - 1]}) <= MaxFlips
          /\ stream = StreamOf(start, len, di, f)
  /\ outfile \in {"none", "-", "FILE"}
  /\ src = 0
  /\ samples = [s \in Slots |-> Garbage]
  /\ i0 = 0
  /\ meta = [s \in Slots |-> [sc |-> 0, di |-> {}]]
  /\ tot_samples = 0
  /\ di_previous = NoDi
  /\ transitions = [b \in 1..NDI |-> 0]
  /\ out = <<>>
  /\ stale = 0 /\ cut = 0

Next ==
  \/ Ui
  \/ Main
  \/ Read
  \/ End
  \/ \E ii \in Slots : DecodeSet(ii)
  \/ \E s \in Slots : NotValid(s)
  \/ BadSequence
  \/ Write
  \/ WriteCut
  \/ WriteFails

Spec == Init /\ [][Next]_vars

-----------------------------------------------------------------------------
(* Properties.                                                              *)

Sample == [n : Nat, id : BOOLEAN, frame : 0..4, scbyte : 0..(Radix - 1), di : SUBSET (1..NDI)]

\* Every variable has its type; i0 leaves room for at least one sample.
TypeOK ==
  /\ pc \in {"ui", "main", "read", "decode", "write", "done", "error"}
  /\ stream \in Seq(Sample)
  /\ outfile \in {"none", "-", "FILE"}
  /\ src \in 0..Len(stream)
  /\ samples \in [Slots -> Sample]
  /\ i0 \in Slots
  /\ meta \in [Slots -> [sc : 0..(Counts - 1), di : SUBSET (1..NDI)]]
  /\ tot_samples \in Nat
  /\ di_previous \in (SUBSET (1..NDI)) \union {NoDi}
  /\ transitions \in [1..NDI -> Nat]
  /\ out \in Seq([n : Nat, sc : 0..(Counts - 1) \union {NoCount},
                  di : (SUBSET (1..NDI)) \union {NoDi}, upto : Nat])
  /\ stale \in Slots /\ cut \in 0..MaxCuts

\* The samples in a range of stdin are undamaged and consecutive.
SoundUpTo(m) ==
  \A i \in 1..Len(stream) :
     i <= m => stream[i].id /\ stream[i].n = stream[1].n + i - 1
Sound == SoundUpTo(Len(stream))

\* Samples in the first set, which may be short.
FirstSet == QUAD + 1 - stream[1].frame

HasMeta(r) == r.sc # NoCount

\* Behind the first set, the count written next to a sample is the one the UUT
\* gave it, wherever the stream starts, whatever is lost on the way (a set that
\* a lost sample made is never written), and wherever it ends: a short last
\* fread, whose free slots hold samples of the set before, spoils its own set
\* only.  It needs the four samples of the first fread to be sound.
RowsNumbered ==
  SoundUpTo(QUAD) =>
    \A i \in 1..Len(out) :
       LET row == out[i]
       IN HasMeta(row) /\ row.upto > FirstSet /\ (stale > 0 => row.upto < tot_samples)
            => row.sc = row.n % Counts

\* With -o every sample of a complete set has its row, in the order of the
\* stream behind the first set, and no sample has two; a write that is cut short
\* takes rows of its own set away and leaves those of all others.
AllRows ==
  SoundUpTo(QUAD) /\ stale = 0 /\ outfile # "none" =>
    LET rows == {i \in 1..Len(out) : HasMeta(out[i])}
    IN /\ pc = "read" => src - i0 - Cardinality(rows) \in 0..(QUAD * cut)
       /\ \A i, j \in rows :
            i < j /\ out[i].upto > FirstSet => out[i].n < out[j].n

\* No damaged sample behind the first fread is written as a decoded one: the
\* program stops at it.
StopsOnError ==
  SoundUpTo(QUAD) =>
    \A i \in 1..Len(out), j \in 1..Len(stream) :
       HasMeta(out[i]) /\ stream[j].n = out[i].n => stream[j].id

\* A sound stream is never rejected, in whatever subframe it starts: after a
\* shuffle the sequence check goes on from the residue, and every full read
\* ends in subframe 4.
SoundIsAccepted == Sound /\ stale = 0 /\ src > 0 => pc # "error"

\* The printed transitions are the changes between neighbouring samples among
\* all that were decoded: none is lost, or counted twice, where the residue of
\* one set becomes the start of the next.
DiTransitions ==
  pc = "read" /\ stale = 0 =>
    \A b \in 1..NDI :
       transitions[b] =
         Cardinality({i \in 2..(src - i0) :
                        (b \in stream[i - 1].di) # (b \in stream[i].di)})

\* "It also computes the actual sample number for EVERY sample."
\* (acq400_spad_frame_decoder.cpp:76)
EverySampleNumbered ==
  Sound /\ stale = 0 =>
    \A i \in 1..Len(out) : HasMeta(out[i]) => out[i].sc = out[i].n % Counts

\* "validates the frames, STOPS on ERROR." (acq400_spad_frame_decoder.cpp:11)
StopsOnAnyError ==
  \A i \in 1..Len(out), j \in 1..Len(stream) :
     HasMeta(out[i]) /\ stream[j].n = out[i].n => stream[j].id
=============================================================================
