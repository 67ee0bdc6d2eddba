---------------------------- MODULE Multistream ----------------------------
(***************************************************************************)
(* acq400_multistream.cpp: one process with a thread for each UUT, that    *)
(* waits for the UUT, sets it up, finds out what its stream is made of and *)
(* copies the stream to a file.  What ends the process ends all threads.   *)
(* And acq400_stream.cpp: the same for one UUT, to standard output, and    *)
(* without unpacking.  (Its PORT sets a variable nobody reads, line 92.)   *)
(*                                                                         *)
(*   program   "multistream" or "stream"                                   *)
(*   status    of the process: "running", "done" (main has joined all      *)
(*             threads), "died" (exit or abort in a thread)                *)
(*   maxbytes  G::maxbytes                                                 *)
(*   layout    G::nchan and G::nspad                                       *)
(*   pc, retries, conv, nread, nraw, file, nshort, why                     *)
(*             of each thread: where it is, old_version_retries of         *)
(*             wait_for_ready, the streamer it has chosen, the reads it    *)
(*             made and the bytes it had from them, its output file, the   *)
(*             fwrites that came back short, and why it ended              *)
(*   knob      the settings each UUT answers for, and its answers          *)
(*   sends     what its stream is really made of, whatever it answers: the *)
(*             channels and the SPAD words of a scan, and whether it packs *)
(*   ended     its stream has ended                                        *)
(*                                                                         *)
(* The byte at position i of a stream is i.  A file is a sequence of bytes *)
(* or, from the unpacker, of words.  The names of targets differ: no two   *)
(* threads have the same file.  A UUT answers a get with a number, or with *)
(* nothing, or with an error text.  fwrite stands for the flush of what it *)
(* has left in stdio's buffer too: what cannot be written then, at fclose  *)
(* or before, counts as a short fwrite.                                    *)
(***************************************************************************)
EXTENDS Unpack24, FiniteSets

CONSTANTS
  Fleets,    \* the targets, and what they can be: what they say and what they send
  BufLen,    \* BUFLEN and BUFFER_SCANS
  Limits,    \* the values of maxbytes looked at
  Layouts,   \* the values of ACQ400_NCHAN and ACQ400_NSPAD looked at
  OldFw,     \* OLDFW is set
  Pack24,    \* ACQ400_PACK24
  MaxReads,  \* bound: reads of one stream
  MaxShort,  \* bound: fwrites that come back short, of one stream
  Shorts     \* bound: the counts that a short fwrite returns

Uut == UNION {DOMAIN fleet : fleet \in Fleets}

ASSUME MultistreamAssumption ==
  /\ BufLen \in Nat \ {0} /\ Limits \subseteq Nat /\ OldFw \in BOOLEAN /\ Pack24 \in Nat
  /\ MaxReads \in Nat /\ MaxShort \in Nat /\ Shorts \subseteq Nat

Empty == -1  \* an answer without text

\* The ids of channels fit into a byte.  Nothing says that what a UUT answers is
\* what it sends.
ASSUME FleetsAssumption ==
  /\ \A fleet \in Fleets : \A u \in DOMAIN fleet :
       LET says == fleet[u].says
       IN /\ \A key \in DOMAIN says : says[key] \in Nat \cup {Empty}
          /\ \A key \in {"NCHAN.0", "NCHAN.1"} \cap DOMAIN says : says[key] <= 224
          /\ fleet[u].sends \in [nchan : 1..224, nspad : Nat, packs : BOOLEAN]
  /\ Layouts \subseteq [nchan : -1..224, nspad : Int]

VARIABLES program, status, maxbytes, layout,
          pc, why, retries, conv, nread, nraw, file, nshort, ended, knob, sends

setting == <<program, maxbytes, layout>>
process == <<setting, status>>
output  == <<conv, nread, nraw, file, nshort, ended>>
thread  == <<pc, why, retries, output>>
device  == <<knob, sends>>
vars    == <<process, thread, device>>

-----------------------------------------------------------------------------

\* The targets of the command line.
Targets == DOMAIN knob

Has(u, key) == key \in DOMAIN knob[u]

\* An answer without text is RC_SUCCESS and leaves the number that was there: no
\* more than 0 of NCHAN, and 0 of spad and pack24.
Nchan_Site0First(u) ==
  IF layout.nchan > 0 THEN layout.nchan
  ELSE IF Has(u, "NCHAN.0") /\ knob[u]["NCHAN.0"] > 0 THEN knob[u]["NCHAN.0"]
  ELSE IF Has(u, "NCHAN.1") /\ knob[u]["NCHAN.1"] > 0 THEN knob[u]["NCHAN.1"]
  ELSE 32
Nchan(u) ==
  IF layout.nchan > 0 THEN layout.nchan
  ELSE IF Has(u, "NCHAN.1") /\ knob[u]["NCHAN.1"] > 0 THEN knob[u]["NCHAN.1"]
  ELSE IF Has(u, "NCHAN.0") /\ knob[u]["NCHAN.0"] > 0 THEN knob[u]["NCHAN.0"]
  ELSE 32
Nspad(u) ==
  IF layout.nspad >= 0 THEN layout.nspad
  ELSE IF ~Has(u, "spad") THEN 1
  ELSE IF knob[u]["spad"] > 0 THEN knob[u]["spad"] ELSE 0

\* acq400_stream takes what comes.
Unpacks(u) == program = "multistream" /\ Has(u, "pack24") /\ knob[u]["pack24"] > 0

\* data32 keeps what it was set to, or in acq400_stream whatever was there.
Data32(u) ==
  IF knob[u]["data32"] # Empty THEN {knob[u]["data32"]}
  ELSE IF program = "multistream" THEN {0} ELSE {0, 1}

\* A streamer, by what it takes at a time from the stream and gives to the file.
Streamer(u, data32) ==
  IF Unpacks(u) THEN [type |-> "unpack24", nchan |-> Nchan(u), nspad |-> Nspad(u)]
  ELSE [type |-> IF data32 # 0 THEN "long" ELSE "short"]

SizeIn(c) == CASE c.type = "short" -> 2 [] c.type = "long" -> 8
               [] c.type = "unpack24" -> 3 * c.nchan + 4 * c.nspad

Bytes(from, n) == [i \in 1..n |-> from + i]

\* The words of n scans, one scan behind the other.
Words(from, n, c) ==
  LET ossw == c.nchan + c.nspad
      scan == [s \in 1..n |->
                 Unpacked(Bytes(from + (s - 1) * SizeIn(c), SizeIn(c)), c.nchan, c.nspad)]
  IN [o \in 1..(n * ossw) |-> scan[1 + (o - 1) \div ossw][1 + ((o - 1) % ossw)]]

\* words_to_write: all of them, or what is left up to maxbytes.
ToWrite_All(total, words) == words
ToWrite(total, words) ==
  IF maxbytes > 0 /\ total + 4 * words > maxbytes THEN (maxbytes - total) \div 4
                                                  ELSE words

Reached_Above(nbytes) == maxbytes > 0 /\ nbytes > maxbytes
Reached_NoLimit(nbytes) == nbytes >= maxbytes
Reached(nbytes) == maxbytes > 0 /\ nbytes >= maxbytes

-----------------------------------------------------------------------------
(* Steps of a thread.  In all of them but the first a connection may fail,  *)
(* or a UUT may give an answer that assert does not accept.                 *)

At(u, p) == status = "running" /\ pc[u] = p

Goto(u, p) == pc' = [pc EXCEPT ![u] = p]
Over(u, reason) == Goto(u, "over") /\ why' = [why EXCEPT ![u] = reason]

Dies == status' = "died" /\ UNCHANGED <<setting, thread, device>>

OpenFile(u) ==
  /\ At(u, "fopen")
  /\ \/ Goto(u, "connect") /\ UNCHANGED why
     \/ Over(u, "no file")
  /\ UNCHANGED <<process, retries, output, device>>

\* The constructor of Acq400.
Connect(u) ==
  /\ At(u, "connect")
  /\ Goto(u, "wait_for_ready")
  /\ UNCHANGED <<process, why, retries, output, device>>

GivesUp_AfterFour(n) == n > 3
GivesUp(n) == n >= 3

\* The UUT is up, or OLDFW is set.
Ready(u) ==
  /\ At(u, "wait_for_ready")
  /\ Goto(u, "pack24")
  /\ UNCHANGED <<process, why, retries, output, device>>

\* "not found": counted, and the third one ends the process.  After any other
\* answer it just asks again.
NotFound(u) ==
  /\ At(u, "wait_for_ready") /\ ~OldFw
  /\ ~GivesUp(retries[u] + 1)
  /\ retries' = [retries EXCEPT ![u] = @ + 1]
  /\ UNCHANGED <<process, pc, why, output, device>>

LooksOld(u) == At(u, "wait_for_ready") /\ ~OldFw /\ GivesUp(retries[u] + 1) /\ Dies

SetPack24(u) ==
  /\ At(u, "pack24")
  /\ Goto(u, "trg")
  /\ IF Has(u, "pack24")
     THEN /\ knob' = IF knob[u]["pack24"] = Empty THEN knob
                     ELSE [knob EXCEPT ![u]["pack24"] = Pack24]
          /\ sends' = [sends EXCEPT ![u].packs = (Pack24 # 0)]
     ELSE UNCHANGED device
  /\ UNCHANGED <<process, why, retries, output>>

SetTriggerMode(u) ==
  /\ At(u, "trg")
  /\ Goto(u, "data32")
  /\ UNCHANGED <<process, why, retries, output, device>>

ChooseStreamer(u) ==
  /\ At(u, "data32")
  /\ \/ /\ Has(u, "data32")
        /\ \E data32 \in Data32(u) : conv' = [conv EXCEPT ![u] = Streamer(u, data32)]
        /\ Goto(u, "stream_open") /\ UNCHANGED why
     \/ /\ ~Has(u, "data32") /\ program = "multistream"
        /\ Over(u, "no data32") /\ UNCHANGED conv
  /\ UNCHANGED <<process, retries, nread, nraw, file, nshort, ended, device>>

StreamOpen(u) ==
  /\ At(u, "stream_open")
  /\ Goto(u, "stream")
  /\ UNCHANGED <<process, why, retries, output, device>>

\* error() in a Siteclient, exit in stream_open, or the assert on a set; in
\* acq400_stream also exit without data32, and SIGPIPE from its reader.
Fatal(u) ==
  /\ \/ pc[u] \in {"connect", "wait_for_ready", "pack24", "trg", "data32", "stream_open"}
     \/ pc[u] = "stream" /\ program = "stream"
  /\ status = "running"
  /\ pc[u] = "wait_for_ready" => ~OldFw
  /\ Dies

\* fread: a full buffer, or what there is at the end of the stream.
Fread(u, n) ==
  /\ At(u, "stream") /\ nread[u] < MaxReads
  /\ ended[u] => n = 0
  /\ nread' = [nread EXCEPT ![u] = @ + 1]
  /\ nraw' = [nraw EXCEPT ![u] = @ + n * SizeIn(conv[u])]
  /\ ended' = [ended EXCEPT ![u] = n < BufLen]
  /\ UNCHANGED <<process, retries, conv, device>>

StreamEnds(u) ==
  /\ Fread(u, 0)
  /\ Over(u, "eof")
  /\ UNCHANGED <<file, nshort>>

\* fwrite: all of the data goes behind the file, or a part, on a disk that is full
\* now and may have room again later.
FwriteAll(u, data) ==
  /\ file' = [file EXCEPT ![u] = @ \o data]
  /\ UNCHANGED nshort
FwriteShort(u, data) ==
  /\ nshort[u] < MaxShort /\ nshort' = [nshort EXCEPT ![u] = @ + 1]
  /\ \E k \in Shorts : k < Len(data) /\ file' = [file EXCEPT ![u] = @ \o SubSeq(data, 1, k)]

\* streamer: it takes no notice of what fwrite returns.
Copy(u, n) ==
  /\ At(u, "stream") /\ conv[u].type \in {"short", "long"}
  /\ Fread(u, n)
  /\ LET data == Bytes(nraw[u], n * SizeIn(conv[u]))
     IN FwriteAll(u, data) \/ FwriteShort(u, data)
  /\ IF Reached(nraw'[u]) THEN Over(u, "limit") ELSE UNCHANGED <<pc, why>>

\* Unpack24b::unpack24 and Unpack24lw::unpack24: a short fwrite ends them.  (Of a
\* word that was cut the file has a part, which is left out here.)
Unpack(u, n) ==
  /\ At(u, "stream") /\ conv[u].type = "unpack24"
  /\ Fread(u, n)
  /\ LET words   == Words(nraw[u], n, conv[u])
         towrite == ToWrite(4 * Len(file[u]), Len(words))
         data    == SubSeq(words, 1, towrite)
     IN \/ /\ FwriteAll(u, data)
           /\ IF Reached(4 * Len(file'[u])) THEN Over(u, "limit") ELSE UNCHANGED <<pc, why>>
        \/ FwriteShort(u, data) /\ Over(u, "fwrite")

Stream(u) == StreamEnds(u) \/ \E n \in 1..BufLen : Copy(u, n) \/ Unpack(u, n)

\* main
Join ==
  /\ status = "running" /\ \A u \in Targets : pc[u] = "over"
  /\ status' = "done"
  /\ UNCHANGED <<setting, thread, device>>

-----------------------------------------------------------------------------

Init ==
  /\ \E fleet \in Fleets :
       /\ knob = [u \in DOMAIN fleet |-> fleet[u].says]
       /\ sends = [u \in DOMAIN fleet |-> fleet[u].sends]
  /\ program = "multistream" \/ (program = "stream" /\ Cardinality(Targets) = 1)
  /\ status = "running" /\ maxbytes \in Limits /\ layout \in Layouts
  /\ pc = [u \in Targets |-> IF program = "multistream" THEN "fopen" ELSE "connect"]
  /\ why = [u \in Targets |-> "running"]
  /\ retries = [u \in Targets |-> 0]
  /\ conv = [u \in Targets |-> [type |-> "none"]]
  /\ nread = [u \in Targets |-> 0] /\ nraw = [u \in Targets |-> 0]
  /\ file = [u \in Targets |-> <<>>] /\ nshort = [u \in Targets |-> 0]
  /\ ended = [u \in Targets |-> FALSE]

Worker(u) ==
  \/ OpenFile(u) \/ Connect(u) \/ Ready(u) \/ NotFound(u) \/ LooksOld(u)
  \/ SetPack24(u) \/ SetTriggerMode(u) \/ ChooseStreamer(u) \/ StreamOpen(u)
  \/ Fatal(u) \/ Stream(u)

Next == (\E u \in Targets : Worker(u)) \/ Join

Spec == Init /\ [][Next]_vars

\* A stream goes on, or ends.
FairSpec == Spec /\ \A u \in Uut : WF_vars(u \in Targets /\ Stream(u))

-----------------------------------------------------------------------------
(* Properties.                                                              *)

Converters ==
  {[type |-> t] : t \in {"none", "short", "long"}}
    \cup [type : {"unpack24"}, nchan : 1..224, nspad : Nat]

\* What a file is made of: words of four bytes, or bytes.
Items(c) == IF c.type = "unpack24" THEN Seq(Nat) ELSE Nat

\* Every variable has its type, and fewer than three "not found" were counted.
TypeOK ==
  /\ program \in {"multistream", "stream"} /\ status \in {"running", "done", "died"}
  /\ maxbytes \in Limits /\ layout \in Layouts
  /\ pc \in [Targets -> {"fopen", "connect", "wait_for_ready", "pack24", "trg", "data32",
                     "stream_open", "stream", "over"}]
  /\ retries \in [Targets -> 0..2]
  /\ conv \in [Targets -> Converters]
  /\ DOMAIN file = Targets /\ \A u \in Targets : file[u] \in Seq(Items(conv[u]))
  /\ nread \in [Targets -> Nat] /\ nraw \in [Targets -> Nat] /\ nshort \in [Targets -> Nat]
  /\ why \in [Targets -> {"running", "no file", "no data32", "eof", "fwrite", "limit"}]
  /\ ended \in [Targets -> BOOLEAN]
  /\ sends \in [Targets -> [nchan : 1..224, nspad : Nat, packs : BOOLEAN]]

\* A get has brought a number that says something.
Says(u, key) == Has(u, key) /\ knob[u][key] > 0

\* The spad setting with which a sample ends in a SPAD_FRAME, one word
\* (acq400_spad_frame_decoder.cpp:16-18, 36).
SpadFrame == 2

\* What a UUT answers describes what it sends: site 1 counts its channels, site 0
\* all columns, the SPAD words too (acq400_spad_frame_decoder.cpp:39-43), and 32
\* channels need no number; spad is the number of words, but for SPAD_FRAME, and
\* a UUT that does not know of it has one; it knows of pack24 if it packs.
Described(u) ==
  /\ Says(u, "NCHAN.1") => knob[u]["NCHAN.1"] = sends[u].nchan
  /\ Says(u, "NCHAN.0") => knob[u]["NCHAN.0"] = sends[u].nchan + sends[u].nspad
  /\ Says(u, "NCHAN.1") \/ Says(u, "NCHAN.0") \/ sends[u].nchan = 32
  /\ sends[u].nspad =
       IF ~Has(u, "spad") \/ knob[u]["spad"] = SpadFrame THEN 1
       ELSE IF Says(u, "spad") THEN knob[u]["spad"] ELSE 0
  /\ sends[u].packs <=> Says(u, "pack24")

\* The user has said what site 1 does not and spad says in another way: without
\* ACQ400_NCHAN the program takes the columns of site 0 for channels, and without
\* ACQ400_NSPAD a SPAD_FRAME for two words.
UserHelps(u) ==
  /\ IF layout.nchan > 0 THEN layout.nchan = sends[u].nchan
     ELSE Says(u, "NCHAN.1") \/ ~Says(u, "NCHAN.0") \/ sends[u].nspad = 0
  /\ IF layout.nspad >= 0 THEN layout.nspad = sends[u].nspad
     ELSE Has(u, "spad") => knob[u]["spad"] # SpadFrame

\* The program can know what the stream is made of, or need not.
Known(u) == program = "stream" \/ (Described(u) /\ UserHelps(u))

\* The samples of the UUT are unpacked.
Packed(u) == program = "multistream" /\ sends[u].packs

\* What a file with nothing missing has at position i: the byte, or the word
\* that a byte by byte reading of what the UUT sends gives.
Expected(u, i) ==
  IF Packed(u)
  THEN LET nchan == sends[u].nchan  nspad == sends[u].nspad
           s == (i - 1) \div (nchan + nspad)
           size == 3 * nchan + 4 * nspad
       IN Bytewise(Bytes(s * size, size), nchan, nspad)[1 + ((i - 1) % (nchan + nspad))]
  ELSE i

\* All that was read is in the file.
AllWritten(u) ==
  IF Packed(u)
  THEN Len(file[u]) * (3 * sends[u].nchan + 4 * sends[u].nspad)
         = nraw[u] * (sends[u].nchan + sends[u].nspad)
  ELSE Len(file[u]) = nraw[u]

\* Each file is a prefix of what its UUT has sent, whichever unpacker did it and
\* wherever reads and maxbytes have cut it; without a limit, of all that was read.
\* A short fwrite ends an unpacked file, and leaves a hole in any other one, but
\* never a byte twice or out of its order.
FileIsStream ==
  \A u \in Targets : Known(u) =>
    /\ nshort[u] = 0 \/ Packed(u) =>
         \A i \in 1..Len(file[u]) : file[u][i] = Expected(u, i)
    /\ ~Packed(u) => \A i \in 2..Len(file[u]) : file[u][i - 1] < file[u][i]
    /\ nshort[u] = 0 /\ maxbytes = 0 => AllWritten(u)

\* An unpacked word carries the channel id that valid_sample of the SPAD decoder
\* looks for (acq400_spad_frame_decoder.cpp:385), in a scan of up to 32 channels:
\* what was packed and unpacked can be decoded.  (With more it cannot: from
\* channel 32 on the two programs have different ids.)
IdsAsDecoded ==
  \A u \in Targets : Known(u) /\ Packed(u) /\ sends[u].nchan <= 32 =>
    \A i \in 1..Len(file[u]) :
      LET ic == (i - 1) % (sends[u].nchan + sends[u].nspad)
      IN ic < sends[u].nchan => file[u][i][1] = 32 + ic

\* maxbytes is kept: by the unpackers to the byte, by streamer to a buffer.
AtMostMaxBytes ==
  \A u \in Targets : maxbytes > 0 =>
    IF conv[u].type = "unpack24" THEN 4 * Len(file[u]) <= maxbytes
    ELSE conv[u].type # "none" => Len(file[u]) < maxbytes + BufLen * SizeIn(conv[u])

\* A capture that was under way is left for the end of the stream, a short
\* fwrite, or because it has maxbytes.
StopsForAReason ==
  \A u \in Targets : pc[u] = "over" /\ nread[u] > 0 =>
    \/ ended[u] \/ nshort[u] > 0
    \/ maxbytes > 0 /\ Len(file[u]) * (IF conv[u].type = "unpack24" THEN 4 ELSE 1) >= maxbytes

\* With a limit in whole words every capture ends, unless the process does.
Ends ==
  \A u \in Uut :
    u \in Targets /\ pc[u] = "stream" /\ maxbytes > 0 /\ maxbytes % 4 = 0
      ~> (u \in Targets /\ pc[u] = "over") \/ status = "died"
=============================================================================
