-------------------------- MODULE StreamOut_proofs --------------------------
(***************************************************************************)
(* The safety of a bulk transfer, for all files, chunks, repetitions and   *)
(* windows: the bytes a UUT gets are those of the files, in order; a call  *)
(* gives up on a dead connection only; a loader that has returned has been *)
(* read to the end; and StreamOut implements BytePipe.                     *)
(***************************************************************************)
EXTENDS StreamOut, SequenceTheorems, WellFoundedInduction, TLAPS

-----------------------------------------------------------------------------
(* The inductive invariant.                                                 *)

Loop == {"poll", "in", "write", "check"}
Taken == got \o sent

\* A loader has one file, and a file that is not stdin is read from its start.
CallerInv ==
  /\ caller = "awg_loader" =>
       /\ file = 1 /\ ~stdin /\ Len(handed) = pos
       /\ pc \notin {"setup", "open", "close", "unset"}
  /\ pc \in {"setup", "open"} /\ ~stdin => pos = 0

\* Files are read in whole elements.
WholeElements == \E k \in Nat : pos = ElemSize * k

\* The chunk in hand is the last one handed over.
ChunkInv ==
  pc \in Loop =>
    /\ maxbuf <= Len(handed)
    /\ \A i \in 1..maxbuf : handed[Len(handed) - maxbuf + i] = <<file, from + i>>

\* What the UUT has and what is on the way is the beginning of what was handed
\* over, and on a connection that stands all but the rest of the chunk in hand.
Rest == IF pc \in Loop THEN maxbuf - nbytes ELSE 0
TakenInv ==
  /\ Len(Taken) <= Len(handed)
  /\ \A i \in 1..Len(Taken) : Taken[i] = handed[i]
  /\ peer # "reset" /\ pc \notin Ended \ {"done"} => Len(handed) = Len(Taken) + Rest

\* Only a loader that has read its file to the end shuts the connection down.
ShutInv ==
  /\ skt = "closed" => pc \in Ended
  /\ shut => pc \in Ended \/ (pc \in Loop /\ Draining)
  /\ pc \in Loop /\ Draining => shut /\ pos = Whole(1) /\ caller = "awg_loader"
  /\ pc = "write" => ~Draining
  /\ pc = "done" /\ caller = "awg_loader" =>
       pos = Whole(1) /\ peer \in {"closed", "gone", "reset"}

\* What is known of the connection from its events.
PeerInv ==
  /\ err # "none" => peer = "reset"
  /\ peer \in {"closed", "reset"} => sent = <<>>
  /\ peer = "closed" => shut
  /\ pc \in {"in", "write", "check"} =>
       /\ "err" \in revents => peer = "reset"
       /\ "hup" \in revents => peer = "reset" \/ (peer \in {"closed", "gone"} /\ shut)

IInv ==
  /\ TypeOK /\ NoFalseFailure
  /\ CallerInv /\ WholeElements /\ ChunkInv /\ TakenInv /\ ShutInv /\ PeerInv

-----------------------------------------------------------------------------
(* The types, kind by kind.                                                 *)

Flags == stdin \in BOOLEAN /\ repeat \in BOOLEAN /\ shut \in BOOLEAN
Places ==
  /\ caller \in {"awg_loader", "streamer"}
  /\ pc \in {"setup", "open", "fread", "close", "poll", "in", "write", "check"} \union Ended
  /\ revents \subseteq {"in", "out", "err", "hup"}
  /\ skt \in {"none", "open", "closed"}
  /\ peer \in {"refused", "up", "closed", "gone", "reset"}
  /\ err \in {"none", "ECONNRESET", "EPIPE"}
Numbers ==
  /\ G_reps \in Nat /\ reps \in Nat /\ missing \in Nat /\ failures \in Nat
  /\ replies \in 0..1
  /\ maxbuf \in 0..(BufLen * ElemSize) /\ nbytes \in 0..maxbuf /\ from \in Nat
Position == file \in 1..NFiles /\ pos \in 0..Whole(file)
Streams ==
  /\ sent \in Seq(Bytes) /\ Len(sent) <= Window
  /\ got \in Seq(Bytes) /\ handed \in Seq(Bytes)

\* The type invariant, kind by kind of variable.
LEMMA TypeByKind == TypeOK <=> Flags /\ Places /\ Numbers /\ Position /\ Streams
  BY Zenon DEF TypeOK, Flags, Places, Numbers, Position, Streams

\* A step keeps the types of flags.
LEMMA FlagsStep ==
  ASSUME Flags, [Next]_vars
  PROVE  Flags'
  <1>1. CASE UNCHANGED line
    <2>1. shut' = shut \/ shut' = TRUE \/ shut' = (skt' = "open")
      BY <1>1, Zenon
      DEF Next, Setup, Host, OpenFile, SendChunk, Finish, FileEnds, Close, Killed, OtherReads,
          Poll, In, Write, WriteFails, Check, Uut, UutRead, UutClose, UutEnds, Refuse, Reset,
          Closed, wire, host, vars
    <2> QED BY <1>1, <2>1, Zenon DEF Flags, line
  <1>2. UNCHANGED line
    BY Zenon
    DEF Next, Setup, Host, OpenFile, SendChunk, Finish, FileEnds, Close, Killed, OtherReads,
        Poll, In, Write, WriteFails, Check, Uut, UutRead, UutClose, UutEnds, Refuse, Reset,
        host, vars
  <1> QED BY <1>1, <1>2

\* A step keeps the types of places.
LEMMA PlacesStep ==
  ASSUME Places, [Next]_vars
  PROVE  Places'
  <1>0. CASE Setup \/ OpenFile
    BY <1>0 DEF Places, Setup, OpenFile, NextFile, Ended, line, list, call, wire
  <1>1. CASE SendChunk \/ FileEnds \/ OtherReads
    BY <1>1
    DEF Places, SendChunk, FileEnds, OtherReads, NextFile, CallStreamOut, Ended, line, list,
        call, wire
  <1>5. CASE Finish
    BY <1>5 DEF Places, Finish, CallStreamOut, Ended, line, list
  <1>2. CASE Close \/ Killed \/ Poll \/ In
    BY <1>2
    DEF Places, Close, Killed, Closed, Poll, Events, In, Ended, line, list, call, wire
  <1>3. CASE (\E n \in 1..Window : Write(n)) \/ WriteFails \/ Check
    BY <1>3 DEF Places, Write, WriteFails, Check, Ended, line, list, call, wire
  <1>4. CASE Uut \/ UNCHANGED vars
    BY <1>4
    DEF Places, Uut, UutRead, UutClose, UutEnds, Refuse, Reset, vars, host, line, wire, call,
        list
  <1> QED BY <1>0, <1>1, <1>2, <1>3, <1>4, <1>5 DEF Next, Host

-----------------------------------------------------------------------------
(* fread                                                                    *)

\* A quotient, from above and below.
LEMMA Quotient ==
  ASSUME NEW a \in Nat, NEW d \in Nat \ {0}
  PROVE  a \div d \in Nat /\ d * (a \div d) <= a /\ a < d * (a \div d) + d
  <1>1. a = d * (a \div d) + (a % d) /\ a % d \in 0..(d - 1) /\ a \div d \in Int
    OBVIOUS
  <1> QED BY <1>1

\* The bytes of a file that are whole elements.
LEMMA WholeFile ==
  ASSUME NEW f \in 1..Len(Files)
  PROVE  Files[f] \in Nat /\ Whole(f) \in Nat /\ Whole(f) <= Files[f] /\ Files[f] < Whole(f) + ElemSize
  <1>1. Files[f] \in Nat
    BY SizesAssumption
  <1>2. /\ ElemSize * (Files[f] \div ElemSize) <= Files[f]
        /\ Files[f] < ElemSize * (Files[f] \div ElemSize) + ElemSize
        /\ Files[f] \div ElemSize \in Nat
    BY <1>1, SizesAssumption, Quotient
  <1>3. ElemSize * (Files[f] \div ElemSize) \in Nat
    BY <1>2, SizesAssumption
  <1> QED BY <1>1, <1>2, <1>3 DEF Whole

\* The file at hand is one of the list.
LEMMA ListedFile ==
  ASSUME Position
  PROVE  file \in 1..Len(Files)
  BY SizesAssumption DEF Position, NFiles

\* Two numbers of elements differ by one element or not at all.
LEMMA ElementsApart ==
  ASSUME NEW e \in Nat \ {0}, NEW k \in Nat, NEW m \in Nat, e * k < e * m
  PROVE  e * k + e <= e * m
  <1>1. k < m
    <2> SUFFICES ASSUME m <= k PROVE e * m <= e * k
      OBVIOUS
    <2> QED OBVIOUS
  <1>2. PICK j \in Nat : m = k + 1 + j
    <2>1. m - k - 1 \in Nat /\ m = k + 1 + (m - k - 1)
      BY <1>1
    <2> QED BY <2>1
  <1>3. e * m = e * k + e + e * j /\ e * j \in Nat
    BY <1>2
  <1> QED BY <1>3

\* An fread takes whole elements, and nothing only at the end of the file.
LEMMA FreadIsWhole ==
  ASSUME Position, WholeElements
  PROVE  /\ NextChunk \in 0..(BufLen * ElemSize)
         /\ pos + NextChunk \in 0..Whole(file)
         /\ \E k \in Nat : pos + NextChunk = ElemSize * k
         /\ NextChunk = 0 => pos = Whole(file)
  <1> USE SizesAssumption
  <1> DEFINE left == (Files[file] - pos) \div ElemSize
             n == IF left < BufLen THEN left ELSE BufLen
             whole == Files[file] \div ElemSize
  <1>1. /\ Files[file] \in Nat /\ Whole(file) = ElemSize * whole /\ whole \in Nat
        /\ Whole(file) <= Files[file] /\ Files[file] < Whole(file) + ElemSize
    BY ListedFile, WholeFile, Quotient DEF Whole
  <1>2. pos \in 0..Whole(file) /\ Files[file] - pos \in Nat
    BY <1>1 DEF Position
  <1>3. PICK k \in Nat : pos = ElemSize * k
    BY DEF WholeElements
  <1>4. /\ left \in Nat /\ ElemSize * left <= Files[file] - pos
        /\ Files[file] - pos < ElemSize * left + ElemSize
    BY <1>2, Quotient
  <1>5. NextChunk = ElemSize * n /\ n \in Nat /\ n <= left /\ n <= BufLen
    BY <1>4 DEF NextChunk
  <1> HIDE DEF left, n, whole
  <1>6. ElemSize * n \in Nat /\ ElemSize * n <= ElemSize * left /\ ElemSize * n <= BufLen * ElemSize
    BY <1>4, <1>5
  <1>7. pos + NextChunk = ElemSize * (k + n) /\ k + n \in Nat
    BY <1>3, <1>5
  <1>8. pos + NextChunk <= Whole(file)
    <2>1. pos + NextChunk < Whole(file) + ElemSize
      <3>1. NextChunk \in Nat /\ NextChunk <= Files[file] - pos
        <4>1. ElemSize * n \in Nat /\ ElemSize * left \in Nat
          BY <1>4, <1>6
        <4>2. \A a, b, c \in Int : a <= b /\ b <= c => a <= c
          OBVIOUS
        <4>3. ElemSize * n <= Files[file] - pos
          BY <1>2, <1>4, <1>6, <4>1, <4>2
        <4> QED BY <1>5, <4>1, <4>3
      <3> QED BY <1>1, <1>2, <3>1
    <2>2. CASE ElemSize * whole < ElemSize * (k + n)
      <3>1. Whole(file) + ElemSize <= pos + NextChunk
        BY <1>1, <1>7, <2>2, ElementsApart
      <3> QED BY <1>1, <1>2, <1>5, <1>6, <2>1, <3>1
    <2>3. CASE ~(ElemSize * whole < ElemSize * (k + n))
      <3>1. pos + NextChunk \in Nat
        BY <1>2, <1>7
      <3> QED BY <1>1, <1>7, <2>3, <3>1
    <2> QED BY <2>2, <2>3
  <1>9. ASSUME NextChunk = 0
        PROVE  pos = Whole(file)
    <2>1. left = 0
      <3>1. n = 0
        BY <1>5, <1>9
      <3> QED BY <1>4, <3>1 DEF n
    <2>2. Files[file] - pos < ElemSize
      BY <1>4, <2>1
    <2>3. CASE ElemSize * k < ElemSize * whole
      <3>1. ElemSize * k + ElemSize <= ElemSize * whole
        BY <1>1, <2>3, ElementsApart
      <3>2. pos + ElemSize <= Whole(file)
        BY <1>1, <1>3, <3>1
      <3> QED BY <1>1, <1>2, <2>2, <3>2
    <2>4. CASE ~(ElemSize * k < ElemSize * whole)
      BY <1>1, <1>2, <1>3, <2>4
    <2> QED BY <2>3, <2>4
  <1> QED BY <1>2, <1>5, <1>6, <1>7, <1>8, <1>9

-----------------------------------------------------------------------------
(* Where the caller is in its files.                                        *)

\* A step moves the position by whole elements, within the file.
LEMMA PositionStep ==
  ASSUME Places, Position, WholeElements, CallerInv, [Next]_vars
  PROVE  Position' /\ WholeElements'
  <1> USE SizesAssumption
  <1>0. UNCHANGED line /\ NFiles' = NFiles /\ NFiles \in Nat /\ file \in 1..Len(Files)
    <2>1. UNCHANGED line
      BY Zenon
      DEF Next, Setup, Host, OpenFile, SendChunk, Finish, FileEnds, Close, Killed, OtherReads,
          Poll, In, Write, WriteFails, Check, Uut, UutRead, UutClose, UutEnds, Refuse, Reset,
          host, vars
    <2> QED BY <2>1, ListedFile DEF line, NFiles
  <1>1. \A f \in 1..NFiles : Whole(f) \in Nat
    BY WholeFile DEF NFiles
  <1>2. NextFile => file' \in 1..NFiles
    BY <1>0 DEF NextFile, Position
  <1>3. ASSUME pos' = 0, file' \in 1..NFiles
        PROVE  Position' /\ WholeElements'
    <2>1. pos' = ElemSize * 0 /\ pos' \in 0..Whole(file')
      BY <1>1, <1>3
    <2> QED BY <1>0, <1>3, <2>1 DEF Position, WholeElements, Whole
  <1>4. ASSUME pos' = pos + NextChunk, file' = file
        PROVE  Position' /\ WholeElements'
    BY <1>0, <1>4, FreadIsWhole DEF Position, WholeElements, Whole
  <1>5. ASSUME pos' = pos, file' = file
        PROVE  Position' /\ WholeElements'
    BY <1>0, <1>5 DEF Position, WholeElements, Whole
  <1>6. CASE OpenFile
    <2>1. CASE NextFile /\ ~stdin
      BY <1>2, <1>3, <1>6, <2>1 DEF OpenFile, CallerInv
    <2>2. CASE UNCHANGED list
      BY <1>5, <1>6, <2>2 DEF OpenFile, list
    <2> QED BY <1>6, <2>1, <2>2 DEF OpenFile
  <1>7. CASE FileEnds
    BY <1>2, <1>3, <1>7 DEF FileEnds
  <1>8. CASE SendChunk \/ OtherReads
    BY <1>4, <1>8 DEF SendChunk, OtherReads, list
  <1>9. CASE Setup \/ Finish \/ Close \/ Killed \/ Uut \/ UNCHANGED vars
    BY <1>5, <1>9
    DEF Setup, Finish, Close, Killed, Uut, UutRead, UutClose, UutEnds, Refuse, Reset, host,
        vars, list
  <1>10. CASE Poll \/ In \/ (\E n \in 1..Window : Write(n)) \/ WriteFails \/ Check
    BY <1>5, <1>10 DEF Poll, In, Write, WriteFails, Check, list
  <1> QED BY <1>6, <1>7, <1>8, <1>9, <1>10 DEF Next, Host

\* What a call of stream_out is given are bytes of the file.
LEMMA HandOver ==
  ASSUME Position, Streams, NEW n \in Nat, pos + n <= Whole(file), CallStreamOut(n)
  PROVE  /\ handed' \in Seq(Bytes) /\ Len(handed') = Len(handed) + n
         /\ \A i \in 1..Len(handed) : handed'[i] = handed[i]
         /\ \A i \in 1..n : handed'[Len(handed) + i] = <<file, pos + i>>
  <1> DEFINE chunk == [i \in 1..n |-> <<file, pos + i>>]
  <1>1. file \in 1..Len(Files) /\ pos \in Nat /\ Whole(file) \in Nat
    BY ListedFile, WholeFile DEF Position
  <1>2. \A i \in 1..n : <<file, pos + i>> \in Bytes
    <2> SUFFICES ASSUME NEW i \in 1..n PROVE <<file, pos + i>> \in Bytes
      OBVIOUS
    <2>1. pos + i \in 1..Whole(file)
      BY <1>1
    <2> QED BY <1>1, <2>1 DEF Bytes
  <1>3. chunk \in Seq(Bytes) /\ Len(chunk) = n
    BY <1>2
  <1>4. handed' = handed \o chunk /\ handed \in Seq(Bytes)
    BY DEF CallStreamOut, Streams
  <1> HIDE DEF chunk
  <1>5. /\ handed' \in Seq(Bytes) /\ Len(handed') = Len(handed) + n
        /\ \A i \in 1..(Len(handed) + n) :
              handed'[i] = IF i <= Len(handed) THEN handed[i] ELSE chunk[i - Len(handed)]
    BY <1>3, <1>4, ConcatProperties
  <1>6. Len(handed) \in Nat
    BY <1>4
  <1>7. \A i \in 1..n : handed'[Len(handed) + i] = <<file, pos + i>>
    <2> SUFFICES ASSUME NEW i \in 1..n PROVE handed'[Len(handed) + i] = <<file, pos + i>>
      OBVIOUS
    <2>1. handed'[Len(handed) + i] = chunk[i]
      BY <1>5, <1>6
    <2> QED BY <2>1 DEF chunk
  <1> QED BY <1>5, <1>6, <1>7

-----------------------------------------------------------------------------
(* What has been taken, after each of the steps that change it.             *)

\* A function on 1..m is a sequence.
LEMMA FunctionIsSeq ==
  ASSUME NEW S, NEW m \in Nat, NEW f \in [1..m -> S]
  PROVE  f \in Seq(S) /\ Len(f) = m
  OBVIOUS

\* What was taken is what was read and what is on its way.
LEMMA TakenIsSeq ==
  ASSUME Streams
  PROVE  /\ Taken \in Seq(Bytes) /\ Len(Taken) = Len(got) + Len(sent)
         /\ Len(got) \in Nat /\ Len(sent) \in Nat /\ Len(handed) \in Nat
         /\ \A i \in 1..Len(Taken) :
               Taken[i] = IF i <= Len(got) THEN got[i] ELSE sent[i - Len(got)]
  <1>1. got \in Seq(Bytes) /\ sent \in Seq(Bytes) /\ handed \in Seq(Bytes)
    BY DEF Streams
  <1> QED BY <1>1, ConcatProperties DEF Taken

\* write() takes the next n bytes of the chunk.
LEMMA WriteTakes ==
  ASSUME Numbers, Streams, ChunkInv, TakenInv, NEW n \in 1..Window, Write(n)
  PROVE  /\ Streams' /\ Len(Taken') = Len(Taken) + n
         /\ \A i \in 1..Len(Taken) : Taken'[i] = Taken[i]
         /\ \A i \in 1..n : Taken'[Len(Taken) + i] = handed[Len(Taken) + i]
         /\ Len(handed) = Len(Taken) + maxbuf - nbytes /\ n <= maxbuf - nbytes
  <1> USE SizesAssumption
  <1> DEFINE piece == [i \in 1..n |-> <<file, from + nbytes + i>>]
  <1>1. /\ pc = "write" /\ peer # "reset" /\ n <= maxbuf - nbytes /\ n <= Window - Len(sent)
        /\ sent' = sent \o piece /\ UNCHANGED <<got, handed>>
    BY DEF Write, WriteFrom
  <1>2. /\ maxbuf <= Len(handed) /\ Len(handed) = Len(Taken) + (maxbuf - nbytes)
        /\ \A i \in 1..maxbuf : handed[Len(handed) - maxbuf + i] = <<file, from + i>>
    BY <1>1 DEF ChunkInv, TakenInv, Loop, Rest, Ended
  <1>3. nbytes \in Nat /\ maxbuf \in Nat /\ from \in Nat /\ n \in Nat
    BY DEF Numbers
  <1>4. Len(handed) \in Nat /\ Len(Taken) \in Nat /\ handed \in Seq(Bytes)
    BY TakenIsSeq DEF Streams
  <1>5. ASSUME NEW i \in 1..n
        PROVE  /\ Len(Taken) + i \in 1..Len(handed)
               /\ handed[Len(Taken) + i] = <<file, from + nbytes + i>>
    <2>1. nbytes + i \in 1..maxbuf
      BY <1>1, <1>3
    <2>2. Len(handed) - maxbuf + (nbytes + i) = Len(Taken) + i
      BY <1>2, <1>3, <1>4
    <2>3. handed[Len(Taken) + i] = <<file, from + (nbytes + i)>>
      BY <1>2, <2>1, <2>2
    <2>4. from + (nbytes + i) = from + nbytes + i
      BY <1>3
    <2>5. Len(Taken) + i \in 1..Len(handed)
      BY <1>1, <1>2, <1>3, <1>4
    <2> QED BY <2>3, <2>4, <2>5
  <1>6. piece \in Seq(Bytes) /\ Len(piece) = n
    <2>1. \A i \in 1..n : <<file, from + nbytes + i>> \in Bytes
      BY <1>4, <1>5, ElementOfSeq
    <2>2. piece \in [1..n -> Bytes]
      BY <2>1
    <2> HIDE DEF piece
    <2> QED BY <1>3, <2>2, FunctionIsSeq
  <1>7. \A i \in 1..n : piece[i] = handed[Len(Taken) + i]
    BY <1>5
  <1> HIDE DEF piece
  <1>8. got \in Seq(Bytes) /\ sent \in Seq(Bytes) /\ Len(sent) \in Nat /\ Len(got) \in Nat
    BY TakenIsSeq DEF Streams
  <1>9. sent \o piece \in Seq(Bytes) /\ Len(sent \o piece) = Len(sent) + n
    BY <1>6, <1>8, ConcatProperties
  <1>10. Taken' = Taken \o piece
    <2>1. (got \o sent) \o piece = got \o (sent \o piece)
      BY <1>6, <1>8, ConcatAssociative
    <2> QED BY <1>1, <2>1, Zenon DEF Taken
  <1>11. Len(Taken \o piece) = Len(Taken) + n
         /\ \A i \in 1..(Len(Taken) + n) :
              (Taken \o piece)[i] = IF i <= Len(Taken) THEN Taken[i] ELSE piece[i - Len(Taken)]
    BY <1>6, TakenIsSeq, ConcatProperties
  <1>12. \A i \in 1..Len(Taken) : Taken'[i] = Taken[i]
    BY <1>3, <1>4, <1>10, <1>11
  <1>13. \A i \in 1..n : Taken'[Len(Taken) + i] = handed[Len(Taken) + i]
    <2> SUFFICES ASSUME NEW i \in 1..n PROVE Taken'[Len(Taken) + i] = handed[Len(Taken) + i]
      OBVIOUS
    <2>1. Taken'[Len(Taken) + i] = piece[i]
      BY <1>3, <1>4, <1>10, <1>11
    <2> QED BY <2>1, <1>7
  <1>14. Streams'
    BY <1>1, <1>4, <1>8, <1>9, <1>3 DEF Streams, Bytes, Whole
  <1> QED BY <1>1, <1>2, <1>3, <1>4, <1>10, <1>11, <1>12, <1>13, <1>14

\* Reading moves bytes from the way to the UUT.
LEMMA ReadMoves ==
  ASSUME Streams, UutRead
  PROVE  Streams' /\ Taken' = Taken
  <1>1. sent \in Seq(Bytes) /\ got \in Seq(Bytes) /\ Len(sent) \in Nat
    BY DEF Streams
  <1>2. PICK n \in 1..Len(sent) :
          got' = got \o SubSeq(sent, 1, n) /\ sent' = SubSeq(sent, n + 1, Len(sent))
    BY DEF UutRead
  <1>3. /\ SubSeq(sent, 1, n) \in Seq(Bytes) /\ SubSeq(sent, n + 1, Len(sent)) \in Seq(Bytes)
        /\ Len(SubSeq(sent, n + 1, Len(sent))) <= Len(sent)
    BY <1>1, SubSeqProperties
  <1>4. SubSeq(sent, 1, n) \o SubSeq(sent, n + 1, Len(sent)) = sent
    <2>1. n \in (1 - 1)..Len(sent) /\ Len(sent) \in n..Len(sent) /\ 1 \in 1..(Len(sent) + 1)
      BY <1>1
    <2> QED BY <1>1, <2>1, ConcatAdjacentSubSeq, SubSeqFull
  <1>5. Taken' = got \o (SubSeq(sent, 1, n) \o SubSeq(sent, n + 1, Len(sent)))
    <2>1. \A s, t, u \in Seq(Bytes) : (s \o t) \o u = s \o (t \o u)
      BY ConcatAssociative
    <2> QED BY <1>1, <1>2, <1>3, <2>1, Zenon DEF Taken
  <1>6. got \o SubSeq(sent, 1, n) \in Seq(Bytes)
    BY <1>1, <1>3, ConcatProperties
  <1>7. handed' = handed
    BY DEF UutRead, host, call
  <1>8. Len(sent') <= Len(sent) /\ Len(sent') \in Nat /\ sent' \in Seq(Bytes)
        /\ got' \in Seq(Bytes)
    BY <1>2, <1>3, <1>6
  <1>9. Streams'
    BY <1>1, <1>7, <1>8, SizesAssumption DEF Streams, Bytes, Whole
  <1> QED BY <1>4, <1>5, <1>9, Zenon DEF Taken

\* A reset loses what was on the way.
LEMMA LossTakesBack ==
  ASSUME Streams, UNCHANGED <<got, handed>>, sent' \in {sent, <<>>}
  PROVE  /\ Streams' /\ Len(Taken') <= Len(Taken)
         /\ \A i \in 1..Len(Taken') : Taken'[i] = Taken[i]
         /\ sent' = sent => Taken' = Taken
         /\ sent' = <<>> => Taken' = got
  <1>1. CASE sent' = sent
    BY <1>1, TakenIsSeq DEF Streams, Taken, Bytes, Whole
  <1>2. CASE sent' = <<>>
    <2>1. Taken' = got
      BY <1>2 DEF Streams, Taken
    <2>2. Streams'
      BY <1>2, SizesAssumption DEF Streams, Bytes, Whole
    <2>3. Len(got) <= Len(Taken) /\ \A i \in 1..Len(got) : Taken[i] = got[i]
      BY TakenIsSeq
    <2> QED BY <1>2, <2>1, <2>2, <2>3 DEF Taken
  <1> QED BY <1>1, <1>2

-----------------------------------------------------------------------------
(* The numbers and the streams.                                             *)

\* A step keeps the numbers of bytes of the chunk.
LEMMA NumbersStep ==
  ASSUME Places, Numbers, Position, WholeElements, [Next]_vars
  PROVE  Numbers'
  <1> USE SizesAssumption
  <1>0. NextChunk \in 0..(BufLen * ElemSize) /\ pos \in Nat
    BY FreadIsWhole, ListedFile, WholeFile DEF Position
  <1>1. ASSUME reps' \in {reps, reps + 1}, missing' \in {missing, missing + 1},
               failures' \in {failures, failures + 1}, replies' \in {replies, 0, 1},
               UNCHANGED <<G_reps, from, maxbuf, nbytes>>
        PROVE  Numbers'
    BY <1>1 DEF Numbers
  <1>2. CASE Setup \/ OpenFile \/ FileEnds \/ OtherReads \/ Poll \/ In \/ WriteFails \/ Check
    BY <1>1, <1>2
    DEF Setup, OpenFile, FileEnds, OtherReads, Poll, In, WriteFails, Check, NextFile, line,
        list, call, wire
  <1>3. CASE Close \/ Killed \/ Uut \/ UNCHANGED vars
    BY <1>1, <1>3
    DEF Close, Killed, Uut, UutRead, UutClose, UutEnds, Refuse, Reset, host, vars, line, list,
        call, wire
  <1>4. CASE SendChunk
    BY <1>0, <1>4 DEF SendChunk, CallStreamOut, Numbers, line, list, wire
  <1>5. CASE Finish
    BY <1>0, <1>5 DEF Finish, CallStreamOut, Numbers, line, list
  <1>6. CASE \E n \in 1..Window : Write(n)
    BY <1>6 DEF Write, Numbers, line, list
  <1> QED BY <1>2, <1>3, <1>4, <1>5, <1>6 DEF Next, Host

\* stream_out gives a call up on a connection that has been reset only.
LEMMA FailedOnReset ==
  ASSUME Places, ShutInv, PeerInv, pc = "check", Failed
  PROVE  peer = "reset"
  <1>1. CASE "err" \in revents
    BY <1>1 DEF PeerInv
  <1>2. CASE "hup" \in revents /\ ~Draining
    BY <1>2, Zenon DEF PeerInv, ShutInv, Loop, Ended
  <1> QED BY <1>1, <1>2 DEF Failed

\* Steps after which both ends have the bytes they had.
LEMMA QuietStep ==
  ASSUME Numbers, Streams, TakenInv,
         UNCHANGED <<got, sent, handed>>, peer = "reset" => peer' = "reset",
         \/ pc' \in Ended \ {"done"} \/ peer' = "reset"
         \/ Rest' = Rest /\ pc \notin Ended \ {"done"}
  PROVE  Streams' /\ TakenInv'
  <1>1. Taken' = Taken /\ Streams'
    BY Zenon, LossTakesBack
  <1> QED BY <1>1 DEF TakenInv

\* A reset leaves the UUT a beginning of what it had been given.
LEMMA ResetStep ==
  ASSUME Streams, TakenInv, UNCHANGED <<got, handed>>, sent' = <<>>, peer' = "reset"
  PROVE  Streams' /\ TakenInv'
  <1>1. /\ Streams' /\ Len(Taken') <= Len(Taken)
        /\ \A i \in 1..Len(Taken') : Taken'[i] = Taken[i]
    BY Zenon, LossTakesBack
  <1>2. Len(Taken) \in Nat /\ Len(handed) \in Nat /\ Taken' = got /\ Len(got) \in Nat
    <2>1. got \in Seq(Bytes) /\ Len(got) \in Nat
      BY DEF Streams
    <2>2. Taken' = got
      BY Zenon, LossTakesBack
    <2> QED BY <2>1, <2>2, TakenIsSeq
  <1>3. Len(Taken) <= Len(handed) /\ \A i \in 1..Len(Taken) : Taken[i] = handed[i]
    BY Zenon DEF TakenInv
  <1>4. Len(Taken') <= Len(handed) /\ \A i \in 1..Len(Taken') : Taken'[i] = handed[i]
    <2> DEFINE T == Taken
               U == Taken'
    <2>1. /\ Len(U) <= Len(T) /\ Len(T) <= Len(handed)
          /\ Len(U) \in Nat /\ Len(T) \in Nat /\ Len(handed) \in Nat
          /\ \A i \in 1..Len(U) : U[i] = T[i]
          /\ \A i \in 1..Len(T) : T[i] = handed[i]
      BY <1>1, <1>2, <1>3, Zenon
    <2> HIDE DEF T, U
    <2>2. Len(U) <= Len(handed) /\ \A i \in 1..Len(U) : U[i] = handed[i]
      BY <2>1
    <2> QED BY <2>2 DEF T, U
  <1> QED BY <1>1, <1>4, Zenon DEF TakenInv

\* A step keeps what is known of the bytes: given out whole, taken in order.
LEMMA TransferStep ==
  ASSUME Places, Numbers, Position, Streams, WholeElements, CallerInv, ChunkInv, TakenInv,
         ShutInv, PeerInv, [Next]_vars
  PROVE  Streams' /\ ChunkInv' /\ TakenInv'
  <1> USE SizesAssumption
  <1> DEFINE Quiet == UNCHANGED <<got, sent, handed>>
  <1>0. maxbuf \in Nat /\ nbytes \in Nat /\ nbytes <= maxbuf /\ pos \in Nat
    BY ListedFile, WholeFile DEF Numbers, Position
  <1>1. CASE Setup \/ OpenFile \/ FileEnds
    <2>1. /\ Quiet /\ peer' = peer /\ pc \in {"setup", "open", "fread"}
          /\ pc' \in {"open", "unset", "exit", "fread", "close"}
      BY <1>1 DEF Setup, OpenFile, FileEnds, NextFile, call, wire
    <2>2. Rest' = Rest /\ pc \notin Ended \ {"done"}
      BY <2>1 DEF Rest, Loop, Ended
    <2>3. ChunkInv'
      BY <2>1 DEF ChunkInv, Loop
    <2> QED BY <2>1, <2>2, <2>3, QuietStep
  <1>2. CASE SendChunk \/ Finish
    <2>1. PICK n \in Nat :
            /\ CallStreamOut(n) /\ pos + n <= Whole(file) /\ pc = "fread"
            /\ UNCHANGED <<got, sent, peer, file>>
      <3>1. CASE SendChunk
        BY <3>1, FreadIsWhole DEF SendChunk, list, wire
      <3>2. CASE Finish
        BY <3>2, <1>0, ListedFile, WholeFile DEF Finish, list, Position
      <3> QED BY <1>2, <3>1, <3>2
    <2>2. /\ handed' \in Seq(Bytes) /\ Len(handed') = Len(handed) + n
          /\ \A i \in 1..Len(handed) : handed'[i] = handed[i]
          /\ \A i \in 1..n : handed'[Len(handed) + i] = <<file, pos + i>>
      BY <2>1, HandOver
    <2>3. from' = pos /\ maxbuf' = n /\ nbytes' = 0 /\ pc' \in {"exit", "poll", "done"}
      BY <2>1 DEF CallStreamOut
    <2>4. pc' # "done"
      BY <2>1 DEF CallStreamOut, LoopRuns
    <2>5. /\ Len(handed) \in Nat /\ Len(Taken) \in Nat /\ Len(Taken) <= Len(handed)
          /\ \A i \in 1..Len(Taken) : Taken[i] = handed[i]
      BY TakenIsSeq DEF TakenInv
    <2>6. peer # "reset" => Len(handed) = Len(Taken)
      BY <2>1, <2>5 DEF TakenInv, Rest, Loop, Ended
    <2>7. Taken' = Taken
      BY <2>1 DEF Taken
    <2>8. Streams'
      BY <2>1, <2>2 DEF Streams, Bytes, Whole
    <2>9. ChunkInv'
      <3>1. maxbuf' <= Len(handed') /\ Len(handed') - maxbuf' = Len(handed)
        BY <2>2, <2>3, <2>5
      <3> QED BY <2>1, <2>2, <2>3, <3>1 DEF ChunkInv
    <2>10. peer' # "reset" /\ pc' # "exit" => Len(handed') = Len(Taken') + Rest'
      <3>1. pc' # "exit" => Rest' = n
        BY <2>3, <2>4 DEF Rest, Loop
      <3> QED BY <2>1, <2>2, <2>5, <2>6, <2>7, <3>1
    <2>11. Len(Taken') <= Len(handed') /\ \A i \in 1..Len(Taken') : Taken'[i] = handed'[i]
      BY <2>2, <2>5, <2>7
    <2> QED BY <2>3, <2>8, <2>9, <2>10, <2>11 DEF TakenInv, Ended
  <1>3. CASE Close \/ Killed
    <2>1. /\ UNCHANGED <<got, handed, file, from, maxbuf>> /\ pc \notin Ended
          /\ \/ peer' = peer /\ sent' = sent
             \/ peer' = "reset" /\ sent' = <<>>
          /\ pc' = "killed" \/ (pc = "close" /\ pc' = "done")
      BY <1>3 DEF Close, Killed, Closed, Ended, list, call
    <2>2. ChunkInv'
      BY <2>1 DEF ChunkInv, Loop
    <2>3. CASE peer' = peer /\ sent' = sent
      <3>1. pc' = "done" => Rest' = Rest /\ pc \notin Ended
        BY <2>1 DEF Rest, Loop
      <3> QED BY <2>1, <2>2, <2>3, <3>1, QuietStep DEF Ended
    <2>4. CASE peer' = "reset" /\ sent' = <<>>
      BY <2>1, <2>2, <2>4, ResetStep
    <2> QED BY <2>1, <2>3, <2>4
  <1>4. CASE OtherReads \/ Poll \/ In \/ WriteFails
    <2>1. /\ Quiet /\ UNCHANGED <<peer, file, from, maxbuf, nbytes>> /\ pc \notin Ended
          /\ pc' = "killed" \/ pc' = pc \/ {pc, pc'} \subseteq Loop
      BY <1>4 DEF OtherReads, Poll, In, WriteFails, list, call, wire, Ended, Loop
    <2>2. pc' # "killed" => Rest' = Rest
      BY <2>1 DEF Rest
    <2>3. ChunkInv'
      BY <2>1 DEF ChunkInv, Loop
    <2> QED BY <2>1, <2>2, <2>3, QuietStep DEF Ended
  <1>5. CASE \E n \in 1..Window : Write(n)
    <2>1. PICK n \in 1..Window : Write(n)
      BY <1>5
    <2>2. /\ pc' = "check" /\ UNCHANGED <<handed, file, from, maxbuf, peer>>
          /\ nbytes' = nbytes + n /\ n \in Nat
      BY <2>1 DEF Write, list
    <2>3. /\ Streams' /\ Len(Taken') = Len(Taken) + n
          /\ \A i \in 1..Len(Taken) : Taken'[i] = Taken[i]
          /\ \A i \in 1..n : Taken'[Len(Taken) + i] = handed[Len(Taken) + i]
          /\ Len(handed) = Len(Taken) + maxbuf - nbytes /\ n <= maxbuf - nbytes
      BY <2>1, WriteTakes
    <2>4. ChunkInv'
      BY <2>1, <2>2 DEF ChunkInv, Loop, Write
    <2>5. Len(Taken) \in Nat /\ Len(handed) \in Nat
      BY TakenIsSeq
    <2>6. Len(handed') = Len(Taken') + Rest' /\ Len(Taken') <= Len(handed')
      <3>1. Rest' = maxbuf - (nbytes + n)
        BY <2>2 DEF Rest, Loop
      <3> QED BY <1>0, <2>2, <2>3, <2>5, <3>1
    <2>7. \A i \in 1..Len(Taken') : Taken'[i] = handed'[i]
      <3> SUFFICES ASSUME NEW i \in 1..Len(Taken') PROVE Taken'[i] = handed'[i]
        OBVIOUS
      <3>1. CASE i <= Len(Taken)
        BY <2>2, <2>3, <2>5, <3>1 DEF TakenInv
      <3>2. CASE ~(i <= Len(Taken))
        <4>1. i - Len(Taken) \in 1..n /\ Len(Taken) + (i - Len(Taken)) = i
          BY <2>2, <2>3, <2>5, <3>2
        <4> QED BY <2>2, <2>3, <4>1
      <3> QED BY <3>1, <3>2
    <2> QED BY <2>3, <2>4, <2>6, <2>7 DEF TakenInv
  <1>6. CASE Check
    <2>1. Quiet /\ UNCHANGED <<peer, file, from, maxbuf, nbytes>> /\ pc = "check"
      BY <1>6 DEF Check, list, call, wire
    <2>2. CASE Failed
      <3>1. peer' = "reset" /\ pc' \in {"done", "fread"}
        BY <1>6, <2>1, <2>2, FailedOnReset DEF Check, HungUp
      <3> QED BY <2>1, <3>1, QuietStep DEF ChunkInv, Loop
    <2>3. CASE ~Failed
      <3>1. \/ pc' = "done" /\ maxbuf = 0
            \/ pc' = "poll"
            \/ pc' = "fread" /\ ~(nbytes < maxbuf)
        BY <1>6, <2>3 DEF Check, HungUp, Draining, LoopRuns
      <3>2. Rest' = Rest
        BY <1>0, <2>1, <3>1 DEF Rest, Loop
      <3>3. ChunkInv'
        BY <2>1, <3>1 DEF ChunkInv, Loop
      <3> QED BY <2>1, <3>2, <3>3, QuietStep DEF Ended
    <2> QED BY <2>2, <2>3
  <1>7. CASE Uut \/ UNCHANGED vars
    <2>1. UNCHANGED host
      BY <1>7 DEF Uut, UutRead, UutClose, UutEnds, Refuse, Reset, vars
    <2>2. UNCHANGED <<handed, file, from, maxbuf, nbytes, pc>>
      BY <2>1 DEF host, list, call
    <2>3. ChunkInv' /\ Rest' = Rest
      BY <2>2 DEF ChunkInv, Rest
    <2>4. CASE UutRead
      <3>1. Streams' /\ Taken' = Taken /\ peer' = peer
        BY <2>4, ReadMoves DEF UutRead
      <3> QED BY <2>2, <2>3, <3>1 DEF TakenInv
    <2>5. CASE UutClose \/ UutEnds \/ UNCHANGED vars
      <3>1. Quiet /\ (peer = "reset" => peer' = "reset")
        BY <2>5 DEF UutClose, UutEnds, vars, wire, host, call
      <3> QED BY <2>2, <2>3, <3>1, QuietStep
    <2>6. CASE Refuse \/ Reset
      <3>1. UNCHANGED <<got, handed>> /\ peer' = "reset" /\ sent' = <<>>
        BY <2>2, <2>6 DEF Refuse, Reset
      <3> QED BY <2>3, <3>1, ResetStep
    <2> QED BY <1>7, <2>4, <2>5, <2>6 DEF Uut
  <1> QED BY <1>1, <1>2, <1>3, <1>4, <1>5, <1>6, <1>7 DEF Next, Host

-----------------------------------------------------------------------------
(* The callers, the shutdown and the connection.                            *)

\* A step keeps what is known of the caller's place in its files.
LEMMA CallerStep ==
  ASSUME Places, Position, Streams, WholeElements, CallerInv, ShutInv, [Next]_vars
  PROVE  CallerInv'
  <1>1. CASE Setup \/ OpenFile
    <2>1. /\ UNCHANGED <<caller, stdin, pos, handed>>
          /\ pc \in {"setup", "open"} /\ pc' \in {"open", "unset", "exit", "fread", "close"}
      BY <1>1 DEF Setup, OpenFile, NextFile, line, call
    <2> QED BY <2>1, Zenon DEF CallerInv, Places
  <1>2. CASE SendChunk
    <2>1. /\ UNCHANGED <<caller, stdin, file>> /\ pos' = pos + NextChunk
          /\ pc = "fread" /\ pc' \notin {"setup", "open", "close", "unset"}
      BY <1>2 DEF SendChunk, CallStreamOut, line, list
    <2>2. Len(handed') = Len(handed) + NextChunk
      BY <1>2, FreadIsWhole, HandOver DEF SendChunk
    <2>3. caller = "awg_loader" => file = 1 /\ ~stdin /\ Len(handed) = pos
      BY Zenon DEF CallerInv
    <2>4. caller = "awg_loader" => Len(handed') = pos'
      BY <2>1, <2>2, <2>3
    <2> QED BY <2>1, <2>3, <2>4, Zenon DEF CallerInv
  <1>3. CASE Finish
    <2>1. /\ UNCHANGED <<caller, stdin, file, pos>>
          /\ pc = "fread" /\ pc' \notin {"setup", "open", "close", "unset"}
      BY <1>3 DEF Finish, CallStreamOut, line, list
    <2>2. Len(handed') = Len(handed)
      <3>1. CallStreamOut(0) /\ pos + 0 <= Whole(file)
        BY <1>3, ListedFile, WholeFile DEF Finish, Position
      <3>2. Len(handed') = Len(handed) + 0
        BY <3>1, HandOver
      <3> QED BY <3>2, TakenIsSeq
    <2>3. caller = "awg_loader" => file = 1 /\ ~stdin /\ Len(handed) = pos
      BY Zenon DEF CallerInv
    <2> QED BY <2>1, <2>2, <2>3, Zenon DEF CallerInv
  <1>4. CASE FileEnds
    <2>1. caller = "streamer" /\ caller' = caller /\ pos' = 0
      BY <1>4 DEF FileEnds, line
    <2> QED BY <2>1 DEF CallerInv
  <1>5. CASE OtherReads
    <2>1. stdin /\ UNCHANGED <<caller, stdin>> /\ caller # "awg_loader"
      BY <1>5, Zenon DEF OtherReads, line, CallerInv
    <2> QED BY <2>1, Zenon DEF CallerInv
  <1>6. CASE Close \/ Killed \/ Uut \/ UNCHANGED vars
    <2>1. /\ UNCHANGED <<caller, stdin, file, pos, handed>>
          /\ pc' = pc \/ pc' = "killed" \/ (pc = "close" /\ pc' = "done")
      BY <1>6
      DEF Close, Killed, Uut, UutRead, UutClose, UutEnds, Refuse, Reset, host, vars, line, list,
          call
    <2> QED BY <2>1, Zenon DEF CallerInv
  <1>7. CASE Poll \/ In \/ (\E n \in 1..Window : Write(n)) \/ WriteFails \/ Check
    <2>1. /\ UNCHANGED <<caller, stdin, file, pos, handed>>
          /\ pc \in Loop /\ pc' \in Loop \union {"killed", "done", "fread"}
      BY <1>7 DEF Poll, In, Write, WriteFails, Check, line, list, call, Loop
    <2> QED BY <2>1, Zenon DEF CallerInv, Loop
  <1> QED BY <1>1, <1>2, <1>3, <1>4, <1>5, <1>6, <1>7 DEF Next, Host

\* A loader's last call comes when its file has been read to the end.
LEMMA ShutStep ==
  ASSUME Places, Flags, Numbers, Position, WholeElements, CallerInv, ShutInv, PeerInv,
         [Next]_vars
  PROVE  ShutInv'
  <1> USE SizesAssumption
  <1>1. CASE Setup \/ OpenFile \/ FileEnds
    <2>1. /\ UNCHANGED <<caller, skt, shut>> /\ pc \in {"setup", "open", "fread"}
          /\ pc' \in {"open", "unset", "exit", "fread", "close"}
      BY <1>1 DEF Setup, OpenFile, FileEnds, NextFile, wire, line
    <2> QED BY <2>1, Zenon DEF ShutInv, Loop, Ended
  <1>2. CASE SendChunk
    <2>1. /\ UNCHANGED <<caller, shut>> /\ pc = "fread" /\ pc' \in {"exit", "poll"}
          /\ skt' = skt \/ skt' = "open"
          /\ maxbuf' > 0
      BY <1>2, FreadIsWhole DEF SendChunk, CallStreamOut, LoopRuns, wire, line
    <2> QED BY <2>1 DEF ShutInv, Loop, Ended, Draining
  <1>3. CASE Finish
    <2>1. /\ UNCHANGED <<caller, pos, file>> /\ caller = "awg_loader" /\ pc = "fread"
          /\ pc' \in {"exit", "poll"} /\ maxbuf' = 0 /\ pos = Whole(file)
      BY <1>3, FreadIsWhole DEF Finish, CallStreamOut, LoopRuns, line, list
    <2>2. skt' = "open" \/ pc' = "exit"
      <3>1. skt \in {"none", "open"}
        BY <2>1 DEF ShutInv, Places, Ended
      <3> QED BY <1>3, <3>1 DEF Finish, CallStreamOut
    <2>3. skt' # "closed"
      <3>1. skt \in {"none", "open"}
        BY <2>1 DEF ShutInv, Places, Ended
      <3> QED BY <1>3, <3>1 DEF Finish, CallStreamOut
    <2>4. skt' = "open" => shut'
      BY <1>3, Zenon DEF Finish
    <2>5. file = 1
      BY <2>1 DEF CallerInv
    <2> QED BY <2>1, <2>2, <2>3, <2>4, <2>5 DEF ShutInv, Loop, Ended, Draining, Whole
  <1>4. CASE Close \/ Killed
    <2>1. /\ UNCHANGED <<caller, pos>> /\ pc \notin Ended
          /\ pc' = "killed" \/ (pc = "close" /\ pc' = "done")
      BY <1>4 DEF Close, Killed, Ended, line
    <2> QED BY <2>1 DEF ShutInv, Loop, Ended, CallerInv
  <1>5. CASE OtherReads
    <2>1. UNCHANGED <<caller, pc, skt, shut, maxbuf, peer, file>> /\ caller # "awg_loader"
      BY <1>5, Zenon DEF OtherReads, line, wire, CallerInv, call
    <2> QED BY <2>1 DEF ShutInv, Draining
  <1>6. CASE Poll \/ In \/ (\E n \in 1..Window : Write(n)) \/ WriteFails
    <2>1. /\ UNCHANGED <<caller, skt, shut, maxbuf, pos, file>> /\ pc \in Loop
          /\ pc' \in Loop \union {"killed"}
          /\ pc' = "write" => ~Draining
      BY <1>6 DEF Poll, In, Write, WriteFails, line, wire, list, call, Loop
    <2> QED BY <2>1 DEF ShutInv, Loop, Ended, Draining, Whole
  <1>7. CASE Check
    <2>0. UNCHANGED <<caller, shut, maxbuf, pos, file, peer, revents>> /\ pc = "check"
      BY <1>7 DEF Check, line, list, call, wire
    <2>1. CASE Failed
      <3>1. peer = "reset" /\ skt' = skt /\ pc' = IF Draining THEN "done" ELSE "fread"
        BY <1>7, <2>0, <2>1, FailedOnReset DEF Check, HungUp
      <3> QED BY <2>0, <3>1 DEF ShutInv, Loop, Ended, Draining, Whole
    <2>2. CASE ~Failed /\ HungUp
      <3>1. /\ skt' = "closed" /\ pc' = "done" /\ Draining
            /\ peer \in {"closed", "gone", "reset"}
        BY <1>7, <2>0, <2>2 DEF Check, HungUp, PeerInv
      <3> QED BY <2>0, <3>1 DEF ShutInv, Loop, Ended, Draining, Whole
    <2>3. CASE ~Failed /\ ~HungUp
      <3>1. skt' = skt /\ (pc' = "poll" \/ (pc' = "fread" /\ ~Draining))
        BY <1>7, <2>0, <2>3 DEF Check, LoopRuns, Draining
      <3> QED BY <2>0, <3>1 DEF ShutInv, Loop, Ended, Draining, Whole
    <2> QED BY <2>1, <2>2, <2>3
  <1>8. CASE Uut \/ UNCHANGED vars
    <2>1. /\ UNCHANGED <<caller, pc, skt, shut, maxbuf, pos, file>>
          /\ peer' = peer \/ (peer \in {"up", "gone"} /\ peer' \in {"closed", "gone", "reset"})
      BY <1>8
      DEF Uut, UutRead, UutClose, UutEnds, Refuse, Reset, host, vars, line, list, call, wire
    <2>2. peer \in {"closed", "gone", "reset"} => peer' \in {"closed", "gone", "reset"}
      BY <2>1
    <2> QED BY <2>1, <2>2 DEF ShutInv, Draining, Whole
  <1> QED BY <1>1, <1>2, <1>3, <1>4, <1>5, <1>6, <1>7, <1>8 DEF Next, Host

\* What the last poll saw is still true of the connection when it is used.
LEMMA PeerStep ==
  ASSUME Places, Flags, Numbers, ShutInv, PeerInv, [Next]_vars
  PROVE  PeerInv'
  <1> DEFINE Seen == {"in", "write", "check"}
             Hup == peer = "reset" \/ (peer \in {"closed", "gone"} /\ shut)
  <1>1. CASE Setup \/ OpenFile \/ FileEnds \/ SendChunk \/ OtherReads
    <2>1. UNCHANGED <<peer, err, shut, sent, revents>>
          /\ (pc' \in Seen => pc' = pc)
      BY <1>1 DEF Setup, OpenFile, FileEnds, SendChunk, OtherReads, NextFile, CallStreamOut, wire
    <2> QED BY <2>1, Zenon DEF PeerInv
  <1>2. CASE Finish
    <2>1. UNCHANGED <<peer, err, sent>> /\ pc = "fread" /\ pc' \notin Seen
      BY <1>2 DEF Finish, CallStreamOut
    <2>2. ~shut
      BY <2>1 DEF ShutInv, Ended, Loop
    <2> QED BY <2>1, <2>2 DEF PeerInv
  <1>3. CASE Close \/ Killed
    <2>1. /\ err' = err /\ pc' \notin Seen
          /\ shut' = shut \/ shut' = TRUE
          /\ \/ peer' = peer /\ sent' = sent
             \/ peer' = "reset" /\ sent' = <<>>
      BY <1>3, Zenon DEF Close, Killed, Closed, Ended
    <2>2. shut => shut'
      BY <2>1, Zenon
    <2> QED BY <2>1, <2>2 DEF PeerInv
  <1>4. CASE Poll
    <2>1. UNCHANGED <<peer, err, shut, sent>> /\ revents' = Events
      BY <1>4 DEF Poll, wire
    <2>2. /\ "err" \in Events => err # "none"
          /\ "hup" \in Events => Hup
      BY DEF Events
    <2> QED BY <2>1, <2>2 DEF PeerInv
  <1>5. CASE In
    <2>1. UNCHANGED <<peer, shut, sent, revents>> /\ pc = "in" /\ (err' = err \/ err' = "none")
      BY <1>5 DEF In
    <2> QED BY <2>1 DEF PeerInv
  <1>6. CASE \E n \in 1..Window : Write(n)
    <2>1. UNCHANGED <<peer, shut, err, revents>> /\ pc = "write" /\ peer # "reset"
      BY <1>6 DEF Write
    <2>2. peer # "closed"
      BY <2>1 DEF ShutInv, PeerInv, Ended, Loop
    <2> QED BY <2>1, <2>2 DEF PeerInv
  <1>7. CASE WriteFails \/ Check
    <2>1. UNCHANGED <<peer, shut, sent, revents>> /\ pc \in Seen /\ (err' = err \/ err' = "none")
      BY <1>7 DEF WriteFails, Check, wire
    <2> QED BY <2>1 DEF PeerInv
  <1>8. CASE Uut \/ UNCHANGED vars
    <2>1. UNCHANGED <<pc, revents, shut>>
      BY <1>8 DEF Uut, UutRead, UutClose, UutEnds, Refuse, Reset, host, vars, wire
    <2>2. CASE UutRead
      <3>1. peer = "up" /\ UNCHANGED <<peer, err>>
        BY <2>2 DEF UutRead
      <3> QED BY <2>1, <3>1 DEF PeerInv
    <2>3. CASE UutClose
      BY <2>1, <2>3 DEF UutClose, PeerInv
    <2>4. CASE UutEnds
      BY <2>1, <2>4 DEF UutEnds, PeerInv
    <2>5. CASE Refuse \/ Reset
      BY <2>1, <2>5 DEF Refuse, Reset, PeerInv
    <2>6. CASE UNCHANGED vars
      BY <2>1, <2>6 DEF vars, wire, PeerInv
    <2> QED BY <1>8, <2>2, <2>3, <2>4, <2>5, <2>6 DEF Uut
  <1> QED BY <1>1, <1>2, <1>3, <1>4, <1>5, <1>6, <1>7, <1>8 DEF Next, Host

\* A step keeps NoFalseFailure: -1 comes of a reset only.
LEMMA NoFalseFailureStep ==
  ASSUME Places, Numbers, ShutInv, PeerInv, NoFalseFailure, [Next]_vars
  PROVE  NoFalseFailure'
  <1>1. CASE Check
    <2>1. peer' = peer
      BY <1>1 DEF Check, wire
    <2>2. Failed \/ failures' = failures
      BY <1>1 DEF Check
    <2>3. Failed => peer = "reset"
      BY <1>1, FailedOnReset DEF Check
    <2> QED BY <2>1, <2>2, <2>3 DEF NoFalseFailure
  <1>2. CASE ~Check
    <2>1. UNCHANGED failures /\ (peer = "reset" => peer' = "reset")
      BY <1>2, Zenon
      DEF Next, Setup, Host, OpenFile, SendChunk, Finish, FileEnds, Close, Killed, OtherReads,
          Poll, In, Write, WriteFails, Uut, UutRead, UutClose, UutEnds, Refuse, Reset, Closed,
          wire, host, vars
    <2> QED BY <2>1 DEF NoFalseFailure
  <1> QED BY <1>1, <1>2

\* The invariant holds at the beginning.
LEMMA InitInv == Init => IInv
  <1> SUFFICES ASSUME Init PROVE IInv
    OBVIOUS
  <1> USE SizesAssumption
  <1>1. 1 \in 1..NFiles /\ NFiles <= Len(Files) /\ Whole(1) \in Nat
    BY WholeFile DEF NFiles
  <1>2. Flags /\ Places
    BY Zenon DEF Init, Flags, Places
  <1>3. Numbers /\ Position
    <2>1. BufLen * ElemSize \in Nat
      OBVIOUS
    <2>2. G_reps = 0 \/ G_reps \in Reps
      BY Zenon DEF Init
    <2>3. 0 \in Nat /\ Reps \subseteq Nat
      OBVIOUS
    <2>4. G_reps \in Nat
      BY <2>2, <2>3, Zenon
    <2> QED BY <1>1, <2>1, <2>4 DEF Init, Numbers, Position
  <1>4. Streams
    BY DEF Init, Streams
  <1>5. NoFalseFailure /\ CallerInv /\ ChunkInv /\ ShutInv /\ PeerInv
    BY DEF Init, NoFalseFailure, CallerInv, ChunkInv, ShutInv, PeerInv, Loop, Ended
  <1>6. WholeElements
    <2>1. pos = ElemSize * 0
      BY DEF Init
    <2> QED BY <2>1 DEF WholeElements
  <1>7. TakenInv
    BY DEF Init, TakenInv, Taken, Rest, Loop
  <1> QED BY <1>2, <1>3, <1>4, <1>5, <1>6, <1>7, TypeByKind, Zenon DEF IInv

\* Every step keeps the invariant.
LEMMA StepInv == IInv /\ [Next]_vars => IInv'
  <1> SUFFICES ASSUME IInv, [Next]_vars PROVE IInv'
    OBVIOUS
  <1>1. /\ Flags /\ Places /\ Numbers /\ Position /\ Streams
        /\ NoFalseFailure /\ CallerInv /\ WholeElements /\ ChunkInv /\ TakenInv /\ ShutInv
        /\ PeerInv
    BY TypeByKind, Zenon DEF IInv
  <1>2. Flags' /\ Places' /\ Numbers' /\ Position' /\ WholeElements'
    BY <1>1, FlagsStep, PlacesStep, NumbersStep, PositionStep, Zenon
  <1>3. Streams' /\ ChunkInv' /\ TakenInv'
    BY <1>1, TransferStep, Zenon
  <1>4. CallerInv' /\ ShutInv' /\ PeerInv' /\ NoFalseFailure'
    BY <1>1, CallerStep, ShutStep, PeerStep, NoFalseFailureStep, Zenon
  <1>5. TypeOK'
    BY <1>2, <1>3, Zenon DEF TypeOK, Flags, Places, Numbers, Position, Streams
  <1> QED BY <1>2, <1>3, <1>4, <1>5, Zenon DEF IInv

-----------------------------------------------------------------------------
(* What follows.                                                            *)

\* The invariant holds in every state of every transfer.
THEOREM Inductive == Spec => []IInv
  BY InitInv, StepInv, PTL DEF Spec

\* Every variable keeps its type: a position stays in its file and at most a
\* window of bytes is on its way.
THEOREM TypeCorrect == Spec => []TypeOK
  <1>1. IInv => TypeOK
    BY Zenon DEF IInv
  <1> QED BY <1>1, Inductive, PTL

\* A prefix, element by element.
LEMMA PrefixByElements ==
  ASSUME NEW S, NEW s \in Seq(S), NEW t \in Seq(S),
         Len(s) <= Len(t), \A i \in 1..Len(s) : s[i] = t[i]
  PROVE  IsPrefix(s, t)
  <1>1. SubSeq(s, 1, Len(s)) = SubSeq(t, 1, Len(s))
    OBVIOUS
  <1> QED BY <1>1 DEF IsPrefix

\* The invariant, part by part.
LEMMA IInvParts ==
  ASSUME IInv
  PROVE  /\ Flags /\ Places /\ Numbers /\ Position /\ Streams
         /\ NoFalseFailure /\ CallerInv /\ WholeElements /\ ChunkInv /\ TakenInv /\ ShutInv
         /\ PeerInv
  BY TypeByKind, Zenon DEF IInv

\* What the UUT has read, and what is on its way to it, is the beginning of
\* what stream_out was given, byte by byte: no chunk of any size is sent twice,
\* left out or overtaken, however short the counts of write() are.
THEOREM BytesInOrder == Spec => []InOrder
  <1>1. IInv => InOrder
    <2> SUFFICES ASSUME IInv PROVE InOrder
      OBVIOUS
    <2>1. Streams /\ TakenInv
      BY IInvParts, Zenon
    <2>2. Taken \in Seq(Bytes) /\ handed \in Seq(Bytes)
      BY <2>1, TakenIsSeq DEF Streams
    <2> QED BY <2>1, <2>2, PrefixByElements DEF TakenInv, InOrder, Taken
  <1> QED BY <1>1, Inductive, PTL

\* When a call has returned to its caller, all of its chunk was taken, or the
\* connection has been reset.
THEOREM WholeChunkTaken == Spec => []ChunkTaken
  <1>1. IInv => ChunkTaken
    <2> SUFFICES ASSUME IInv, pc \in {"open", "fread", "close"}, peer # "reset"
                 PROVE  Len(got \o sent) = Len(handed)
      BY DEF ChunkTaken
    <2>1. TakenInv /\ Streams
      BY IInvParts, Zenon
    <2>2. Rest = 0
      BY DEF Rest, Loop
    <2> QED BY <2>1, <2>2, TakenIsSeq DEF TakenInv, Taken, Ended
  <1> QED BY <1>1, Inductive, PTL

\* awg_loader returns after the UUT hung up; if it did so at the end of the
\* data, it has read every whole element of the file, whatever its length.
THEOREM LoaderWaitsForEnd == Spec => []LoaderWaits
  <1>1. IInv => LoaderWaits
    <2> SUFFICES ASSUME IInv, caller = "awg_loader", pc = "done"
                 PROVE  peer # "up" /\ (peer = "closed" => Len(got) = Whole(1))
      BY DEF LoaderWaits
    <2>1. Streams /\ CallerInv /\ TakenInv /\ ShutInv /\ PeerInv
      BY IInvParts, Zenon
    <2>2. pos = Whole(1) /\ peer \in {"closed", "gone", "reset"}
      BY <2>1 DEF ShutInv
    <2>3. Len(handed) = pos
      BY <2>1, Zenon DEF CallerInv
    <2>4. ASSUME peer = "closed" PROVE Len(got) = Whole(1)
      <3>1. Len(sent) = 0
        BY <2>1, <2>4 DEF PeerInv
      <3>2. Len(handed) = Len(Taken) + 0
        BY <2>1, <2>4 DEF TakenInv, Ended, Rest, Loop
      <3> QED BY <2>1, <2>2, <2>3, <3>1, <3>2, TakenIsSeq
    <2> QED BY <2>2, <2>4
  <1> QED BY <1>1, Inductive, PTL

\* stream_out returns -1 on a connection that has been reset and on no other.
THEOREM FailureIsReset == Spec => []NoFalseFailure
  <1>1. IInv => NoFalseFailure
    BY Zenon DEF IInv
  <1> QED BY <1>1, Inductive, PTL

-----------------------------------------------------------------------------
(* StreamOut implements BytePipe.                                           *)

\* Sequences with the same elements are the same.
LEMMA SameElements ==
  ASSUME NEW S, NEW s \in Seq(S), NEW t \in Seq(S),
         Len(s) = Len(t), \A i \in 1..Len(s) : s[i] = t[i]
  PROVE  s = t
  OBVIOUS

\* A call of stream_out gives its chunk to the pipe.
LEMMA GiveRefines ==
  ASSUME IInv, SendChunk
  PROVE  Pipe!Give
  <1>1. Streams /\ Position /\ WholeElements /\ TakenInv
    BY IInvParts, Zenon
  <1>2. /\ pc = "fread" /\ NextChunk > 0 /\ CallStreamOut(NextChunk)
        /\ UNCHANGED <<peer, got, sent>>
    BY DEF SendChunk, wire
  <1>3. NextChunk \in Nat /\ pos + NextChunk <= Whole(file)
    BY <1>1, FreadIsWhole
  <1>4. /\ handed' \in Seq(Bytes) /\ Len(handed') = Len(handed) + NextChunk
        /\ \A i \in 1..Len(handed) : handed'[i] = handed[i]
    BY <1>1, <1>2, <1>3, HandOver
  <1>5. /\ Taken \in Seq(Bytes) /\ handed \in Seq(Bytes)
        /\ Len(handed) \in Nat /\ Len(Taken) \in Nat
    BY <1>1, TakenIsSeq DEF Streams
  <1>6. IsPrefix(handed, handed') /\ handed # handed'
    BY <1>2, <1>3, <1>4, <1>5, PrefixByElements
  <1>7. ASSUME peer # "reset" PROVE Taken = handed
    <2>1. Len(handed) = Len(Taken)
      BY <1>1, <1>2, <1>5, <1>7 DEF TakenInv, Rest, Loop, Ended
    <2> QED BY <1>1, <1>5, <2>1, SameElements DEF TakenInv
  <1> QED BY <1>2, <1>6, <1>7 DEF Pipe!Give, Pipe!IsStrictPrefix, Pipe!IsPrefix, IsPrefix, Taken


\* A write lets the pipe take its bytes.
LEMMA TakeRefines ==
  ASSUME IInv, NEW n \in 1..Window, Write(n)
  PROVE  Pipe!Take
  <1>1. Numbers /\ Streams /\ ChunkInv /\ TakenInv
    BY IInvParts, Zenon
  <1>2. /\ Streams' /\ Len(Taken') = Len(Taken) + n
        /\ \A i \in 1..Len(Taken) : Taken'[i] = Taken[i]
        /\ \A i \in 1..n : Taken'[Len(Taken) + i] = handed[Len(Taken) + i]
        /\ Len(handed) = Len(Taken) + maxbuf - nbytes /\ n <= maxbuf - nbytes
    BY <1>1, WriteTakes
  <1>3. UNCHANGED <<handed, peer>> /\ peer # "reset"
    BY DEF Write
  <1>4. /\ Taken \in Seq(Bytes) /\ handed \in Seq(Bytes)
        /\ Len(handed) \in Nat /\ Len(Taken) \in Nat /\ n \in Nat /\ n > 0
    BY <1>1, TakenIsSeq, SizesAssumption DEF Streams
  <1>5. Taken' \in Seq(Bytes)
    <2>1. got' \in Seq(Bytes') /\ sent' \in Seq(Bytes') /\ Bytes' = Bytes
      BY <1>2 DEF Streams, Bytes, Whole
    <2> QED BY <2>1 DEF Taken
  <1>6. IsPrefix(Taken, Taken') /\ Taken # Taken'
    BY <1>2, <1>4, <1>5, PrefixByElements
  <1>7. IsPrefix(Taken', handed)
    <2>1. \A i \in 1..Len(Taken') : Taken'[i] = handed[i]
      <3> SUFFICES ASSUME NEW i \in 1..Len(Taken') PROVE Taken'[i] = handed[i]
        OBVIOUS
      <3>1. CASE i <= Len(Taken)
        BY <1>1, <1>2, <1>4, <3>1 DEF TakenInv
      <3>2. CASE ~(i <= Len(Taken))
        <4>1. i - Len(Taken) \in 1..n /\ Len(Taken) + (i - Len(Taken)) = i
          BY <1>2, <1>4, <3>2
        <4> QED BY <1>2, <4>1
      <3> QED BY <3>1, <3>2
    <2>2. Len(Taken') <= Len(handed)
      BY <1>1, <1>2, <1>4 DEF Numbers
    <2> QED BY <1>4, <1>5, <2>1, <2>2, PrefixByElements
  <1> QED BY <1>3, <1>6, <1>7 DEF Pipe!Take, Pipe!IsStrictPrefix, Pipe!IsPrefix, IsPrefix, Taken

\* A reset breaks the pipe.
LEMMA BreakRefines ==
  ASSUME IInv, peer # "reset", peer' = "reset", sent' = <<>>, UNCHANGED <<got, handed>>
  PROVE  Pipe!Break
  <1>1. Streams
    BY IInvParts, Zenon
  <1>2. /\ Len(Taken') <= Len(Taken) /\ \A i \in 1..Len(Taken') : Taken'[i] = Taken[i]
        /\ Taken' = got
    BY <1>1, LossTakesBack
  <1>3. IsPrefix(Taken', Taken)
    BY <1>1, <1>2, TakenIsSeq, PrefixByElements DEF Streams
  <1> QED BY <1>3 DEF Pipe!Break, Pipe!IsPrefix, IsPrefix, Taken

\* A step that leaves bytes and connection alone is none of the pipe's.
LEMMA StutterRefines ==
  ASSUME Taken' = Taken, handed' = handed, (peer' = "reset") <=> (peer = "reset")
  PROVE  UNCHANGED Pipe!pipeVars
  BY DEF Pipe!pipeVars, Taken

\* Every step is one of the pipe's or none.
LEMMA StepRefines ==
  ASSUME IInv, [Next]_vars
  PROVE  [Pipe!PipeNext]_Pipe!pipeVars
  <1>0. /\ Places /\ Numbers /\ Position /\ Streams /\ WholeElements /\ PeerInv
    BY IInvParts, Zenon
  <1>1. CASE SendChunk
    BY <1>1, GiveRefines DEF Pipe!PipeNext
  <1>2. CASE \E n \in 1..Window : Write(n)
    BY <1>2, TakeRefines DEF Pipe!PipeNext
  <1>3. CASE Finish
    <2>1. pos + 0 <= Whole(file) /\ CallStreamOut(0) /\ UNCHANGED <<peer, got, sent>>
      BY <1>0, <1>3, ListedFile, WholeFile DEF Position, Finish
    <2>2. /\ handed' \in Seq(Bytes) /\ Len(handed') = Len(handed) + 0
          /\ \A i \in 1..Len(handed) : handed'[i] = handed[i]
      BY <1>0, <2>1, HandOver
    <2>3. handed' = handed
      <3>1. handed \in Seq(Bytes) /\ Len(handed) \in Nat
        BY <1>0 DEF Streams
      <3>2. Len(handed') = Len(handed)
        BY <2>2, <3>1
      <3> QED BY <2>2, <3>1, <3>2, SameElements
    <2>4. Taken' = Taken
      BY <2>1 DEF Taken
    <2> QED BY <2>1, <2>3, <2>4, StutterRefines
  <1>4. CASE Close \/ Killed
    <2>1. /\ UNCHANGED <<got, handed>>
          /\ \/ peer' = peer /\ sent' = sent
             \/ peer' = "reset" /\ sent' = <<>>
      BY <1>4 DEF Close, Killed, Closed, call
    <2>2. CASE peer' = peer /\ sent' = sent
      BY <2>1, <2>2, StutterRefines DEF Taken
    <2>3. CASE peer # "reset" /\ peer' = "reset" /\ sent' = <<>>
      BY <2>1, <2>3, BreakRefines DEF Pipe!PipeNext
    <2>4. CASE peer = "reset" /\ peer' = "reset" /\ sent' = <<>>
      <3>1. sent = <<>>
        BY <1>0, <2>4 DEF PeerInv
      <3> QED BY <2>1, <2>4, <3>1, StutterRefines DEF Taken
    <2> QED BY <2>1, <2>2, <2>3, <2>4
  <1>5. CASE Refuse \/ Reset
    <2>1. peer # "reset" /\ peer' = "reset" /\ sent' = <<>> /\ UNCHANGED <<got, handed>>
      BY <1>5 DEF Refuse, Reset, host, call
    <2> QED BY <2>1, BreakRefines DEF Pipe!PipeNext
  <1>6. CASE UutRead
    <2>1. Taken' = Taken /\ UNCHANGED <<handed, peer>>
      BY <1>0, <1>6, ReadMoves DEF UutRead, host, call
    <2> QED BY <2>1, StutterRefines
  <1>7. CASE UutClose \/ UutEnds
    <2>1. /\ UNCHANGED <<got, sent, handed>> /\ peer = "up" /\ peer' \in {"closed", "gone"}
      BY <1>7 DEF UutClose, UutEnds, host, call
    <2> QED BY <2>1, StutterRefines DEF Taken
  <1>8. CASE \/ Setup \/ OpenFile \/ FileEnds \/ OtherReads
             \/ Poll \/ In \/ WriteFails \/ Check \/ UNCHANGED vars
    <2>1. UNCHANGED <<got, sent, handed, peer>>
      BY <1>8
      DEF Setup, OpenFile, FileEnds, OtherReads, Poll, In, WriteFails, Check, call, wire, host,
          vars
    <2> QED BY <2>1, StutterRefines DEF Taken
  <1> QED BY <1>1, <1>2, <1>3, <1>4, <1>5, <1>6, <1>7, <1>8 DEF Next, Host, Uut

\* stream_out and its callers implement the pipe of BytePipe: a chunk is given
\* when the one before was taken to its end, write() takes pieces of it in
\* order, and a reset, or a close with text unread, breaks the pipe for good.
THEOREM StreamOutIsAPipe == Spec => ImplementsPipe
  <1>1. Init => Pipe!PipeInit
    BY DEF Init, Pipe!PipeInit
  <1>2. IInv /\ [Next]_vars => [Pipe!PipeNext]_Pipe!pipeVars
    BY StepRefines
  <1> QED BY <1>1, <1>2, Inductive, PTL DEF Spec, ImplementsPipe, Pipe!PipeSpec

-----------------------------------------------------------------------------
(* FlattenSeq.  Its recursion is unfolded by induction over the naturals,   *)
(* from the theorem that they are well-founded.                             *)

\* A set of naturals that has 0 and the successors of its members has them all.
LEMMA SetInduction ==
  ASSUME NEW S, 0 \in S, \A n \in Nat : n \in S => n + 1 \in S
  PROVE  Nat \subseteq S
  <1> DEFINE R == OpToRel(<, Nat)
  <1> SUFFICES ASSUME Nat \ S # {} PROVE FALSE
    OBVIOUS
  <1>1. PICK x \in Nat \ S : \A y \in Nat \ S : <<y, x>> \notin R
    <2>1. IsWellFoundedOn(R, Nat)
      BY NatLessThanWellFounded
    <2> HIDE DEF R
    <2> QED BY <2>1, WFMin
  <1>2. \A y \in Nat \ S : ~(y < x)
    BY <1>1 DEF OpToRel
  <1>3. x # 0 /\ x - 1 \in Nat /\ x - 1 < x /\ (x - 1) + 1 = x
    OBVIOUS
  <1>4. x - 1 \in S
    BY <1>2, <1>3
  <1> QED BY <1>3, <1>4

\* The recursive function inside FlattenSeq exists and meets its equation.
LEMMA FlattenEquation ==
  ASSUME NEW s, NEW n \in Nat
  PROVE  LET flatten == CHOOSE g : g = [i \in 1..n |-> IF i = 1 THEN s[i] ELSE g[i - 1] \o s[i]]
         IN  flatten = [i \in 1..n |-> IF i = 1 THEN s[i] ELSE flatten[i - 1] \o s[i]]
  <1> DEFINE Meets(g, k) == g = [i \in 1..k |-> IF i = 1 THEN s[i] ELSE g[i - 1] \o s[i]]
             Done == {k \in Nat : \E g : Meets(g, k)}
  <1>1. 0 \in Done
    <2>1. Meets([i \in 1..0 |-> s], 0)
      OBVIOUS
    <2> QED BY <2>1
  <1>2. ASSUME NEW k \in Nat, k \in Done
        PROVE  k + 1 \in Done
    <2>1. PICK g : Meets(g, k)
      BY <1>2
    <2> DEFINE h == [i \in 1..(k + 1) |->
                       IF i <= k THEN g[i] ELSE IF i = 1 THEN s[i] ELSE g[i - 1] \o s[i]]
    <2>2. ASSUME NEW i \in 1..(k + 1)
          PROVE  h[i] = IF i = 1 THEN s[i] ELSE h[i - 1] \o s[i]
      <3>1. CASE i <= k
        <4>1. h[i] = g[i] /\ (i # 1 => h[i - 1] = g[i - 1])
          BY <3>1
        <4>2. g[i] = IF i = 1 THEN s[i] ELSE g[i - 1] \o s[i]
          <5>1. i \in 1..k
            BY <3>1
          <5> QED BY <2>1, <5>1
        <4> QED BY <4>1, <4>2
      <3>2. CASE ~(i <= k)
        <4>1. h[i] = (IF i = 1 THEN s[i] ELSE g[i - 1] \o s[i]) /\ (i # 1 => h[i - 1] = g[i - 1])
          BY <3>2
        <4> QED BY <4>1
      <3> QED BY <3>1, <3>2
    <2>3. Meets(h, k + 1)
      BY <2>2
    <2> HIDE DEF Meets, h
    <2> QED BY <2>3
  <1>3. n \in Done
    <2> HIDE DEF Done
    <2> QED BY <1>1, <1>2, SetInduction
  <1>4. \E g : Meets(g, n)
    BY <1>3
  <1> QED BY <1>4

\* Flattening one sequence more appends it.
LEMMA FlattenOneMore ==
  ASSUME NEW S, NEW n \in Nat, NEW s \in Seq(Seq(S)), Len(s) = n + 1
  PROVE  FlattenSeq(s) = IF n = 0 THEN s[1]
                         ELSE FlattenSeq([i \in 1..n |-> s[i]]) \o s[n + 1]
  <1> PICK m \in Nat : m = n + 1
    OBVIOUS
  <1> DEFINE t == [i \in 1..n |-> s[i]]
             f == CHOOSE g : g = [i \in 1..m |-> IF i = 1 THEN s[i] ELSE g[i - 1] \o s[i]]
             h == CHOOSE g : g = [i \in 1..n |-> IF i = 1 THEN t[i] ELSE g[i - 1] \o t[i]]
  <1>1. f = [i \in 1..m |-> IF i = 1 THEN s[i] ELSE f[i - 1] \o s[i]]
    BY FlattenEquation
  <1>2. h = [i \in 1..n |-> IF i = 1 THEN t[i] ELSE h[i - 1] \o t[i]]
    <2> HIDE DEF t
    <2> QED BY FlattenEquation
  <1>3. FlattenSeq(s) = f[m]
    BY DEF FlattenSeq
  <1>4. t \in Seq(Seq(S)) /\ Len(t) = n
    <2>1. \A i \in 1..n : s[i] \in Seq(S)
      OBVIOUS
    <2> QED BY <2>1
  <1>5. n # 0 => FlattenSeq(t) = h[n]
    <2> HIDE DEF t
    <2> QED BY <1>4 DEF FlattenSeq
  <1> HIDE DEF f, h
  <1>6. ASSUME NEW i \in 1..n
        PROVE  /\ f[i] = (IF i = 1 THEN s[i] ELSE f[i - 1] \o s[i])
               /\ h[i] = (IF i = 1 THEN s[i] ELSE h[i - 1] \o s[i])
    <2>1. i \in 1..m /\ t[i] = s[i]
      OBVIOUS
    <2>2. f[i] = (IF i = 1 THEN s[i] ELSE f[i - 1] \o s[i])
      BY <1>1, <2>1
    <2>3. h[i] = (IF i = 1 THEN t[i] ELSE h[i - 1] \o t[i])
      BY <1>2
    <2> QED BY <2>1, <2>2, <2>3
  <1> HIDE DEF t
  <1> DEFINE Same == {j \in Nat : \A i \in 1..n : i <= j => f[i] = h[i]}
  <1>7. Nat \subseteq Same
    <2>1. 0 \in Same
      OBVIOUS
    <2>2. ASSUME NEW j \in Nat, j \in Same
          PROVE  j + 1 \in Same
      <3>1. ASSUME NEW i \in 1..n, i <= j + 1
            PROVE  f[i] = h[i]
        <4>1. CASE i = 1
          BY <1>6, <4>1
        <4>2. CASE i # 1
          <5>1. i - 1 \in 1..n /\ i - 1 <= j
            BY <3>1, <4>2
          <5>2. f[i - 1] = h[i - 1]
            BY <2>2, <5>1
          <5> QED BY <1>6, <4>2, <5>2
        <4> QED BY <4>1, <4>2
      <3>2. j + 1 \in Nat
        OBVIOUS
      <3> QED BY <3>1, <3>2
    <2> HIDE DEF Same
    <2> QED BY <2>1, <2>2, SetInduction
  <1>8. CASE n = 0
    <2>1. m = 1 /\ 1 \in 1..m
      BY <1>8
    <2> QED BY <1>1, <1>3, <1>8, <2>1
  <1>9. CASE n # 0
    <2>1. f[n] = h[n]
      <3>1. n \in Same /\ n \in 1..n
        BY <1>7, <1>9
      <3> QED BY <3>1
    <2>2. m \in 1..m /\ m # 1 /\ m - 1 = n
      BY <1>9
    <2>3. f[m] = f[m - 1] \o s[m]
      BY <1>1, <2>2
    <2>4. f[m] = h[n] \o s[n + 1]
      BY <2>1, <2>2, <2>3
    <2> QED BY <1>3, <1>5, <1>9, <2>4 DEF t
  <1> QED BY <1>8, <1>9

\* Flattening sequences over a set gives one over that set.
LEMMA FlattenType ==
  ASSUME NEW S, NEW s \in Seq(Seq(S))
  PROVE  FlattenSeq(s) \in Seq(S)
  <1> DEFINE Done == {k \in Nat : \A t \in Seq(Seq(S)) : Len(t) = k => FlattenSeq(t) \in Seq(S)}
  <1>1. 0 \in Done
    <2> SUFFICES ASSUME NEW t \in Seq(Seq(S)), Len(t) = 0 PROVE FlattenSeq(t) \in Seq(S)
      OBVIOUS
    <2>1. FlattenSeq(t) = t /\ t = <<>>
      BY EmptySeq DEF FlattenSeq
    <2> QED BY <2>1
  <1>2. ASSUME NEW k \in Nat, k \in Done
        PROVE  k + 1 \in Done
    <2> SUFFICES ASSUME NEW t \in Seq(Seq(S)), Len(t) = k + 1 PROVE FlattenSeq(t) \in Seq(S)
      OBVIOUS
    <2> DEFINE u == [i \in 1..k |-> t[i]]
    <2>1. t[k + 1] \in Seq(S) /\ t[1] \in Seq(S)
      OBVIOUS
    <2>2. u \in Seq(Seq(S)) /\ Len(u) = k
      <3>1. \A i \in 1..k : t[i] \in Seq(S)
        OBVIOUS
      <3> QED BY <3>1
    <2>3. FlattenSeq(t) = IF k = 0 THEN t[1] ELSE FlattenSeq(u) \o t[k + 1]
      BY FlattenOneMore
    <2> HIDE DEF u
    <2>4. FlattenSeq(u) \in Seq(S)
      BY <1>2, <2>2
    <2>5. FlattenSeq(u) \o t[k + 1] \in Seq(S)
      BY <2>1, <2>4, ConcatProperties
    <2> QED BY <2>1, <2>3, <2>5
  <1>3. Len(s) \in Done
    <2> HIDE DEF Done
    <2> QED BY <1>1, <1>2, SetInduction
  <1> QED BY <1>3

\* Flattening one sequence more appends it, to nothing if it is the first.
LEMMA FlattenAppends ==
  ASSUME NEW S, NEW n \in Nat, NEW s \in Seq(Seq(S)), Len(s) = n + 1
  PROVE  FlattenSeq(s) = FlattenSeq([i \in 1..n |-> s[i]]) \o s[n + 1]
  <1> DEFINE t == [i \in 1..n |-> s[i]]
  <1>1. FlattenSeq(s) = IF n = 0 THEN s[1] ELSE FlattenSeq(t) \o s[n + 1]
    BY FlattenOneMore
  <1>2. CASE n = 0
    <2>1. t = <<>>
      BY <1>2
    <2>2. FlattenSeq(<<>>) = <<>>
      BY DEF FlattenSeq
    <2>3. s[1] \in Seq(S) /\ n + 1 = 1
      BY <1>2
    <2>4. <<>> \o s[1] = s[1]
      BY <2>3, ConcatEmptySeq
    <2> QED BY <1>1, <1>2, <2>1, <2>2, <2>3, <2>4
  <1> QED BY <1>1, <1>2

-----------------------------------------------------------------------------
(* Every file is played, one behind the other and again and again.          *)

\* The first f files, and n passes of the list.
Firsts(f) == FlattenSeq([g \in 1..f |-> Content(g)])
Copies(n) == FlattenSeq([p \in 1..n |-> Firsts(NFiles)])

\* What a caller that has lost nothing has handed over: the passes it has
\* finished, the files of this pass before the one at hand, and what it has
\* read of that one.
PlayedInv ==
  /\ G_reps > 0 => repeat
  /\ caller = "awg_loader" => ~repeat /\ missing = 0
  /\ missing = 0 =>
       /\ pc \in {"close", "done"} => handed = Copies(Passes)
       /\ pc \notin {"close"} \union Ended =>
            /\ handed = Copies(reps) \o Firsts(file - 1) \o [i \in 1..pos |-> <<file, i>>]
            /\ IF repeat THEN G_reps > 0 => reps <= G_reps ELSE reps = 0

\* The list grows by a file.
LEMMA FirstsGrow ==
  ASSUME NEW f \in Nat, f <= Len(Files)
  PROVE  /\ Firsts(f) \in Seq(Bytes) /\ Firsts(0) = <<>>
         /\ f # 0 => Firsts(f) = Firsts(f - 1) \o Content(f)
  <1> DEFINE s == [g \in 1..f |-> Content(g)]
  <1>1. Len(Files) \in Nat
    BY SizesAssumption
  <1>2. ASSUME NEW g \in 1..f
        PROVE  Content(g) \in Seq(Bytes)
    <2>1. g \in 1..Len(Files)
      BY <1>1
    <2>2. Whole(g) \in Nat
      BY <2>1, WholeFile
    <2>3. \A i \in 1..Whole(g) : <<g, i>> \in Bytes
      BY <2>1 DEF Bytes
    <2>4. Content(g) \in [1..Whole(g) -> Bytes]
      BY <2>3 DEF Content
    <2> QED BY <2>2, <2>4, FunctionIsSeq
  <1>3. s \in Seq(Seq(Bytes)) /\ Len(s) = f
    <2>1. s \in [1..f -> Seq(Bytes)]
      BY <1>2
    <2> HIDE DEF s
    <2> QED BY <2>1, FunctionIsSeq
  <1>4. Firsts(f) \in Seq(Bytes)
    BY <1>3, FlattenType DEF Firsts
  <1>5. Firsts(0) = <<>>
    BY DEF Firsts, FlattenSeq
  <1>6. ASSUME f # 0
        PROVE  Firsts(f) = Firsts(f - 1) \o Content(f)
    <2>1. PICK m \in Nat : f = m + 1
      <3>1. f - 1 \in Nat /\ f = (f - 1) + 1
        BY <1>6
      <3> QED BY <3>1
    <2>2. [i \in 1..m |-> s[i]] = [g \in 1..m |-> Content(g)] /\ s[m + 1] = Content(m + 1)
      BY <2>1
    <2> HIDE DEF s
    <2>3. FlattenSeq(s) = FlattenSeq([i \in 1..m |-> s[i]]) \o s[m + 1]
      BY <1>3, <2>1, FlattenAppends
    <2>4. FlattenSeq(s) = Firsts(m) \o Content(m + 1)
      BY <2>2, <2>3 DEF Firsts
    <2>5. m = f - 1 /\ m + 1 = f
      BY <2>1
    <2> QED BY <2>4, <2>5 DEF s, Firsts
  <1> QED BY <1>4, <1>5, <1>6

\* A pass of the list adds it once more.
LEMMA CopiesGrow ==
  ASSUME NEW n \in Nat
  PROVE  /\ Copies(n) \in Seq(Bytes) /\ Copies(0) = <<>>
         /\ Copies(n + 1) = Copies(n) \o Firsts(NFiles)
  <1> DEFINE L == Firsts(NFiles)
             s == [p \in 1..n |-> L]
             t == [p \in 1..(n + 1) |-> L]
  <1>1. L \in Seq(Bytes)
    <2>1. NFiles \in Nat /\ NFiles <= Len(Files)
      BY SizesAssumption DEF NFiles
    <2> QED BY <2>1, FirstsGrow
  <1> HIDE DEF L
  <1>2. s \in Seq(Seq(Bytes)) /\ Len(s) = n
    BY <1>1
  <1>3. t \in Seq(Seq(Bytes)) /\ Len(t) = n + 1
    BY <1>1
  <1>4. [i \in 1..n |-> t[i]] = s /\ t[n + 1] = L
    OBVIOUS
  <1> HIDE DEF s, t
  <1>5. FlattenSeq(t) = FlattenSeq(s) \o L
    BY <1>3, <1>4, FlattenAppends
  <1>6. FlattenSeq(s) \in Seq(Bytes)
    BY <1>2, FlattenType
  <1>7. Copies(0) = <<>>
    BY DEF Copies, FlattenSeq
  <1> QED BY <1>5, <1>6, <1>7 DEF Copies, s, t, L

\* A chunk is what comes next in the file.
LEMMA ReadAppends ==
  ASSUME NEW f, NEW p \in Nat, NEW n \in Nat
  PROVE  [i \in 1..p |-> <<f, i>>] \o [i \in 1..n |-> <<f, p + i>>] = [i \in 1..(p + n) |-> <<f, i>>]
  OBVIOUS

\* Steps that read nothing leave what was played as it was.
LEMMA IdlePlayed ==
  ASSUME PlayedInv, UNCHANGED <<line, file, reps, pos, handed, missing>>,
         \/ pc' = pc \/ pc' \in Ended \ {"done"} \/ (pc = "close" /\ pc' = "done")
         \/ pc \notin {"close"} \union Ended /\ pc' \notin {"close"} \union Ended
  PROVE  PlayedInv'
  <1>1. /\ UNCHANGED <<caller, repeat, G_reps, file, reps, pos, handed, missing>>
        /\ Copies(Passes)' = Copies(Passes) /\ Copies(reps)' = Copies(reps)
        /\ Firsts(file - 1)' = Firsts(file - 1)
        /\ [i \in 1..pos |-> <<file, i>>]' = [i \in 1..pos |-> <<file, i>>]
    BY DEF line, Copies, Firsts, Passes, NFiles, Content, Whole
  <1>2. CASE pc' = pc
    BY <1>1, <1>2, Zenon DEF PlayedInv
  <1>3. CASE pc' \in Ended \ {"done"}
    <2>1. pc' \notin {"close", "done"} /\ pc' \in {"close"} \union Ended
      BY <1>3 DEF Ended
    <2> QED BY <1>1, <2>1, Zenon DEF PlayedInv
  <1>4. CASE pc = "close" /\ pc' = "done"
    <2>1. pc' \in Ended /\ pc \in {"close", "done"}
      BY <1>4 DEF Ended
    <2> QED BY <1>1, <2>1, Zenon DEF PlayedInv
  <1>5. CASE pc \notin {"close"} \union Ended /\ pc' \notin {"close"} \union Ended
    <2>1. pc' \notin {"close", "done"}
      BY <1>5 DEF Ended
    <2> QED BY <1>1, <1>5, <2>1, Zenon DEF PlayedInv
  <1> QED BY <1>2, <1>3, <1>4, <1>5

\* A chunk handed over is the next of the file at hand.
LEMMA ChunkPlayed ==
  ASSUME Numbers, Position, Streams, WholeElements, PlayedInv, SendChunk
  PROVE  PlayedInv'
  <1> DEFINE n == NextChunk
             before == Copies(reps) \o Firsts(file - 1)
             read == [i \in 1..pos |-> <<file, i>>]
             chunk == [i \in 1..n |-> <<file, pos + i>>]
  <1>1. /\ pc = "fread" /\ pos' = pos + n /\ handed' = handed \o chunk
        /\ UNCHANGED <<line, list>> /\ pc' \in {"exit", "poll", "done"} /\ (n > 0 => pc' # "done")
    BY DEF SendChunk, CallStreamOut, LoopRuns
  <1>2. n \in Nat /\ n > 0 /\ pos \in Nat /\ pos + n <= Whole(file) /\ file \in 1..Len(Files)
    BY FreadIsWhole, ListedFile, WholeFile, SizesAssumption DEF SendChunk, Position
  <1>3. before \in Seq(Bytes)
    <2>1. Copies(reps) \in Seq(Bytes)
      BY CopiesGrow DEF Numbers
    <2>2. file - 1 \in Nat /\ file - 1 <= Len(Files)
      BY <1>2, SizesAssumption
    <2>3. Firsts(file - 1) \in Seq(Bytes)
      BY <2>2, FirstsGrow
    <2> QED BY <2>1, <2>3, ConcatProperties
  <1>4. read \in Seq(Bytes) /\ chunk \in Seq(Bytes)
    <2>1. \A i \in 1..pos : <<file, i>> \in Bytes
      BY <1>2, WholeFile DEF Bytes
    <2>2. \A i \in 1..n : <<file, pos + i>> \in Bytes
      BY <1>2, WholeFile DEF Bytes
    <2>3. read \in [1..pos -> Bytes] /\ chunk \in [1..n -> Bytes]
      BY <2>1, <2>2
    <2> HIDE DEF read, chunk, n
    <2> QED BY <1>2, <2>3, FunctionIsSeq
  <1>5. read \o chunk = [i \in 1..(pos + n) |-> <<file, i>>]
    <2> HIDE DEF n
    <2> QED BY <1>2, ReadAppends
  <1>6. before \o (read \o chunk) = (before \o read) \o chunk
    <2> HIDE DEF before, read, chunk
    <2> QED BY <1>3, <1>4, ConcatAssociative
  <1>7. /\ UNCHANGED <<caller, repeat, G_reps, file, reps, missing>>
        /\ before' = before
        /\ read' = read \o chunk
    BY <1>1, <1>5 DEF line, list, Copies, Firsts, NFiles, Content, Whole
  <1>8. pc' \notin {"close", "done"} /\ (pc' = "exit" \/ pc' = "poll")
    BY <1>1, <1>2
  <1>9. handed = before \o read => handed' = before' \o read'
    BY <1>1, <1>6, <1>7, Zenon
  <1>10. PlayedInv <=> 
           /\ G_reps > 0 => repeat
           /\ caller = "awg_loader" => ~repeat /\ missing = 0
           /\ missing = 0 =>
                /\ pc \in {"close", "done"} => handed = Copies(Passes)
                /\ pc \notin {"close"} \union Ended =>
                     /\ handed = before \o read
                     /\ IF repeat THEN G_reps > 0 => reps <= G_reps ELSE reps = 0
    BY Zenon DEF PlayedInv
  <1>11. pc \notin {"close"} \union Ended
    BY <1>1 DEF Ended
  <1>12. PlayedInv' <=> 
           /\ G_reps' > 0 => repeat'
           /\ caller' = "awg_loader" => ~repeat' /\ missing' = 0
           /\ missing' = 0 =>
                /\ pc' \in {"close", "done"} => handed' = Copies(Passes)'
                /\ pc' \notin {"close"} \union Ended =>
                     /\ handed' = before' \o read'
                     /\ IF repeat' THEN G_reps' > 0 => reps' <= G_reps' ELSE reps' = 0
    BY Zenon DEF PlayedInv
  <1> HIDE DEF before, read
  <1> QED BY <1>7, <1>8, <1>9, <1>10, <1>11, <1>12, Zenon

\* At the end of a file, and of a pass, one more has been played.
LEMMA FilePlayed ==
  ASSUME Numbers, Position, Streams, WholeElements, PlayedInv, FileEnds
  PROVE  PlayedInv'
  <1> DEFINE last == [i \in 1..pos |-> <<file, i>>]
  <1>1. /\ pc = "fread" /\ NextChunk = 0 /\ NextFile /\ pos' = 0
        /\ UNCHANGED <<caller, stdin, repeat, G_reps, missing, handed>>
    BY DEF FileEnds, line, call
  <1>2. /\ file \in 1..Len(Files) /\ file \in 1..NFiles /\ Len(Files) \in Nat
        /\ NFiles \in Nat /\ NFiles' = NFiles /\ reps \in Nat /\ G_reps \in Nat
    BY <1>1, ListedFile, SizesAssumption DEF Position, NFiles, Numbers
  <1>3. last = Content(file)
    BY <1>1, FreadIsWhole DEF Content
  <1>4. PICK f \in Nat : f + 1 = file
    <2>1. file - 1 \in Nat /\ (file - 1) + 1 = file
      BY <1>2
    <2> QED BY <2>1
  <1>5. /\ Firsts(file) = Firsts(file - 1) \o Content(file)
        /\ Firsts(file) \in Seq(Bytes) /\ Firsts(file - 1) \in Seq(Bytes) /\ Firsts(0) = <<>>
        /\ Content(file) \in Seq(Bytes)
    <2>1. file \in Nat /\ file # 0 /\ file <= Len(Files)
          /\ file - 1 \in Nat /\ file - 1 <= Len(Files)
      BY <1>2
    <2>2. Content(file) \in Seq(Bytes)
      <3>1. Whole(file) \in Nat /\ \A i \in 1..Whole(file) : <<file, i>> \in Bytes
        BY <1>2, WholeFile DEF Bytes
      <3>2. Content(file) \in [1..Whole(file) -> Bytes]
        BY <3>1 DEF Content
      <3> QED BY <3>1, <3>2, FunctionIsSeq
    <2> QED BY <2>1, <2>2, FirstsGrow
  <1>6. /\ Copies(reps) \in Seq(Bytes)
        /\ Copies(reps + 1) = Copies(reps) \o Firsts(NFiles)
        /\ Copies(reps + 1) \in Seq(Bytes)
    <2>1. reps + 1 \in Nat
      BY <1>2
    <2> QED BY <1>2, <2>1, CopiesGrow
  <1>7. /\ G_reps > 0 => repeat
        /\ caller = "awg_loader" => ~repeat /\ missing = 0
    BY Zenon DEF PlayedInv
  <1> SUFFICES ASSUME missing = 0
               PROVE  /\ pc' \in {"close", "done"} => handed = Copies(Passes)'
                      /\ pc' \notin {"close"} \union Ended =>
                           /\ handed = Copies(reps)' \o Firsts(file - 1)' \o
                                         [i \in 1..pos |-> <<file, i>>]'
                           /\ IF repeat THEN G_reps > 0 => reps' <= G_reps ELSE reps' = 0
    BY <1>1, <1>7, Zenon DEF PlayedInv
  <1>8. /\ handed = (Copies(reps) \o Firsts(file - 1)) \o last
        /\ IF repeat THEN G_reps > 0 => reps <= G_reps ELSE reps = 0
    BY <1>1 DEF PlayedInv, Ended
  <1>9. handed = Copies(reps) \o Firsts(file)
    <2> HIDE DEF last
    <2>1. (Copies(reps) \o Firsts(file - 1)) \o Content(file)
             = Copies(reps) \o (Firsts(file - 1) \o Content(file))
      BY <1>5, <1>6, ConcatAssociative
    <2> QED BY <1>3, <1>5, <1>8, <2>1
  <1>10. [i \in 1..pos |-> <<file, i>>]' = <<>>
    BY <1>1
  <1>11. Firsts(file - 1)' = Firsts(file' - 1)
    BY DEF Firsts, Content, Whole
  <1>12. Copies(reps)' = Copies(reps') /\ Copies(Passes)' = Copies(Passes)
    BY <1>1, <1>2 DEF Copies, Firsts, Content, Whole, Passes
  <1>13. CASE file < NFiles
    <2>1. file' = file + 1 /\ pc' = "open" /\ reps' = reps
      BY <1>1, <1>13 DEF NextFile
    <2>2. file' - 1 = file
      BY <1>2, <2>1
    <2>3. handed = Copies(reps)' \o Firsts(file - 1)' \o [i \in 1..pos |-> <<file, i>>]'
      <3>1. (Copies(reps) \o Firsts(file)) \o <<>> = Copies(reps) \o Firsts(file)
        <4>1. Copies(reps) \o Firsts(file) \in Seq(Bytes)
          BY <1>5, <1>6, ConcatProperties
        <4> QED BY <4>1, ConcatEmptySeq
      <3> QED BY <1>9, <1>10, <1>11, <1>12, <2>1, <2>2, <3>1
    <2> QED BY <1>8, <2>1, <2>3
  <1>14. CASE ~(file < NFiles)
    <2>1. file = NFiles /\ reps' = reps + 1
      BY <1>1, <1>2, <1>14 DEF NextFile
    <2>2. handed = Copies(reps + 1)
      BY <1>6, <1>9, <2>1
    <2>3. CASE LastPass(reps') \/ ~repeat
      <3>1. pc' = "close"
        BY <1>1, <1>14, <2>3 DEF NextFile
      <3>2. Passes = reps + 1
        BY <1>2, <1>7, <1>8, <2>1, <2>3 DEF Passes, LastPass
      <3> QED BY <1>12, <2>2, <3>1, <3>2
    <2>4. CASE ~(LastPass(reps') \/ ~repeat)
      <3>1. pc' = "open" /\ file' = 1
        BY <1>1, <1>14, <2>4 DEF NextFile
      <3>2. G_reps > 0 => reps' <= G_reps
        BY <1>2, <2>1, <2>4 DEF LastPass
      <3>3. Firsts(file - 1)' = <<>>
        BY <1>5, <1>11, <3>1
      <3>4. (Copies(reps + 1) \o <<>>) \o <<>> = Copies(reps + 1)
        BY <1>6, ConcatEmptySeq
      <3>5. handed = Copies(reps)' \o Firsts(file - 1)' \o [i \in 1..pos |-> <<file, i>>]'
        BY <1>10, <1>12, <2>1, <2>2, <3>3, <3>4
      <3> QED BY <2>4, <3>1, <3>2, <3>5
    <2> QED BY <2>3, <2>4
  <1> QED BY <1>13, <1>14

\* A loader's one file is its list, and its one pass.
LEMMA OneCopy ==
  ASSUME caller = "awg_loader"
  PROVE  Copies(0) \o Firsts(0) \o Content(1) = Copies(1)
  <1>1. NFiles = 1 /\ 1 \in Nat /\ 1 <= Len(Files) /\ 0 <= Len(Files)
    BY SizesAssumption DEF NFiles
  <1>2. Firsts(1) \in Seq(Bytes) /\ Firsts(0) = <<>> /\ Firsts(1) = Firsts(1 - 1) \o Content(1)
    BY <1>1, FirstsGrow
  <1>3. Copies(0) = <<>> /\ Copies(0 + 1) = Copies(0) \o Firsts(NFiles)
    BY CopiesGrow
  <1>4. Firsts(1) = <<>> \o Content(1) /\ Copies(1) = <<>> \o Firsts(1)
    <2>1. 1 - 1 = 0 /\ 0 + 1 = 1
      OBVIOUS
    <2> QED BY <1>1, <1>2, <1>3, <2>1, Zenon
  <1>5. <<>> \o <<>> = <<>> /\ <<>> \o Firsts(1) = Firsts(1)
    BY <1>2, ConcatEmptySeq
  <1> QED BY <1>2, <1>3, <1>4, <1>5

\* A step keeps what is known of the files played.
LEMMA PlayedStep == IInv /\ PlayedInv /\ [Next]_vars => PlayedInv'
  <1> SUFFICES ASSUME IInv, PlayedInv, [Next]_vars PROVE PlayedInv'
    OBVIOUS
  <1>0. Numbers /\ Position /\ Streams /\ WholeElements /\ CallerInv /\ ShutInv
    BY IInvParts, Zenon
  <1>1. CASE SendChunk
    BY <1>0, <1>1, ChunkPlayed
  <1>2. CASE FileEnds
    BY <1>0, <1>2, FilePlayed
  <1>3. CASE OtherReads \/ (OpenFile /\ missing' = missing + 1)
    <2>1. missing' # 0 /\ UNCHANGED <<caller, repeat, G_reps>> /\ caller # "awg_loader"
      BY <1>0, <1>3 DEF OtherReads, OpenFile, Numbers, CallerInv, line
    <2> QED BY <2>1 DEF PlayedInv
  <1>4. CASE Finish
    <2>1. /\ UNCHANGED <<line, file, reps, pos, missing>> /\ pc = "fread"
          /\ pc' \in {"exit", "poll"} /\ handed' = handed \o [i \in 1..0 |-> <<file, pos + i>>]
      BY <1>4 DEF Finish, CallStreamOut, LoopRuns, list
    <2>2. handed' = handed
      BY <1>0, <2>1, ConcatEmptySeq DEF Streams
    <2> QED BY <2>1, <2>2, IdlePlayed DEF Ended
  <1>5. CASE Setup \/ (OpenFile /\ pc' = "fread" /\ UNCHANGED list)
    <2>1. /\ UNCHANGED <<line, file, reps, pos, handed, missing>>
          /\ pc \in {"setup", "open"} /\ pc' \in {"open", "unset", "exit", "fread", "close"}
          /\ pc' # "close"
      BY <1>5 DEF Setup, OpenFile, list, call
    <2> QED BY <2>1, IdlePlayed DEF Ended
  <1>6. CASE Poll \/ In \/ (\E n \in 1..Window : Write(n)) \/ WriteFails
    <2>1. /\ UNCHANGED <<line, file, reps, pos, handed, missing>>
          /\ pc \in Loop /\ pc' \in Loop \union {"killed"}
      BY <1>6 DEF Poll, In, Write, WriteFails, list, call, Loop
    <2> QED BY <2>1, IdlePlayed DEF Ended, Loop
  <1>7. CASE Check
    <2>1. /\ UNCHANGED <<line, file, reps, pos, handed, missing>> /\ pc = "check"
          /\ pc' \in {"poll", "fread", "done"} /\ (pc' = "done" => Draining)
      BY <1>7 DEF Check, HungUp, list, call
    <2>2. CASE pc' = "done"
      <3>1. /\ UNCHANGED <<caller, repeat, G_reps, file, reps, missing, handed>>
            /\ pos = Whole(1) /\ file = 1 /\ caller = "awg_loader"
        BY <1>0, <2>1, <2>2 DEF ShutInv, CallerInv, Loop, line
      <3>2. ~repeat /\ missing = 0 /\ reps = 0 /\ Passes' = 1
            /\ handed = Copies(0) \o Firsts(0) \o [i \in 1..pos |-> <<1, i>>]
        <4>1. pc \notin {"close"} \union Ended
          BY <2>1 DEF Ended
        <4>2. ~repeat /\ missing = 0
          BY <3>1, Zenon DEF PlayedInv
        <4>3. reps = 0 /\ handed = Copies(reps) \o Firsts(file - 1) \o [i \in 1..pos |-> <<file, i>>]
          BY <4>1, <4>2, Zenon DEF PlayedInv
        <4>4. file - 1 = 0
          BY <3>1
        <4> QED BY <3>1, <4>2, <4>3, <4>4, Zenon DEF Passes
      <3>3. handed = Copies(1)
        BY <3>1, <3>2, OneCopy DEF Content
      <3>4. Copies(Passes)' = Copies(1)
        <4>1. NFiles' = NFiles
          BY <2>1 DEF NFiles, line
        <4> QED BY <3>2, <4>1 DEF Copies, Firsts, Content, Whole
      <3> QED BY <2>2, <3>1, <3>2, <3>3, <3>4 DEF PlayedInv, Ended
    <2>3. CASE pc' # "done"
      BY <2>1, <2>3, IdlePlayed DEF Ended
    <2> QED BY <2>2, <2>3
  <1>8. CASE Close \/ Killed \/ Uut \/ UNCHANGED vars
    <2>1. /\ UNCHANGED <<line, file, reps, pos, handed, missing>>
          /\ pc' = pc \/ pc' = "killed" \/ (pc = "close" /\ pc' = "done")
      BY <1>8
      DEF Close, Killed, Uut, UutRead, UutClose, UutEnds, Refuse, Reset, host, vars, list, call
    <2> QED BY <2>1, IdlePlayed DEF Ended
  <1>9. OpenFile => missing' = missing + 1 \/ (pc' = "fread" /\ UNCHANGED list)
    BY Zenon DEF OpenFile
  <1> QED BY <1>1, <1>2, <1>3, <1>4, <1>5, <1>6, <1>7, <1>8, <1>9 DEF Next, Host

\* What was played is known from the beginning on.
LEMMA InitPlayed == Init => PlayedInv
  <1> SUFFICES ASSUME Init PROVE PlayedInv
    OBVIOUS
  <1>1. Copies(0) = <<>> /\ Firsts(0) = <<>>
    BY CopiesGrow, FirstsGrow, SizesAssumption
  <1>2. /\ reps = 0 /\ file - 1 = 0 /\ pos = 0 /\ handed = <<>> /\ pc \in {"fread", "setup"}
        /\ G_reps > 0 => repeat
        /\ caller = "awg_loader" => ~repeat /\ missing = 0
        /\ G_reps \in Nat
    <2>1. G_reps \in Nat
      BY InitInv, IInvParts DEF Numbers
    <2>2. G_reps > 0 => repeat
      BY DEF Init
    <2> QED BY <2>1, <2>2 DEF Init
  <1>3. handed = Copies(reps) \o Firsts(file - 1) \o [i \in 1..pos |-> <<file, i>>]
    BY <1>1, <1>2
  <1> QED BY <1>2, <1>3 DEF PlayedInv

\* A caller that is done, with nothing lost, handed its files over in whole, and
\* what is handed over was taken.
LEMMA DonePlayed ==
  ASSUME IInv, PlayedInv, pc = "done", missing = 0
  PROVE  /\ handed = Copies(Passes)
         /\ peer # "reset" => got \o sent = handed
  <1>1. handed = Copies(Passes)
    BY DEF PlayedInv
  <1>2. Streams /\ TakenInv
    BY IInvParts, Zenon
  <1>3. Taken \in Seq(Bytes) /\ handed \in Seq(Bytes)
    BY <1>2, TakenIsSeq DEF Streams
  <1>4. ASSUME peer # "reset"
        PROVE  Taken = handed
    <2>1. Rest = 0
      BY DEF Rest, Loop
    <2>2. Len(Taken) = Len(handed) /\ \A i \in 1..Len(Taken) : Taken[i] = handed[i]
      BY <1>2, <1>3, <1>4, <2>1 DEF TakenInv, Ended
    <2> QED BY <1>3, <2>2, SameElements
  <1> QED BY <1>1, <1>4, Zenon DEF Taken

\* PlayedInv holds in every state of every transfer.
THEOREM PlayedSoFar == Spec => []PlayedInv
  BY InitPlayed, PlayedStep, Inductive, PTL DEF Spec

\* A worker of acq400_stream_awg that ends with nothing lost has handed over
\* every whole element of its files, one behind the other, G_reps + 1 times or
\* once, whatever the files, and on a connection that stands all of it was
\* taken.
THEOREM AllFilesPlayed == Spec => []AllPlayed
  <1>1. IInv /\ PlayedInv => AllPlayed
    <2> SUFFICES ASSUME IInv, PlayedInv, caller = "streamer", pc = "done", missing = 0
                 PROVE  /\ handed = Copies(Passes)
                        /\ peer # "reset" => Len(got \o sent) = Len(handed)
      BY DEF AllPlayed, Copies, Firsts
    <2> QED BY DonePlayed, Zenon
  <1> QED BY <1>1, PlayedSoFar, Inductive, PTL

\* A UUT that has hung up at the end of a load has read the file: each whole
\* element of it, in its place, and nothing else.
THEOREM LoadIsFile ==
  Spec => [](caller = "awg_loader" /\ pc = "done" /\ peer = "closed" => got = Content(1))
  <1>1. IInv /\ PlayedInv =>
          (caller = "awg_loader" /\ pc = "done" /\ peer = "closed" => got = Content(1))
    <2> SUFFICES ASSUME IInv, PlayedInv, caller = "awg_loader", pc = "done", peer = "closed"
                 PROVE  got = Content(1)
      OBVIOUS
    <2>1. missing = 0 /\ ~repeat
      BY DEF PlayedInv
    <2>2. got \o sent = Copies(Passes)
      BY <2>1, DonePlayed
    <2>3. Streams /\ PeerInv
      BY IInvParts, Zenon
    <2>4. got \o sent = got
      <3>1. sent = <<>> /\ got \in Seq(Bytes)
        BY <2>3 DEF PeerInv, Streams
      <3> QED BY <3>1, ConcatEmptySeq
    <2>5. Passes = 1
      BY <2>1 DEF Passes
    <2>6. Copies(1) = Content(1)
      <3>1. Copies(0) \o Firsts(0) \o Content(1) = Copies(1)
        BY OneCopy
      <3>2. Copies(0) = <<>> /\ Firsts(0) = <<>>
        BY CopiesGrow, FirstsGrow, SizesAssumption
      <3>3. Content(1) \in Seq(Bytes)
        <4>1. 1 \in 1..Len(Files) /\ Whole(1) \in Nat
          BY SizesAssumption, WholeFile
        <4>2. \A i \in 1..Whole(1) : <<1, i>> \in Bytes
          BY <4>1 DEF Bytes
        <4>3. Content(1) \in [1..Whole(1) -> Bytes]
          BY <4>2 DEF Content
        <4> QED BY <4>1, <4>3, FunctionIsSeq
      <3>4. <<>> \o <<>> = <<>> /\ <<>> \o Content(1) = Content(1)
        BY <3>3, ConcatEmptySeq
      <3> QED BY <3>1, <3>2, <3>4
    <2> QED BY <2>2, <2>4, <2>5, <2>6
  <1> QED BY <1>1, PlayedSoFar, Inductive, PTL

-----------------------------------------------------------------------------
(* Workers that share stdin.                                                *)

\* A worker of stdin hands over what it reads, and reads on from there.
StdinInv ==
  stdin =>
    /\ caller = "streamer" /\ ~repeat
    /\ pc \notin {"close"} \union Ended => \A i \in 1..Len(handed) : handed[i][2] <= pos
    /\ \A i, j \in 1..Len(handed) : i < j => handed[i][2] < handed[j][2]

\* A step keeps the order of what was read.
LEMMA StdinStep == IInv /\ StdinInv /\ [Next]_vars => StdinInv'
  <1> SUFFICES ASSUME IInv, StdinInv, [Next]_vars, stdin' PROVE StdinInv'
    BY DEF StdinInv
  <1>0. Numbers /\ Position /\ Streams /\ WholeElements
    BY IInvParts, Zenon
  <1>1. stdin' = stdin /\ caller' = caller /\ repeat' = repeat
    BY Zenon
    DEF Next, Setup, Host, OpenFile, SendChunk, Finish, FileEnds, Close, Killed, OtherReads,
        Poll, In, Write, WriteFails, Check, Uut, UutRead, UutClose, UutEnds, Refuse, Reset,
        host, line, vars
  <1>2. /\ caller = "streamer" /\ ~repeat
        /\ \A i, j \in 1..Len(handed) : i < j => handed[i][2] < handed[j][2]
        /\ pc \notin {"close"} \union Ended => \A i \in 1..Len(handed) : handed[i][2] <= pos
    BY <1>1, Zenon DEF StdinInv
  <1>3. pos \in Nat /\ NextChunk \in Nat /\ pos + NextChunk <= Whole(file) /\ file = 1
        /\ NFiles = 1 /\ file \in 1..Len(Files)
    <2>1. NFiles = 1
      BY <1>1, Zenon DEF NFiles
    <2>2. file = 1 /\ pos \in Nat
      BY <1>0, <2>1, ListedFile, WholeFile DEF Position
    <2>3. NextChunk \in 0..(BufLen * ElemSize) /\ pos + NextChunk \in 0..Whole(file)
      BY <1>0, FreadIsWhole
    <2> QED BY <1>0, <2>1, <2>2, <2>3, SizesAssumption, ListedFile, WholeFile
  <1>4. \A i \in 1..Len(handed) : handed[i] \in Bytes /\ handed[i][2] \in Nat
    <2>1. \A i \in 1..Len(handed) : handed[i] \in Bytes
      BY <1>0, ElementOfSeq DEF Streams
    <2>2. \A b \in Bytes : b[2] \in Nat
      <3>1. \A f \in 1..Len(Files) : Whole(f) \in Nat
        BY WholeFile
      <3> QED BY <3>1 DEF Bytes
    <2> QED BY <2>1, <2>2
  <1>5. ASSUME handed' = handed,
               pc' \in {"close"} \union Ended \/
                 (pc \notin {"close"} \union Ended /\ pos' \in {pos, pos + NextChunk})
        PROVE  StdinInv'
    <2>1. ASSUME pc' \notin {"close"} \union Ended, NEW i \in 1..Len(handed)
          PROVE  handed[i][2] <= pos'
      <3>1. handed[i][2] <= pos /\ pos' \in {pos, pos + NextChunk}
        BY <1>2, <1>5, <2>1
      <3> QED BY <1>3, <1>4, <3>1
    <2> QED BY <1>1, <1>2, <1>5, <2>1 DEF StdinInv
  <1>6. CASE SendChunk
    <2> DEFINE n == NextChunk
               m == Len(handed)
    <2>1. /\ pc = "fread" /\ pos' = pos + n /\ CallStreamOut(n) /\ n > 0
      BY <1>6 DEF SendChunk
    <2>2. /\ Len(handed') = m + n /\ m \in Nat /\ n \in Nat
          /\ \A i \in 1..m : handed'[i] = handed[i]
          /\ \A i \in 1..n : handed'[m + i] = <<file, pos + i>>
      <3>1. handed \in Seq(Bytes)
        BY <1>0 DEF Streams
      <3>2. n \in Nat /\ pos + n <= Whole(file) /\ CallStreamOut(n)
        BY <1>3, <2>1
      <3> HIDE DEF n
      <3>3. /\ Len(handed') = Len(handed) + n
            /\ \A i \in 1..Len(handed) : handed'[i] = handed[i]
            /\ \A i \in 1..n : handed'[Len(handed) + i] = <<file, pos + i>>
        BY <1>0, <3>2, HandOver
      <3>4. Len(handed) \in Nat
        BY <3>1
      <3> QED BY <3>2, <3>3, <3>4, Zenon DEF m
    <2>3. pc \notin {"close"} \union Ended
      BY <2>1 DEF Ended
    <2> HIDE DEF n, m
    <2>4. ASSUME NEW i \in 1..(m + n)
          PROVE  \/ i <= m /\ handed'[i][2] = handed[i][2] /\ handed[i][2] <= pos
                 \/ i > m /\ handed'[i][2] = pos + (i - m)
      <3>1. CASE i <= m
        <4>1. i \in 1..m /\ i \in 1..Len(handed)
          BY <2>2, <3>1 DEF m
        <4> QED BY <1>2, <2>2, <2>3, <3>1, <4>1
      <3>2. CASE i > m
        <4>1. i - m \in 1..n /\ m + (i - m) = i
          BY <2>2, <3>2
        <4>2. handed'[i] = <<file, pos + (i - m)>>
          BY <2>2, <4>1
        <4> QED BY <3>2, <4>2
      <3> QED BY <2>2, <3>1, <3>2
    <2>5. \A i \in 1..m : handed[i][2] \in Nat
      BY <1>4 DEF m
    <2>6. ASSUME NEW i \in 1..(m + n)
          PROVE  handed'[i][2] <= pos + n
      <3>1. CASE i <= m
        BY <1>3, <2>2, <2>4, <2>5, <3>1
      <3>2. CASE i > m
        BY <1>3, <2>2, <2>4, <3>2
      <3> QED BY <2>2, <3>1, <3>2
    <2>7. ASSUME NEW i \in 1..(m + n), NEW j \in 1..(m + n), i < j
          PROVE  handed'[i][2] < handed'[j][2]
      <3>1. CASE j <= m
        <4>1. i \in 1..Len(handed) /\ j \in 1..Len(handed) /\ handed[i][2] < handed[j][2]
          BY <1>2, <2>2, <2>7, <3>1 DEF m
        <4> QED BY <2>2, <2>4, <2>7, <3>1, <4>1
      <3>2. CASE j > m /\ i <= m
        BY <1>3, <2>2, <2>4, <2>5, <3>2
      <3>3. CASE j > m /\ i > m
        BY <1>3, <2>2, <2>4, <2>7, <3>3
      <3> QED BY <2>2, <2>7, <3>1, <3>2, <3>3
    <2> QED BY <1>1, <1>2, <2>1, <2>2, <2>6, <2>7 DEF StdinInv, n
  <1>7. CASE FileEnds
    <2>1. pc' = "close" /\ handed' = handed
      BY <1>2, <1>3, <1>7 DEF FileEnds, NextFile, call
    <2> QED BY <1>5, <2>1
  <1>8. CASE Setup \/ OpenFile
    <2>1. /\ handed' = handed /\ pos' = pos /\ pc \in {"setup", "open"}
      BY <1>8 DEF Setup, OpenFile, call
    <2>2. pc \notin {"close"} \union Ended
      BY <2>1 DEF Ended
    <2> QED BY <1>5, <2>1, <2>2
  <1>9. CASE OtherReads
    <2>1. handed' = handed /\ pos' = pos + NextChunk /\ pc \notin {"close"} \union Ended
      BY <1>9 DEF OtherReads, call
    <2> QED BY <1>5, <2>1
  <1>10. CASE Finish
    BY <1>2, <1>10 DEF Finish
  <1>11. CASE Poll \/ In \/ (\E n \in 1..Window : Write(n)) \/ WriteFails \/ Check
    <2>1. handed' = handed /\ pos' = pos /\ pc \in Loop
      BY <1>11 DEF Poll, In, Write, WriteFails, Check, call, Loop
    <2>2. pc \notin {"close"} \union Ended
      BY <2>1 DEF Ended, Loop
    <2> QED BY <1>5, <2>1, <2>2
  <1>12. CASE Close \/ Killed \/ Uut \/ UNCHANGED vars
    <2>1. handed' = handed /\ pos' = pos /\ (pc' = pc \/ pc' \in {"killed", "done"})
      BY <1>12
      DEF Close, Killed, Uut, UutRead, UutClose, UutEnds, Refuse, Reset, host, vars, call
    <2> QED BY <1>5, <2>1 DEF Ended
  <1> QED
    BY <1>6, <1>7, <1>8, <1>9, <1>10, <1>11, <1>12 DEF Next, Host

\* Workers that share stdin (acq400_stream_awg.cpp:38) read it in turns nobody
\* chose; what each of them hands to its UUT is in the order of stdin, and no
\* byte of it is there twice.
THEOREM SharedStdinInOrder ==
  Spec => [](stdin => \A i, j \in 1..Len(handed) : i < j => handed[i][2] < handed[j][2])
  <1>1. Init => StdinInv
    BY DEF Init, StdinInv
  <1>2. StdinInv =>
          (stdin => \A i, j \in 1..Len(handed) : i < j => handed[i][2] < handed[j][2])
    BY DEF StdinInv
  <1> QED BY <1>1, <1>2, StdinStep, Inductive, PTL DEF Spec

=============================================================================
