----------------------------- MODULE StreamOut -----------------------------
(***************************************************************************)
(* Acq400::stream_out under its two bulk callers: awg_loader, which sends  *)
(* a file, shuts its side down and waits for the UUT to hang up, and a     *)
(* worker of acq400_stream_awg, which sends its files, or stdin, once or   *)
(* again and again, and closes.                                            *)
(*                                                                         *)
(*   caller, stdin, repeat, G_reps                                         *)
(*             "awg_loader" or "streamer", and what the command line gave  *)
(*             the second                                                  *)
(*   pc        "setup", "open", "fread", "close" (caller), "poll", "in",   *)
(*             "write", "check" (the loop of stream_out), "done" (caller   *)
(*             returned), "unset" (no data32), "exit" (error()), "killed"  *)
(*   file, pos, reps                                                       *)
(*             the file being read, bytes read from it, files streamed to  *)
(*             the end of the list so far                                  *)
(*   from, maxbuf, nbytes, revents                                         *)
(*             parameters and locals of stream_out; the chunk in hand is   *)
(*             bytes from+1 .. from+maxbuf of the file                     *)
(*   skt       *pskt: "none", "open" or "closed"                           *)
(*   failures  calls that returned -1; both callers ignore them            *)
(*   handed    the bytes given to stream_out (history)                     *)
(*   missing   files that could not be opened, and chunks of stdin that    *)
(*             went to other workers (history)                             *)
(*   peer      the UUT's end: "refused", "up", "closed" (at the end of the *)
(*             data), "gone" (its process ended early), "reset"            *)
(*   err       error pending on the socket                                 *)
(*   shut      this end has sent its FIN                                   *)
(*   sent      bytes on the way, each a file and a position in it          *)
(*   got       bytes the UUT has read                                      *)
(*   replies   text of the UUT that has not been read                      *)
(*                                                                         *)
(* The socket blocks.  A write may still return a short count: a process   *)
(* that is stopped and continued in the middle of one gets what was        *)
(* copied.  poll returns -1 only if a signal has a handler, and in these   *)
(* programs none has one.  Its timeout only starts it again.               *)
(***************************************************************************)
EXTENDS Integers, SequencesExt

CONSTANTS
  Files,           \* bytes in each file of the list
  ElemSize,        \* sizeof(C), the size of what fread counts
  BufLen,          \* elements per fread (0x10000)
  Reps,            \* the values of G_reps looked at
  Window,          \* bound: bytes on the way
  MaxPasses,       \* bound: passes of a repetition without end
  SigpipeIgnored   \* TRUE if the program was started with SIGPIPE ignored

ASSUME SizesAssumption ==
  /\ Files \in Seq(Nat) /\ Files # <<>>
  /\ ElemSize \in Nat \ {0} /\ BufLen \in Nat \ {0} /\ Reps \subseteq Nat
  /\ Window \in Nat \ {0} /\ MaxPasses \in Nat \ {0} /\ SigpipeIgnored \in BOOLEAN

VARIABLES caller, stdin, repeat, G_reps, pc, file, pos, reps,
          from, maxbuf, nbytes, revents, skt, failures, handed, missing,
          peer, err, shut, sent, got, replies

line  == <<caller, stdin, repeat, G_reps>>
list  == <<file, reps, missing>>
call  == <<from, maxbuf, nbytes, handed>>
host  == <<line, list, call, pc, pos, revents, skt, failures>>
wire  == <<peer, err, shut, sent, got, replies>>
vars  == <<host, wire>>

-----------------------------------------------------------------------------
(* The callers.                                                             *)

\* The files of the list; a loader has one, and so is stdin.
NFiles == IF caller = "streamer" /\ ~stdin THEN Len(Files) ELSE 1

\* Bytes of the next fread: whole elements only.
NextChunk_AnyByte ==
  IF Files[file] - pos < BufLen * ElemSize THEN Files[file] - pos ELSE BufLen * ElemSize
NextChunk ==
  LET left == (Files[file] - pos) \div ElemSize
  IN ElemSize * (IF left < BufLen THEN left ELSE BufLen)

\* wait_for_ready and get of data32 in worker_thread.
Setup ==
  /\ pc = "setup"
  /\ pc' \in {"open", "unset", "exit"}
  /\ UNCHANGED <<line, list, call, pos, revents, skt, failures, wire>>

\* ++reps > G_reps && G_reps
LastPass_AtReps(n) == n >= G_reps /\ G_reps # 0
LastPass(n) == n > G_reps /\ G_reps # 0

\* What follows a file: the next one, the next pass, or the end.
NextFile ==
  IF file < NFiles
  THEN file' = file + 1 /\ pc' = "open" /\ UNCHANGED reps
  ELSE /\ reps' = reps + 1
       /\ IF LastPass(reps') \/ ~repeat
          THEN pc' = "close" /\ UNCHANGED file
          ELSE reps' < MaxPasses /\ file' = 1 /\ pc' = "open"

\* main could open every file; one that cannot be opened now is passed over.
OpenFile ==
  /\ pc = "open"
  /\ \/ pc' = "fread" /\ UNCHANGED list
     \/ ~stdin /\ NextFile /\ missing' = missing + 1
  /\ UNCHANGED <<line, call, pos, revents, skt, failures, wire>>

\* while (nbytes < maxbuf || maxbuf == 0)
LoopRuns_DataOnly(done, max) == done < max
LoopRuns_Once(done, max) == done = 0
LoopRuns(done, max) == done < max \/ max = 0

\* stream_out connects in its first call, or error() ends the process.
CallStreamOut(n) ==
  /\ from' = pos /\ maxbuf' = n /\ nbytes' = 0
  /\ handed' = handed \o [i \in 1..n |-> <<file, pos + i>>]
  /\ IF skt = "none" /\ peer = "refused"
     THEN pc' = "exit" /\ UNCHANGED skt
     ELSE /\ pc' = IF LoopRuns(0, n) THEN "poll" ELSE "done"
          /\ skt' = IF skt = "none" THEN "open" ELSE skt

SendChunk ==
  /\ pc = "fread" /\ NextChunk > 0
  /\ pos' = pos + NextChunk
  /\ CallStreamOut(NextChunk)
  /\ UNCHANGED <<line, list, revents, failures, wire>>

\* awg_loader's last call has maxbuf = 0: shutdown(SHUT_WR).
Finish ==
  /\ pc = "fread" /\ NextChunk = 0
  /\ caller = "awg_loader"
  /\ CallStreamOut(0)
  /\ shut' = (skt' = "open")
  /\ UNCHANGED <<line, list, pos, revents, failures, peer, err, sent, got, replies>>

FileEnds ==
  /\ pc = "fread" /\ NextChunk = 0
  /\ caller = "streamer"
  /\ NextFile
  /\ pos' = 0
  /\ UNCHANGED <<line, missing, call, revents, skt, failures, wire>>

\* The socket is closed, by close(), or with the process.  With text unread
\* that resets the connection, and what is on the way is lost.
Closed ==
  IF skt = "open"
  THEN /\ skt' = "closed" /\ shut' = TRUE
       /\ IF replies > 0 THEN peer' = "reset" /\ sent' = <<>> ELSE UNCHANGED <<peer, sent>>
  ELSE UNCHANGED <<skt, shut, peer, sent>>

Close ==
  /\ pc = "close"
  /\ pc' = "done"
  /\ Closed
  /\ UNCHANGED <<line, list, call, pos, revents, failures, err, got, replies>>

Ended == {"done", "unset", "exit", "killed"}

\* A signal ends the process, or error() in another worker does, which is
\* another thread of it.
Killed ==
  /\ pc \notin Ended
  /\ pc' = "killed"
  /\ Closed
  /\ UNCHANGED <<line, list, call, pos, revents, failures, err, got, replies>>

\* All workers read one stdin: another one takes the next chunk.
OtherReads ==
  /\ stdin /\ pc \notin Ended \union {"close"}
  /\ NextChunk > 0
  /\ pos' = pos + NextChunk
  /\ missing' = missing + 1
  /\ UNCHANGED <<line, file, reps, call, pc, revents, skt, failures, wire>>

-----------------------------------------------------------------------------
(* The loop of stream_out.                                                  *)

Draining == maxbuf = 0

\* What poll reports for a TCP socket.
Events ==
  {e \in {"in", "out", "err", "hup"} :
     \/ e = "in"  /\ (replies > 0 \/ peer \in {"closed", "gone", "reset"})
     \/ e = "out" /\ (Len(sent) < Window \/ shut \/ peer = "reset")
     \/ e = "err" /\ err # "none"
     \/ e = "hup" /\ (peer = "reset" \/ (peer \in {"closed", "gone"} /\ shut))}

Poll ==
  /\ pc = "poll"
  /\ Events # {}
  /\ revents' = Events
  /\ pc' = "in"
  /\ UNCHANGED <<line, list, call, pos, skt, failures, wire>>

\* The read takes text, or else the pending error, or finds end of file.
In ==
  /\ pc = "in"
  /\ IF "in" \in revents
     THEN replies' = 0 /\ err' = IF replies > 0 THEN err ELSE "none"
     ELSE UNCHANGED <<replies, err>>
  /\ pc' = IF ~Draining /\ "out" \in revents THEN "write" ELSE "check"
  /\ UNCHANGED <<line, list, call, pos, revents, skt, failures, peer, shut, sent, got>>

\* Position in the file of the byte at buf+nbytes.
WriteFrom_Start == from
WriteFrom == from + nbytes

Write(n) ==
  /\ pc = "write"
  /\ peer # "reset"
  /\ n <= maxbuf - nbytes /\ n <= Window - Len(sent)
  /\ sent' = sent \o [i \in 1..n |-> <<file, WriteFrom + i>>]
  /\ nbytes' = nbytes + n
  /\ pc' = "check"
  /\ UNCHANGED <<line, list, from, maxbuf, handed, pos, revents, skt, failures,
                 peer, err, shut, got, replies>>

\* The connection has been reset: write returns the pending ECONNRESET, or
\* else EPIPE with a SIGPIPE that ends the process.
WriteFails ==
  /\ pc = "write"
  /\ peer = "reset"
  /\ pc' = IF err = "ECONNRESET" \/ SigpipeIgnored THEN "check" ELSE "killed"
  /\ err' = "none"
  /\ UNCHANGED <<line, list, call, pos, revents, skt, failures, peer, shut, sent, got,
                 replies>>

\* return -1, and the caller goes on as if nothing had happened.
Failed_AnyHup == revents \intersect {"err", "hup"} # {}
Failed == "err" \in revents \/ ("hup" \in revents /\ ~Draining)

\* close(skt), return 0
HungUp_Never == FALSE
HungUp == "hup" \in revents /\ Draining /\ ~Failed

\* What follows the write: the events poll reported, then the loop's test.
Check ==
  /\ pc = "check"
  /\ \/ /\ Failed
        /\ failures' = failures + 1
        /\ pc' = IF Draining THEN "done" ELSE "fread"
        /\ UNCHANGED skt
     \/ /\ HungUp
        /\ skt' = "closed"
        /\ pc' = "done"
        /\ UNCHANGED failures
     \/ /\ ~Failed /\ ~HungUp
        /\ pc' = IF LoopRuns(nbytes, maxbuf) THEN "poll" ELSE "fread"
        /\ UNCHANGED <<skt, failures>>
  /\ UNCHANGED <<line, list, call, pos, revents, wire>>

-----------------------------------------------------------------------------
(* The UUT (external).                                                      *)

\* It reads what has arrived, and may report on it.
UutRead ==
  /\ peer = "up" /\ sent # <<>>
  /\ \E n \in 1..Len(sent) :
       got' = got \o SubSeq(sent, 1, n) /\ sent' = SubSeq(sent, n + 1, Len(sent))
  /\ replies' \in {replies, 1}
  /\ UNCHANGED <<host, peer, err, shut>>

\* At the end of the data it closes.
UutClose ==
  /\ peer = "up" /\ shut /\ sent = <<>>
  /\ peer' = "closed"
  /\ UNCHANGED <<host, err, shut, sent, got, replies>>

\* Its process ends before that, with everything read that had arrived ...
UutEnds ==
  /\ peer = "up" /\ skt # "none"
  /\ peer' = "gone"
  /\ UNCHANGED <<host, err, shut, sent, got, replies>>

\* ... and what arrives later resets the connection.
Refuse ==
  /\ peer = "gone" /\ sent # <<>>
  /\ peer' = "reset" /\ err' = "EPIPE" /\ sent' = <<>>
  /\ UNCHANGED <<host, shut, got, replies>>

\* Or it ends, or the network fails, with data unread.
Reset ==
  /\ peer = "up" /\ skt = "open"
  /\ peer' = "reset" /\ err' = "ECONNRESET" /\ sent' = <<>>
  /\ UNCHANGED <<host, shut, got, replies>>

-----------------------------------------------------------------------------

Init ==
  /\ \/ caller = "awg_loader" /\ stdin = FALSE /\ repeat = FALSE /\ G_reps = 0 /\ pc = "fread"
     \/ /\ caller = "streamer" /\ pc = "setup"
        /\ stdin \in BOOLEAN /\ repeat \in BOOLEAN /\ G_reps \in Reps
        /\ G_reps > 0 => repeat
        /\ stdin => ~repeat
  /\ file = 1 /\ pos = 0 /\ reps = 0
  /\ from = 0 /\ maxbuf = 0 /\ nbytes = 0 /\ revents = {}
  /\ skt = "none" /\ failures = 0 /\ handed = <<>> /\ missing = 0
  /\ peer \in {"refused", "up"}
  /\ err = "none" /\ shut = FALSE
  /\ sent = <<>> /\ got = <<>> /\ replies = 0

Host ==
  \/ OpenFile \/ SendChunk \/ Finish \/ FileEnds \/ Close
  \/ Poll \/ In \/ (\E n \in 1..Window : Write(n)) \/ WriteFails \/ Check
Uut == UutRead \/ UutClose \/ UutEnds \/ Refuse \/ Reset
Next == Setup \/ Host \/ Killed \/ OtherReads \/ Uut

Spec == Init /\ [][Next]_vars

\* The caller's thread runs; a UUT that is up reads what it is sent and closes
\* at the end of it, and its kernel answers data for a process that has ended.
FairSpec == Spec /\ WF_vars(Host) /\ WF_vars(UutRead) /\ WF_vars(UutClose)
                 /\ WF_vars(Refuse)

-----------------------------------------------------------------------------
(* Properties.                                                              *)

Whole(f) == ElemSize * (Files[f] \div ElemSize)
Content(f) == [i \in 1..Whole(f) |-> <<f, i>>]
Bytes == UNION {{<<f, i>> : i \in 1..Whole(f)} : f \in 1..Len(Files)}

\* Every variable has its type.
TypeOK ==
  /\ caller \in {"awg_loader", "streamer"} /\ stdin \in BOOLEAN
  /\ repeat \in BOOLEAN /\ G_reps \in Nat
  /\ pc \in {"setup", "open", "fread", "close", "poll", "in", "write", "check"} \union Ended
  /\ file \in 1..NFiles /\ pos \in 0..Whole(file) /\ reps \in Nat /\ missing \in Nat
  /\ maxbuf \in 0..(BufLen * ElemSize) /\ nbytes \in 0..maxbuf /\ from \in Nat
  /\ revents \subseteq {"in", "out", "err", "hup"}
  /\ skt \in {"none", "open", "closed"} /\ failures \in Nat
  /\ peer \in {"refused", "up", "closed", "gone", "reset"}
  /\ err \in {"none", "ECONNRESET", "EPIPE"} /\ shut \in BOOLEAN
  /\ sent \in Seq(Bytes) /\ Len(sent) <= Window
  /\ got \in Seq(Bytes) /\ handed \in Seq(Bytes) /\ replies \in 0..1

\* The UUT reads the bytes its caller took from the files in their order, none
\* twice and none left out, however short the counts are that write returns,
\* whatever other workers take from stdin, and wherever one of them ends the
\* process.
InOrder == IsPrefix(got \o sent, handed)

\* stream_out gives a chunk up only when the connection has been reset: on any
\* other the caller goes on when the whole of this one was taken.
ChunkTaken ==
  pc \in {"open", "fread", "close"} => peer = "reset" \/ Len(got \o sent) = Len(handed)

\* awg_loader returns when the UUT has hung up, and a UUT that hung up at the
\* end of the data has read every whole element of the file by then: the load
\* that follows never overlaps this one.
LoaderWaits ==
  caller = "awg_loader" /\ pc = "done" =>
    peer # "up" /\ (peer = "closed" => Len(got) = Whole(1))

\* -1 is never returned on a connection that is alive.
NoFalseFailure == failures > 0 => peer = "reset"

\* A worker that ends with nothing lost has streamed every whole element of its
\* files, one file behind the other, and that G_reps + 1 times (with a number
\* on the command line) or once.
Passes == IF repeat THEN G_reps + 1 ELSE 1
AllPlayed ==
  caller = "streamer" /\ pc = "done" /\ missing = 0 =>
    LET list1 == FlattenSeq([f \in 1..NFiles |-> Content(f)])
    IN /\ handed = FlattenSeq([p \in 1..Passes |-> list1])
       /\ peer # "reset" => Len(got \o sent) = Len(handed)

\* stream_out and its callers are a pipe: module BytePipe.
Pipe == INSTANCE BytePipe WITH
  given <- handed, taken <- got \o sent, broken <- peer = "reset"
ImplementsPipe == Pipe!PipeSpec

\* A load or a stream that is not without end by its command line comes to its
\* end, whatever the UUT does to it.
Ends == pc # "setup" /\ (repeat => G_reps > 0) ~> pc \in Ended
=============================================================================
