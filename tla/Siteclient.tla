----------------------------- MODULE Siteclient -----------------------------
(***************************************************************************)
(* One Siteclient of acq400_chapi.cpp talking to one site service of a     *)
(* UUT: Netclient::receive_message, Siteclient::_sr, sr and the            *)
(* constructor, over a TCP byte stream.                                    *)
(*                                                                         *)
(*   pc       where the client is: "new" (socket not connected), "ctor"    *)
(*            (connected, the constructor has not sent "prompt on"),       *)
(*            "idle" (the caller's code runs), "recv" (in the recv loop of *)
(*            receive_message), "exit" (process ended)                     *)
(*   buffer   Netclient::buffer                                            *)
(*   nrx      the local of receive_message                                 *)
(*   replies  what sr() returned, one record per command; the first one is *)
(*            the constructor's own "prompt on"                            *)
(*   uut      "up", or "down" once its end of the connection is closed     *)
(*   toUut    commands sent and not yet executed, by number (0 is          *)
(*            "prompt on")                                                 *)
(*   toHost   bytes sent by the UUT and not yet received                   *)
(*   answers  the answer the UUT gave to each command (history)            *)
(*                                                                         *)
(* A byte of an answer is tagged with the command it answers, so that a    *)
(* byte that ends up in another command's reply is seen.                   *)
(***************************************************************************)
EXTENDS Integers, Sequences

CONSTANTS
  PromptLen,     \* bytes in a prompt "acq400.S N >"
  ChunkMax,      \* most bytes one recv returns (1024)
  InitFill,      \* zero bytes Netclient's constructor leaves in buffer (4096)
  CtorRx,        \* max_rx of the constructor's sr() (64)
  MaxRx,         \* max_rx of the caller's sr() (16384)
  MaxText,       \* bound: longest answer
  MaxCmd         \* bound: commands after "prompt on"

ASSUME SizesAssumption ==
  /\ PromptLen \in Nat \ {0}
  /\ ChunkMax \in Nat \ {0}
  /\ InitFill \in Nat
  /\ CtorRx \in Nat \ {0}
  /\ MaxRx \in Nat \ {0}
  /\ MaxText \in Nat
  /\ MaxCmd \in Nat

ASSUME BufferFillAssumption == InitFill >= CtorRx

VARIABLES pc, buffer, nrx, replies, uut, toUut, toHost, answers

client == <<pc, buffer, nrx, replies>>
vars == <<pc, buffer, nrx, replies, uut, toUut, toHost, answers>>

-----------------------------------------------------------------------------
(* Bytes on the wire and in the buffer.                                     *)

Nul           == [kind |-> "nul", n |-> 0]
Newline       == [kind |-> "newline", n |-> 0]
TextByte(k)   == [kind |-> "text", n |-> k]
PromptByte(i) == [kind |-> "prompt", n |-> i]
Byte == [kind : {"nul", "newline", "text", "prompt"}, n : Nat]

Prompt == [i \in 1..PromptLen |-> PromptByte(i)]

\* What the UUT may answer to command k: text in lines, without a prompt.
Answers(k) == UNION {[1..n -> {TextByte(k), Newline}] : n \in 0..MaxText}

\* The command being sent, executed or answered, and its caller's max_rx.
Current == Len(replies)
RxLimit(k) == IF k = 0 THEN CtorRx ELSE MaxRx

-----------------------------------------------------------------------------
(* receive_message, piece by piece.                                         *)

\* std::regex_search(buf, cm, term_regex) on one chunk c, and cm.position().
PromptAt(c, i) == SubSeq(c, i + 1, i + PromptLen) = Prompt
HasPrompt_AfterText(c) == \E i \in 1..(Len(c) - PromptLen) : PromptAt(c, i)
HasPrompt(c) == \E i \in 0..(Len(c) - PromptLen) : PromptAt(c, i)
Position(c) ==
  CHOOSE i \in 0..(Len(c) - PromptLen) :
     /\ PromptAt(c, i)
     /\ \A j \in 0..(i - 1) : ~PromptAt(c, j)

\* nrx >= max_rx: the caller gets max_rx bytes.
Clamp_Missing(n, max) == n
Clamp(n, max) == IF n >= max THEN max ELSE n

\* while (buffer.data()[nrx-1] == '\n') --nrx.  At nrx = 0 the loop reads the
\* byte before the vector's storage: the top byte of the allocator's size
\* word, zero in this build, which ends the loop.
Stripped_None(b, n) == n
Stripped(b, n) ==
  CHOOSE m \in 0..n :
     /\ m = 0 \/ b[m] # Newline
     /\ \A j \in (m + 1)..n : b[j] = Newline

\* strncpy(rx_message, buffer.data(), n) read back as a C string.
CString(b, n) ==
  LET len == CHOOSE m \in 0..n :
                /\ \A i \in 1..m : b[i] # Nul
                /\ m = n \/ b[m + 1] = Nul
  IN SubSeq(b, 1, len)

\* buffer.clear()
Cleared_Not(b) == b
Cleared(b) == <<>>

-----------------------------------------------------------------------------
(* The client.                                                              *)

\* Netclient's constructor connects, or error() ends the process.
Connect ==
  /\ pc = "new"
  /\ pc' = IF uut = "up" THEN "ctor" ELSE "exit"
  /\ UNCHANGED <<buffer, nrx, replies, uut, toUut, toHost, answers>>

\* The count receive_message starts from.
StartCount_Zero == 0
StartCount == Len(buffer)

\* _sr sends one line and enters receive_message.  If the UUT is gone send
\* either fails, and error() ends the process, or hands the line to the
\* kernel, and the recv that follows fails.
Send ==
  /\ pc \in {"ctor", "idle"}
  /\ Current <= MaxCmd
  /\ IF uut = "up"
     THEN pc' = "recv" /\ toUut' = Append(toUut, Current)
     ELSE pc' \in {"recv", "exit"} /\ UNCHANGED toUut
  /\ nrx' = StartCount
  /\ UNCHANGED <<buffer, replies, uut, toHost, answers>>

\* recv hands over between one byte and ChunkMax bytes of what has arrived.
ChunkSizes == {n \in 1..Len(toHost) : n <= ChunkMax}

\* A chunk without a prompt is appended to the buffer.
RecvMore(n) ==
  LET c == SubSeq(toHost, 1, n)
  IN /\ pc = "recv"
     /\ ~HasPrompt(c)
     /\ buffer' = buffer \o c
     /\ nrx' = nrx + n
     /\ toHost' = SubSeq(toHost, n + 1, Len(toHost))
     /\ UNCHANGED <<pc, replies, uut, toUut, answers>>

\* A chunk with a prompt completes the reply.  The bytes of the chunk behind
\* the prompt are dropped.
RecvPrompt(n) ==
  LET c    == SubSeq(toHost, 1, n)
      pos  == Position(c)
      full == buffer \o SubSeq(c, 1, pos)
      rc   == Stripped(full, Clamp(nrx + pos, RxLimit(Current)))
  IN /\ pc = "recv"
     /\ HasPrompt(c)
     /\ replies' = Append(replies, [rc |-> rc, text |-> CString(full, rc)])
     /\ nrx' = rc
     /\ buffer' = Cleared(full)
     /\ toHost' = SubSeq(toHost, n + 1, Len(toHost))
     /\ pc' = "idle"
     /\ UNCHANGED <<uut, toUut, answers>>

Recv == \E n \in ChunkSizes : RecvMore(n) \/ RecvPrompt(n)

\* recv returns 0 or -1: error() ends the process.
RecvClosed_MinusOneOnly ==
  pc = "recv" /\ uut = "down" /\ toHost = <<>> /\ UNCHANGED vars
RecvClosed ==
  /\ pc = "recv"
  /\ uut = "down"
  /\ toHost = <<>>
  /\ pc' = "exit"
  /\ UNCHANGED <<buffer, nrx, replies, uut, toUut, toHost, answers>>

\* The caller has no more commands and its process ends.
Quit ==
  /\ pc = "idle"
  /\ pc' = "exit"
  /\ UNCHANGED <<buffer, nrx, replies, uut, toUut, toHost, answers>>

-----------------------------------------------------------------------------
(* The UUT's site service (external).                                       *)

\* It executes one line and sends the answer and a prompt.
Serve ==
  /\ uut = "up"
  /\ toUut # <<>>
  /\ \E a \in Answers(Head(toUut)) :
       /\ answers' = Append(answers, a)
       /\ toHost' = toHost \o (a \o Prompt)
  /\ toUut' = Tail(toUut)
  /\ UNCHANGED <<pc, buffer, nrx, replies, uut>>

\* It goes away (reboot, cable, service restart): what it had sent arrives in
\* part, what it had not executed is lost.
Down ==
  /\ uut = "up"
  /\ uut' = "down"
  /\ toUut' = <<>>
  /\ \E n \in 0..Len(toHost) : toHost' = SubSeq(toHost, 1, n)
  /\ UNCHANGED <<pc, buffer, nrx, replies, answers>>

-----------------------------------------------------------------------------

Init ==
  /\ pc = "new"
  /\ buffer = [i \in 1..InitFill |-> Nul]
  /\ nrx = 0
  /\ replies = <<>>
  /\ uut \in {"up", "down"}
  /\ toUut = <<>>
  /\ toHost = <<>>
  /\ answers = <<>>

Next ==
  \/ Connect
  \/ Send
  \/ Recv
  \/ RecvClosed
  \/ Quit
  \/ Serve
  \/ Down

Spec == Init /\ [][Next]_vars

\* The client's thread runs while it is in receive_message, and a UUT that
\* stays up executes what it is sent.  Nothing makes the caller send, and
\* nothing makes the UUT go down.
Fairness == WF_vars(Recv) /\ WF_vars(RecvClosed) /\ WF_vars(Serve)

FairSpec == Spec /\ Fairness
-----------------------------------------------------------------------------
(* Properties.                                                              *)

States == {"new", "ctor", "idle", "recv", "exit"}

\* Every variable has its type (the members of Netclient and Siteclient, and
\* what is in flight on the connection).  The count sr()
\* returns, where receive_message writes the terminating zero, is at most max_rx.
TypeOK ==
  /\ pc \in States
  /\ buffer \in Seq(Byte)
  /\ nrx \in Nat
  /\ replies \in Seq([rc : 0..CtorRx \union 0..MaxRx, text : Seq(Byte)])
  /\ uut \in {"up", "down"}
  /\ toUut \in Seq(Nat)
  /\ toHost \in Seq(Byte)
  /\ answers \in Seq(Seq(Byte))

\* The abstract channel this one implements; its commands are the caller's.
AllAnswers == UNION {Answers(k) : k \in 1..MaxCmd}

\* All but the constructor's "prompt on".
ServedToCaller == SubSeq(answers, 2, Len(answers))
ReturnedToCaller ==
  [k \in 1..(IF replies = <<>> THEN 0 ELSE Len(replies) - 1) |-> replies[k + 1].text]

Chan == INSTANCE CommandChannel
          WITH served <- ServedToCaller, returned <- ReturnedToCaller,
               open <- (pc # "exit"),
               Newline <- Newline, MaxRx <- MaxRx, AllAnswers <- AllAnswers

\* However the network cuts the stream, what sr() returns for the k-th command
\* is the answer the UUT gave to that command, cut to max_rx and without its
\* trailing newlines, and the returned count is its length.  The constructor's
\* "prompt on" is the exception: the zeros Netclient put in the buffer hide
\* its answer, and sr() returns CtorRx and an empty string.
RepliesOwn ==
  /\ Len(replies) <= Len(answers)
  /\ \A k \in 1..Len(replies) :
       IF k = 1
       THEN replies[k] = [rc |-> CtorRx, text |-> <<>>]
       ELSE /\ replies[k].rc = Len(replies[k].text)
            /\ Chan!IsReply(answers[k], replies[k].text)

\* When sr() has returned, nothing of its exchange is left: no byte in the
\* buffer, none on the way, no command the UUT has still to execute.  This is
\* what lets receive_message drop the bytes behind a prompt.
Lockstep ==
  pc = "idle" => buffer = <<>> /\ toHost = <<>> /\ toUut = <<>>

\* A Siteclient on its byte stream implements the command channel its callers
\* rely on: one command at a time, answered in order, each with its own answer.
ImplementsChannel == Chan!ChanSpec

\* A prompt came in two chunks, and its first part is in the buffer.
PromptSplit == \E i \in 1..Len(buffer) : buffer[i].kind = "prompt"

\* A caller inside sr() comes back with a reply, or its process ends because
\* the connection was lost, unless the UUT's prompt was cut by recv: that is
\* the only thing that can keep receive_message waiting for ever.
SrReturns == pc = "recv" ~> pc \in {"idle", "exit"} \/ PromptSplit

\* The same without the exception: what a caller of sr() counts on, and what
\* the interactive session of the README shows ("ready 0>", "64", "ready 1>").
SrAlwaysReturns == pc = "recv" ~> pc \in {"idle", "exit"}
=============================================================================
