----------------------------- MODULE LoadAwgSeg -----------------------------
(***************************************************************************)
(* acq400_load_awg_seg: the commands it gives a UUT, the segments it       *)
(* selects, and the SIGINT that ends the selecting; and                    *)
(* acq400_load_awg_oneshot, which gives some of the same commands for one  *)
(* file.                                                                   *)
(*                                                                         *)
(*   program    "seg" or "oneshot"                                         *)
(*   pc         the next thing main() does; "enter" and "poll" are before  *)
(*              and in the poll of stream_out, "pause" is usleep; "done",  *)
(*              "failed" (exit(1)), "aborted" (uncaught exception or       *)
(*              segmentation fault) and "killed" (by a signal) are ends    *)
(*   args       argv[2..], each a segment, with a file or without          *)
(*   noarm, switch_seg                                                     *)
(*              G_noarm and G_switch_seg: "no", "first", "last" or "iterate"*)
(*   ii         arguments that are left; they are taken from the last      *)
(*   segments   G_segments                                                 *)
(*   why        the failure that ended the program                         *)
(*   pos, iter  ii (from 1) and iter of iterate_segments                   *)
(*   quit       G_request_quit                                             *)
(*   sigs       SIGINTs so far                                             *)
(*   conn, skt  the connection to AWG_SEG_SEL in use, 1 or, for the final  *)
(*              'A', 2, and its descriptor: "none", "open" or "closed"     *)
(*   uut        what the UUT holds: trigger source, playloop_len_disable   *)
(*              ("old" before the first set) and awg_max_seg; and whether  *)
(*              it has refused a set (history)                             *)
(*   bufferlen  the UUT's answer to the get of that name ("none" before)   *)
(*   peer, wire, got                                                       *)
(*              per connection: the UUT's end ("up" or "lost"), selections *)
(*              on their way and selections the UUT has read               *)
(*                                                                         *)
(* A get or set is one step: module Siteclient shows that each gets its    *)
(* own answer.  It may lose the connection, which ends the process, before *)
(* the UUT executed the command or after.  data32 chooses between two      *)
(* copies of load_seg that do the same.                                    *)
(***************************************************************************)
EXTENDS Integers, Sequences

CONSTANTS
  Segs,        \* segment letters
  SegA,        \* the segment 'A'
  INITFILL,    \* selections before the first pause (4)
  Window,      \* bound: selections on the way
  MaxArgs,     \* bound: arguments
  MaxIter,     \* bound: selections in iterate_segments
  MaxSig       \* bound: SIGINTs

ASSUME SegmentsAssumption == SegA \in Segs
ASSUME BoundsAssumption ==
  /\ INITFILL \in Nat /\ MaxIter \in Nat /\ MaxSig \in Nat
  /\ Window \in Nat \ {0} /\ MaxArgs \in Nat \ {0}

VARIABLES pc, program, args, noarm, switch_seg, ii, segments, why, pos, iter, quit, sigs,
          conn, skt, uut, bufferlen, peer, wire, got

setup == <<program, args, noarm, switch_seg>>
load  == <<ii, segments, bufferlen>>
loop  == <<pos, iter, conn, skt>>
net   == <<peer, wire, got>>
sig   == <<quit, sigs>>
vars  == <<pc, why, uut, setup, load, loop, net, sig>>

Ended == {"done", "failed", "aborted", "killed"}

-----------------------------------------------------------------------------
(* Acq400::set and get.                                                     *)

\* What the UUT answers to a get of a number: the number, nothing, or a text.
Answers == {"number", "empty", "text"}

\* The return code of get(site, key, int&): RC_SUCCESS, which is 0, for a
\* number; the length of an empty answer is 0 too, and the value is not read.
GetInt(answer) == IF answer = "text" THEN -1 ELSE 0

Fail(reason) == pc' = "failed" /\ why' = reason

\* error() in _sr or receive_message.
Lost == Fail("connection")

Goto(p) == pc' = p /\ UNCHANGED why

\* A set whose answer is not looked at: the UUT may refuse it unseen.
Set(new, next) ==
  \/ uut' = new /\ (Goto(next) \/ Lost)
  \/ uut' = [uut EXCEPT !.refused = TRUE] /\ Goto(next)
  \/ UNCHANGED uut /\ Lost

-----------------------------------------------------------------------------
(* main() up to the arguments.                                              *)

\* What each call is followed by, in the two programs, up to the first file or
\* segment.
SegNext(p) ==
  CASE p = "start" -> "stash"      [] p = "stash" -> "notrigger" [] p = "notrigger" -> "data32"
    [] p = "data32" -> "dist"      [] p = "dist" -> "dist_s1"    [] p = "dist_s1" -> "disable"
    [] p = "disable" -> "max_seg"  [] p = "max_seg" -> "args"
OneshotNext(p) ==
  CASE p = "start" -> "data32" [] p = "data32" -> "dist" [] p = "dist" -> "dist_s1"
    [] p = "dist_s1" -> "load_seg"

\* if (G_noarm == 0) disable_fp_trigger, which is a get and a set
Skips_Armed(p) == ~noarm /\ p = "stash"
Skips(p) == noarm /\ p = "stash"

\* What comes after step p.
After(p) ==
  LET next == IF program = "seg" THEN SegNext(p) ELSE OneshotNext(p)
  IN IF Skips(next) THEN "data32" ELSE next

Start ==
  /\ pc = "start"
  /\ Goto(After("start")) \/ Lost
  /\ UNCHANGED <<uut, setup, load, loop, net, sig>>

\* disable_fp_trigger: an answer without a value is indexed out of range.
StashTrigger ==
  /\ pc = "stash"
  /\ \/ Goto(After("stash"))
     \/ pc' = "aborted" /\ UNCHANGED why
     \/ Lost
  /\ UNCHANGED <<uut, setup, load, loop, net, sig>>

DisableTrigger ==
  /\ pc = "notrigger"
  /\ Set([uut EXCEPT !.trigger = "NONE"], After("notrigger"))
  /\ UNCHANGED <<setup, load, loop, net, sig>>

GetData32 ==
  /\ pc = "data32"
  /\ \/ \E a \in Answers : IF GetInt(a) < 0 THEN Fail("data32") ELSE Goto(After("data32"))
     \/ Lost
  /\ UNCHANGED <<uut, setup, load, loop, net, sig>>

\* The one set whose answer is looked at: it must be empty.
SetDist ==
  /\ pc = "dist"
  /\ Goto(After("dist")) \/ Fail("AWG:DIST") \/ Lost
  /\ UNCHANGED <<uut, setup, load, loop, net, sig>>

\* get() never returns less than 0 for a string, and std::stoi throws if the
\* answer is not a number.
GetDistS1 ==
  /\ pc = "dist_s1"
  /\ \/ Goto(After("dist_s1"))
     \/ Fail("dist_s1")
     \/ pc' = "aborted" /\ UNCHANGED why
     \/ Lost
  /\ UNCHANGED <<uut, setup, load, loop, net, sig>>

DisablePlayloop ==
  /\ pc = "disable"
  /\ Set([uut EXCEPT !.playloop_len_disable = "1"], After("disable"))
  /\ UNCHANGED <<setup, load, loop, net, sig>>

\* set_max_seg(argv[argc-1])
SetMaxSeg ==
  LET last == args[Len(args)]
  IN /\ pc = "max_seg"
     /\ IF last.file THEN Set([uut EXCEPT !.max_seg = last.seg], After("max_seg"))
                     ELSE Goto(After("max_seg")) /\ UNCHANGED uut
     /\ UNCHANGED <<setup, load, loop, net, sig>>

-----------------------------------------------------------------------------
(* The loop over the arguments, the last one first.                         *)

\* ii == 2 && !G_noarm
Enables_First(i) == i = Len(args) /\ ~noarm
Enables(i) == i = 1 /\ ~noarm

NextArg ==
  /\ pc = "args" /\ ii > 0
  /\ IF Enables(ii)
     THEN Set([uut EXCEPT !.playloop_len_disable = "0"], "load_seg")
     ELSE Goto("load_seg") /\ UNCHANGED uut
  /\ UNCHANGED <<setup, load, loop, net, sig>>

\* G_segments.insert(G_segments.begin(), seg)
Inserted_Back(s) == Append(segments, s)
Inserted(s) == <<s>> \o segments

\* load_seg of a SEG: nothing is loaded.
SelectOnly ==
  /\ pc = "load_seg" /\ ~args[ii].file
  /\ segments' = Inserted(args[ii].seg)
  /\ ii' = ii - 1
  /\ Goto("args")
  /\ UNCHANGED <<uut, setup, bufferlen, loop, net, sig>>

\* load_seg of a SEG=FILE, and load_awg, start with match_buffer_len, which wants
\* get() to return more than 0.  It does for no answer, and what follows is never
\* run: what it would do is in module LoadAwg.
LoadFile ==
  /\ pc = "load_seg" /\ args[ii].file
  /\ \/ \E a \in Answers : GetInt(a) <= 0 /\ bufferlen' = a /\ Fail("bufferlen")
     \/ UNCHANGED bufferlen /\ Lost
  /\ UNCHANGED <<uut, setup, ii, segments, loop, net, sig>>

Switch ==
  /\ pc = "args" /\ ii = 0
  /\ Goto(IF switch_seg = "no" THEN "done" ELSE "select")
  /\ UNCHANGED <<uut, setup, load, loop, net, sig>>

-----------------------------------------------------------------------------
(* select_awg_seg and its three callers.                                    *)

Iterating == switch_seg = "iterate" /\ conn = 1

\* The segment of the next selection.
Selected ==
  IF conn = 2 THEN SegA
  ELSE CASE switch_seg = "first"   -> segments[1]
         [] switch_seg = "last"    -> segments[Len(segments)]
         [] switch_seg = "iterate" -> segments[pos]

\* for (...; !G_request_quit; ...)
LoopGoes_Forever == iter < MaxIter
LoopGoes == ~quit /\ iter < MaxIter

\* The descriptor is opened once, or error() ends the process.
Select ==
  /\ pc = "select"
  /\ Iterating => LoopGoes
  /\ \/ skt = "none" /\ skt' = "open" /\ Goto("enter")
     \/ skt = "none" /\ UNCHANGED skt /\ Lost
     \/ skt # "none" /\ UNCHANGED skt /\ Goto("enter")
  /\ UNCHANGED <<uut, setup, load, pos, iter, conn, net, sig>>

EnterPoll ==
  /\ pc = "enter"
  /\ Goto("poll")
  /\ UNCHANGED <<uut, setup, load, loop, net, sig>>

\* poll reports room, and the byte is written.  (A closed descriptor would be
\* reported at once for ever; NeverPollsClosed says that there is none here.)
Send ==
  /\ pc = "poll" /\ skt = "open" /\ peer[conn] = "up"
  /\ Len(wire[conn]) < Window
  /\ wire' = [wire EXCEPT ![conn] = Append(@, Selected)]
  /\ Goto("sent")
  /\ UNCHANGED <<uut, setup, load, loop, peer, got, sig>>

\* poll reports POLLERR or POLLHUP: stream_out returns -1 with its descriptor
\* open, unless the write before that raises SIGPIPE.
SendFails ==
  /\ pc = "poll" /\ skt = "open" /\ peer[conn] = "lost"
  /\ Goto("sent") \/ (pc' = "killed" /\ UNCHANGED why)
  /\ UNCHANGED <<uut, setup, load, loop, net, sig>>

\* Nothing looks at what stream_out returned.
AfterSelect ==
  /\ pc = "sent"
  /\ IF Iterating
     THEN /\ iter' = iter + 1
          /\ Goto(IF iter + 1 > INITFILL THEN "pause" ELSE "next")
     ELSE Goto(IF conn = 2 THEN "stop" ELSE "done") /\ UNCHANGED iter
  /\ UNCHANGED <<uut, setup, load, pos, conn, skt, net, sig>>

Pause ==
  /\ pc = "pause"
  /\ Goto("next")
  /\ UNCHANGED <<uut, setup, load, loop, net, sig>>

\* ii = (ii+1 >= imax? 0: ii+1)
Following_Late(p) == IF p > Len(segments) THEN 1 ELSE p + 1
Following(p) == IF p >= Len(segments) THEN 1 ELSE p + 1

NextSegment ==
  /\ pc = "next"
  /\ pos' = Following(pos)
  /\ Goto("select")
  /\ UNCHANGED <<uut, setup, load, iter, conn, skt, net, sig>>

\* The loop ends: close(skt), skt = 0, and a new connection for the final 'A'.
QuitLoop_KeepsSkt ==
  /\ pc = "select" /\ Iterating /\ quit
  /\ conn' = 2 /\ skt' = "closed"
  /\ UNCHANGED <<pc, why, uut, setup, load, pos, iter, net, sig>>
QuitLoop ==
  /\ pc = "select" /\ Iterating /\ quit
  /\ conn' = 2 /\ skt' = "none"
  /\ UNCHANGED <<pc, why, uut, setup, load, pos, iter, net, sig>>

StopAwg ==
  /\ pc = "stop"
  /\ Goto("done") \/ Lost
  /\ UNCHANGED <<uut, setup, load, loop, net, sig>>

-----------------------------------------------------------------------------
(* SIGINT, the network and the UUT (external).                              *)

\* iterate_segments has installed signalHandler.
Handled == switch_seg = "iterate" /\ pc \in {"select", "enter", "poll", "sent", "pause", "next", "stop"}

\* Without a handler the signal ends the process.  With it, it sets the flag;
\* a poll that is waiting returns -1, and stream_out closes its descriptor.
Sigint ==
  /\ pc \notin Ended
  /\ sigs < MaxSig
  /\ sigs' = sigs + 1
  /\ IF Handled
     THEN /\ quit' = TRUE
          /\ IF pc = "poll" THEN skt' = "closed" /\ pc' = "sent" ELSE UNCHANGED <<skt, pc>>
     ELSE pc' = "killed" /\ UNCHANGED <<skt, quit>>
  /\ UNCHANGED <<why, uut, setup, load, pos, iter, conn, net>>

\* The UUT reads a selection; it may take those of two connections in any order.
UutRead(c) ==
  /\ wire[c] # <<>>
  /\ got' = [got EXCEPT ![c] = Append(@, Head(wire[c]))]
  /\ wire' = [wire EXCEPT ![c] = Tail(@)]
  /\ UNCHANGED <<pc, why, uut, setup, load, loop, peer, sig>>

\* The connection in use is reset; what is on the way is lost.
Reset ==
  /\ skt = "open" /\ peer[conn] = "up" /\ pc \notin Ended
  /\ peer' = [peer EXCEPT ![conn] = "lost"]
  /\ wire' = [wire EXCEPT ![conn] = <<>>]
  /\ UNCHANGED <<pc, why, uut, setup, load, loop, got, sig>>

-----------------------------------------------------------------------------

Init ==
  /\ pc = "start" /\ why = ""
  /\ \/ /\ program = "seg"
        /\ \E n \in 1..MaxArgs : args \in [1..n -> [seg : Segs, file : BOOLEAN]]
        /\ noarm \in BOOLEAN
        /\ switch_seg \in {"no", "first", "last", "iterate"}
     \/ /\ program = "oneshot"
        /\ args = <<[seg |-> SegA, file |-> TRUE]>> /\ noarm = FALSE /\ switch_seg = "no"
  /\ ii = Len(args) /\ segments = <<>> /\ bufferlen = "none"
  /\ pos = 1 /\ iter = 0 /\ conn = 1 /\ skt = "none"
  /\ quit = FALSE /\ sigs = 0
  /\ uut = [trigger |-> "EXT", playloop_len_disable |-> "old", max_seg |-> SegA,
            refused |-> FALSE]
  /\ peer = [c \in {1, 2} |-> "up"]
  /\ wire = [c \in {1, 2} |-> <<>>]
  /\ got = [c \in {1, 2} |-> <<>>]

Host ==
  \/ Start \/ StashTrigger \/ DisableTrigger \/ GetData32 \/ SetDist \/ GetDistS1
  \/ DisablePlayloop \/ SetMaxSeg \/ NextArg \/ SelectOnly \/ LoadFile \/ Switch
  \/ Select \/ EnterPoll \/ Send \/ SendFails \/ AfterSelect \/ Pause \/ NextSegment
  \/ QuitLoop \/ StopAwg

Next == Host \/ Sigint \/ (\E c \in {1, 2} : UutRead(c)) \/ Reset

Spec == Init /\ [][Next]_vars

\* The program runs, and the UUT reads the selections it is sent.
FairSpec == Spec /\ WF_vars(Host) /\ WF_vars(UutRead(1)) /\ WF_vars(UutRead(2))

-----------------------------------------------------------------------------
(* Properties.                                                              *)

Steps == {"start", "stash", "notrigger", "data32", "dist", "dist_s1", "disable",
          "max_seg", "args", "load_seg", "select", "enter", "poll", "sent", "pause",
          "next", "stop"}

\* Every variable has its type; the loop never runs off the end of G_segments.
TypeOK ==
  /\ pc \in Steps \union Ended
  /\ args \in Seq([seg : Segs, file : BOOLEAN]) /\ args # <<>>
  /\ program \in {"seg", "oneshot"} /\ noarm \in BOOLEAN
  /\ switch_seg \in {"no", "first", "last", "iterate"}
  /\ ii \in 0..Len(args) /\ segments \in Seq(Segs)
  /\ bufferlen \in Answers \union {"none"}
  /\ why \in {"", "connection", "data32", "AWG:DIST", "dist_s1", "bufferlen"}
  /\ iter \in 0..MaxIter /\ quit \in BOOLEAN /\ sigs \in 0..MaxSig
  /\ pos = 1 \/ pos \in 1..Len(segments)
  /\ conn \in {1, 2} /\ skt \in {"none", "open", "closed"}
  /\ uut \in [trigger : {"EXT", "NONE"}, playloop_len_disable : {"old", "0", "1"},
              max_seg : Segs, refused : BOOLEAN]
  /\ peer \in [{1, 2} -> {"up", "lost"}]
  /\ wire \in [{1, 2} -> Seq(Segs)] /\ got \in [{1, 2} -> Seq(Segs)]
  /\ \A c \in {1, 2} : Len(wire[c]) <= Window

\* The selections a UUT is to see on the first connection: the arguments in the
\* order of the command line, again and again, or the first or last of them.
Expected(j) ==
  CASE switch_seg = "iterate" -> args[((j - 1) % Len(args)) + 1].seg
    [] switch_seg = "first"   -> args[1].seg
    [] switch_seg = "last"    -> args[Len(args)].seg

\* However signals and resets fall, the UUT reads the segments in the order of
\* the command line, none left out and none twice, and on the second connection
\* nothing but one 'A'.
SelectedInOrder ==
  /\ \A j \in 1..Len(got[1] \o wire[1]) : (got[1] \o wire[1])[j] = Expected(j)
  /\ \A j \in 1..Len(got[2] \o wire[2]) : j = 1 /\ (got[2] \o wire[2])[j] = SegA

\* stream_out leaves a closed descriptor in its caller's hands when a signal
\* interrupts poll.  iterate_segments never gives it back to stream_out: the
\* same signal has set the flag that ends its loop.
NeverPollsClosed == pc \in {"enter", "poll"} => skt # "closed"

\* "only the last load ENABLES the AWG" (acq400_load_awg_seg.cpp:278): playing
\* is enabled only once all arguments but the one to come have been dealt with,
\* by a program that was asked to arm.
EnabledLast ==
  uut.playloop_len_disable = "0" => ~noarm /\ Len(segments) >= Len(args) - 1

\* A program that ends half way, wherever that is, leaves a UUT that did what it
\* was told unable to play what is not loaded yet: without ACQ400_LAS_NOARM there
\* is no change to the play loop while the front panel can still trigger it.
FailsSafe ==
  ~noarm /\ ~uut.refused /\ uut.playloop_len_disable # "old" => uut.trigger = "NONE"

\* SIGINT in iterate_segments ends the program, by stop_awg or by a failure,
\* wherever in its loop the signal arrives.
QuitEnds == quit ~> pc \in Ended

\* "ERROR: failed to read bufferlen" says that the UUT gave no number, as
\* get() "returns RC_SUCCESS if it worked" (acq400_chapi.h:112).
BufferlenRead == why = "bufferlen" => bufferlen # "number"
=============================================================================
