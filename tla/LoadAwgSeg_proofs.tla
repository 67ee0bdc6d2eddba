------------------------- MODULE LoadAwgSeg_proofs -------------------------
(***************************************************************************)
(* What match_buffer_len and the choice of ports compute, and the safety   *)
(* of the two programs, from an invariant that says where in its loops     *)
(* each program is and what it has sent by then.                           *)
(***************************************************************************)
EXTENDS LoadAwg, LoadAwgSeg, SequenceTheorems, TLAPS

\* The quotient of two naturals.
LEMMA Quotient ==
  ASSUME NEW a \in Nat, NEW d \in Nat \ {0}
  PROVE  a \div d \in Nat /\ d * (a \div d) <= a /\ a < d * (a \div d) + d
  <1>1. a = d * (a \div d) + (a % d) /\ a % d \in 0..(d - 1) /\ a \div d \in Int
    OBVIOUS
  <1> QED BY <1>1

\* An int holds what is less than 2^31.
LEMMA NarrowedFits ==
  ASSUME NEW x \in Nat, x < TwoTo31
  PROVE  Narrowed(x) = x
  BY SMT DEF Narrowed, TwoTo31

\* The length that is set fits the UUT's buffers, and what is left of the file
\* when they are filled is less than a byte for each (acq400_load_awg_seg.cpp:
\* 62-86): for every size up to 12 GB and every bufferlen whose fourfold is an
\* int.
THEOREM PlayLengthFits ==
  ASSUME NEW size \in Nat, size < 6 * TwoTo31,
         NEW bl \in Nat, 4 * bl < TwoTo31,
         NEW seg_bufs \in Int, NEW bufs, NEW blp,
         SetsPlayLength(size, bl, seg_bufs, bufs, blp)
  PROVE  /\ bufs \in Nat \ {0} /\ blp \in 0..bl
         /\ bufs * blp <= size /\ size < bufs * blp + bufs
  <1>0. TwoTo31 \in Nat
    BY SMT DEF TwoTo31
  <1>1. CASE size < bl /\ bufs = 1 /\ blp = Narrowed(size)
    <2>1. blp = size
      BY <1>0, <1>1, NarrowedFits
    <2> QED BY <1>1, <2>1
  <1>2. CASE bl <= size /\ size <= 4 * bl /\ bufs = 4 /\ blp = Narrowed(size \div 4)
    <2>1. size \div 4 \in 0..bl /\ 4 * (size \div 4) <= size /\ size < 4 * (size \div 4) + 4
      BY <1>2
    <2>2. blp = size \div 4
      BY <1>0, <1>2, <2>1, NarrowedFits
    <2> QED BY <1>2, <2>1, <2>2
  <1>3. CASE \E nn \in 1..511 : /\ Taken(size, bl, seg_bufs, nn)
                                /\ bufs = AwgBufs(nn) /\ blp = Share(size, nn)
    <2>1. PICK nn \in 1..511 : /\ Taken(size, bl, seg_bufs, nn)
                               /\ bufs = AwgBufs(nn) /\ blp = Share(size, nn)
      BY <1>3
    <2>2. bufs \in Nat \ {0} /\ bufs >= 6
      BY <2>1 DEF AwgBufs
    <2>3. /\ size \div bufs \in Nat
          /\ bufs * (size \div bufs) <= size
          /\ size < bufs * (size \div bufs) + bufs
      BY <2>2, Quotient
    <2>4. size \div bufs < TwoTo31
      <3>1. 6 * (size \div bufs) <= bufs * (size \div bufs)
        BY <2>2, <2>3
      <3> QED BY <1>0, <2>2, <2>3, <3>1
    <2>5. blp = size \div bufs
      BY <2>1, <2>3, <2>4, NarrowedFits DEF Share
    <2>6. blp <= bl
      BY <2>1 DEF Taken
    <2> QED BY <2>2, <2>3, <2>5, <2>6
  <1> QED BY <1>1, <1>2, <1>3 DEF SetsPlayLength

\* Every segment has its own ports, one for each mode, apart from all others of
\* the AWG: no load goes to another segment (acq400_chapi.h:66-90).
THEOREM PortsApart ==
  ASSUME NEW m \in {"ARP", "CON"}, NEW n \in {"ARP", "CON"},
         NEW i \in 0..25, NEW j \in 0..25
  PROVE  /\ SegPort(m, i) = SegPort(n, j) => m = n /\ i = j
         /\ SegPort(m, i) \notin {AWG_STREAM, AWG_SEG_SEL}
         /\ \A mode \in {"ARP", "CON", "ONESHOT"} : SegPort(m, i) # AwgPort(mode)
  <1>1. SegPort(m, i) = (IF m = "ARP" THEN 54212 ELSE 54215) + 10 * i
    BY SMT DEF SegPort
  <1>2. SegPort(n, j) = (IF n = "ARP" THEN 54212 ELSE 54215) + 10 * j
    BY SMT DEF SegPort
  <1>3. SegPort(m, i) = SegPort(n, j) => m = n /\ i = j
    BY <1>1, <1>2, SMT
  <1> QED BY <1>1, <1>3, SMT DEF AWG_STREAM, AWG_SEG_SEL, AwgPort

-----------------------------------------------------------------------------
(* The inductive invariant of the two programs.                             *)

\* select_awg_seg and what calls it.
Loop == {"select", "enter", "poll", "sent", "pause", "next", "stop"}

\* Selections that are on their way or were read.
Sent(c) == got[c] \o wire[c]

\* A oneshot load has one file, and nothing to do with the play loop.
OneshotInv ==
  program = "oneshot" =>
    /\ \A i \in 1..Len(args) : args[i].file
    /\ pc \in {"start", "data32", "dist", "dist_s1", "load_seg"} \union Ended
    /\ uut.playloop_len_disable = "old"

\* G_segments are the arguments behind ii.
LoadInv ==
  /\ Len(segments) = Len(args) - ii
  /\ \A j \in 1..Len(segments) : segments[j] = args[ii + j].seg
  /\ pc = "load_seg" => ii > 0
  /\ pc \notin {"args", "load_seg"} \union Loop \union Ended => ii = Len(args)

\* The trigger is off from disable_fp_trigger on, not just once it matters.
TriggerInv ==
  /\ FailsSafe
  /\ program = "seg" /\ pc \notin {"start", "stash", "notrigger"} \union Ended /\ ~noarm
       /\ ~uut.refused => uut.trigger = "NONE"

PlaceInv ==
  /\ pc \in Loop => ii = 0 /\ switch_seg # "no"
  /\ pc \notin Loop \union Ended =>
       iter = 0 /\ pos = 1 /\ conn = 1 /\ skt = "none" /\ Sent(1) = <<>>
  /\ switch_seg # "iterate" => iter = 0

\* A closed descriptor is in iterate_segments, whose loop is about to end.
SocketInv ==
  /\ pc \in {"enter", "poll"} => skt # "closed"
  /\ skt = "closed" => quit /\ (pc = "select" => Iterating)
  /\ pc \in {"pause", "next"} => Iterating
  /\ conn = 2 => switch_seg = "iterate"
  /\ pc = "stop" => conn = 2

\* ii of iterate_segments follows the selections it made, round after round.
TurnInv ==
  Iterating =>
    /\ pc \in {"select", "enter", "poll", "sent"} =>
         pos \in 1..Len(args) /\ \E k \in Nat : iter = k * Len(args) + (pos - 1)
    /\ pc \in {"pause", "next"} =>
         pos \in 1..Len(args) /\ \E k \in Nat : iter = k * Len(args) + pos
    /\ pc \in {"enter", "poll", "sent"} => iter < MaxIter

\* On a connection that works each turn was one selection.
CountInv ==
  conn = 1 /\ peer[1] = "up" /\ skt # "closed" =>
    /\ pc \in {"select", "enter", "poll", "pause", "next"} => Len(Sent(1)) = iter
    /\ pc = "sent" => Len(Sent(1)) = iter + 1

StopInv == conn = 1 \/ pc \in {"select", "enter", "poll"} => Sent(2) = <<>>

IInv ==
  /\ TypeOK /\ OneshotInv /\ LoadInv /\ TriggerInv /\ PlaceInv
  /\ SocketInv /\ TurnInv /\ CountInv /\ StopInv /\ SelectedInOrder /\ EnabledLast

-----------------------------------------------------------------------------
(* Types.                                                                   *)

\* The type invariant, by kinds of variables.
Setup ==
  /\ args \in Seq([seg : Segs, file : BOOLEAN]) /\ args # <<>>
  /\ program \in {"seg", "oneshot"} /\ noarm \in BOOLEAN
  /\ switch_seg \in {"no", "first", "last", "iterate"}
Reasons == {"", "connection", "data32", "AWG:DIST", "dist_s1", "bufferlen"}
Places == pc \in Steps \union Ended /\ why \in Reasons
Device ==
  uut \in [trigger : {"EXT", "NONE"}, playloop_len_disable : {"old", "0", "1"},
           max_seg : Segs, refused : BOOLEAN]
Load == ii \in 0..Len(args) /\ segments \in Seq(Segs) /\ bufferlen \in Answers \union {"none"}
Turns ==
  /\ iter \in 0..MaxIter /\ quit \in BOOLEAN /\ sigs \in 0..MaxSig
  /\ pos = 1 \/ pos \in 1..Len(segments)
  /\ conn \in {1, 2} /\ skt \in {"none", "open", "closed"}
Wires ==
  /\ peer \in [{1, 2} -> {"up", "lost"}]
  /\ wire \in [{1, 2} -> Seq(Segs)] /\ got \in [{1, 2} -> Seq(Segs)]
  /\ \A c \in {1, 2} : Len(wire[c]) <= Window

\* The type invariant, kind by kind of variable.
LEMMA TypeByKind == TypeOK <=> Setup /\ Places /\ Device /\ Load /\ Turns /\ Wires
  BY Zenon DEF TypeOK, Setup, Reasons, Places, Device, Load, Turns, Wires

\* What comes after the calls before the segments.
LEMMA AfterIs ==
  /\ program = "seg" =>
       /\ After("start") = IF noarm THEN "data32" ELSE "stash"
       /\ After("stash") = "notrigger" /\ After("notrigger") = "data32"
       /\ After("disable") = "max_seg" /\ After("max_seg") = "args"
       /\ After("dist_s1") = "disable"
  /\ program # "seg" => After("start") = "data32" /\ After("dist_s1") = "load_seg"
  /\ After("data32") = "dist" /\ After("dist") = "dist_s1"
  BY DEF After, Skips, SegNext, OneshotNext

\* There is an argument, and each is a segment with a file or without.
LEMMA ArgsAre ==
  ASSUME TypeOK
  PROVE  /\ Len(args) \in Nat \ {0}
         /\ \A i \in 1..Len(args) : args[i] \in [seg : Segs, file : BOOLEAN]
         /\ \A i \in 1..Len(args) : args[i].seg \in Segs
  <1>1. args \in Seq([seg : Segs, file : BOOLEAN]) /\ args # <<>>
    BY Zenon DEF TypeOK
  <1>2. Len(args) \in Nat \ {0}
    BY <1>1, EmptySeq
  <1>3. \A i \in 1..Len(args) : args[i] \in [seg : Segs, file : BOOLEAN]
    BY <1>1, ElementOfSeq
  <1> QED BY <1>2, <1>3

\* The calls of main() before the first segment.
Before ==
  \/ Start \/ StashTrigger \/ DisableTrigger \/ GetData32 \/ SetDist \/ GetDistS1
  \/ DisablePlayloop \/ SetMaxSeg

\* Those calls change nothing but what the UUT holds.
LEMMA BeforeStep ==
  ASSUME IInv, Before
  PROVE  /\ UNCHANGED <<setup, load, loop, net, sig>>
         /\ pc \notin Loop \union Ended
         /\ pc' \notin Loop
         /\ Places' /\ Device'
  <1> USE DEF setup, load, loop, net, sig, Loop, Ended, Goto, Lost, Fail, Places, Device, Steps, Reasons
  <1>0. Places /\ Device
    BY Zenon, TypeByKind DEF IInv
  <1>1. CASE Start
    BY <1>0, <1>1, AfterIs DEF Start
  <1>2. CASE StashTrigger \/ GetData32 \/ SetDist \/ GetDistS1
    BY <1>0, <1>2, AfterIs, TypeByKind DEF StashTrigger, GetData32, SetDist, GetDistS1, IInv, OneshotInv, TypeOK
  <1>3. pc \in {"notrigger", "disable", "max_seg"} => program = "seg"
    BY DEF IInv, OneshotInv, TypeOK
  <1>4. CASE DisableTrigger
    BY <1>0, <1>3, <1>4, AfterIs DEF DisableTrigger, Set
  <1>5. CASE DisablePlayloop
    BY <1>0, <1>3, <1>5, AfterIs DEF DisablePlayloop, Set
  <1>6. CASE SetMaxSeg
    <2>1. args[Len(args)].seg \in Segs
      BY ArgsAre DEF IInv
    <2> QED BY <1>0, <1>3, <1>6, <2>1, AfterIs DEF SetMaxSeg, Set
  <1> QED BY <1>1, <1>2, <1>4, <1>5, <1>6 DEF Before


\* A selection that is written comes after those that were sent.
LEMMA Written ==
  ASSUME NEW S, NEW g \in Seq(S), NEW w \in Seq(S), NEW x \in S
  PROVE  /\ Append(w, x) \in Seq(S) /\ Len(Append(w, x)) = Len(w) + 1
         /\ g \o Append(w, x) = Append(g \o w, x)
         /\ g \o w \in Seq(S)
  <1>1. Append(w, x) = w \o <<x>> /\ Append(w, x) \in Seq(S) /\ Len(Append(w, x)) = Len(w) + 1
    BY AppendIsConcat, AppendProperties
  <1>2. g \o w \in Seq(S)
    BY ConcatProperties
  <1>3. Append(g \o w, x) = (g \o w) \o <<x>>
    BY <1>2, AppendIsConcat
  <1>4. <<x>> \in Seq(S)
    OBVIOUS
  <1>5. (g \o w) \o <<x>> = g \o (w \o <<x>>)
    BY <1>4, ConcatAssociative
  <1> QED BY <1>1, <1>2, <1>3, <1>5

\* One that is read stays where it is among them.
LEMMA Read ==
  ASSUME NEW S, NEW g \in Seq(S), NEW w \in Seq(S), w # <<>>
  PROVE  /\ Tail(w) \in Seq(S) /\ Len(Tail(w)) = Len(w) - 1
         /\ Append(g, Head(w)) \in Seq(S)
         /\ Append(g, Head(w)) \o Tail(w) = g \o w
  <1>1. Head(w) \in S /\ Tail(w) \in Seq(S) /\ Len(Tail(w)) = Len(w) - 1
    BY HeadTailProperties
  <1>2. Append(g, Head(w)) = g \o <<Head(w)>> /\ Append(g, Head(w)) \in Seq(S)
    BY <1>1, AppendIsConcat, AppendProperties
  <1>3. <<Head(w)>> \in Seq(S)
    BY <1>1
  <1>4. <<Head(w)>> \o Tail(w) = w
    BY <1>1, <1>3
  <1>5. (g \o <<Head(w)>>) \o Tail(w) = g \o (<<Head(w)>> \o Tail(w))
    BY <1>1, <1>3, ConcatAssociative
  <1> QED BY <1>1, <1>2, <1>4, <1>5

\* In the loop all arguments are segments to select from.
LEMMA AllSegments ==
  ASSUME IInv, pc \in Loop
  PROVE  /\ Len(segments) = Len(args)
         /\ \A j \in 1..Len(args) : segments[j] = args[j].seg
  <1>1. ii = 0
    BY DEF IInv, PlaceInv
  <1>2. Len(args) \in Nat
    BY ArgsAre DEF IInv
  <1> QED BY <1>1, <1>2 DEF IInv, LoadInv

\* The place in a round is where the selections so far leave it.
LEMMA PlaceInRound ==
  ASSUME NEW d \in Nat \ {0}, NEW k \in Nat, NEW r \in 0..(d - 1)
  PROVE  (k * d + r) % d = r
  <1> DEFINE a == k * d + r
  <1>0. k * d \in Nat
    OBVIOUS
  <1>1. a \in Nat
    BY <1>0
  <1>2. a = d * (a \div d) + (a % d) /\ a % d \in 0..(d - 1) /\ a \div d \in Int
    BY <1>1
  <1>3. CASE a \div d = k
    <2>1. d * k = k * d
      OBVIOUS
    <2> QED BY <1>0, <1>2, <1>3, <2>1
  <1>4. CASE a \div d > k
    <2>1. a \div d >= k + 1
      BY <1>2, <1>4
    <2>2. d * (a \div d) >= d * (k + 1)
      BY <1>2, <2>1
    <2>3. d * (k + 1) = k * d + d
      OBVIOUS
    <2> QED BY <1>0, <1>2, <2>2, <2>3
  <1>5. CASE a \div d < k
    <2>1. a \div d + 1 <= k
      BY <1>2, <1>5
    <2>2. d * (a \div d + 1) <= d * k
      BY <1>2, <2>1
    <2>3. d * (a \div d + 1) = d * (a \div d) + d /\ d * k = k * d
      BY <1>2
    <2> QED BY <1>0, <1>2, <2>2, <2>3
  <1> QED BY <1>2, <1>3, <1>4, <1>5

\* What select_awg_seg is called with is what is to be read next.
LEMMA SelectedIs ==
  ASSUME IInv, pc = "poll"
  PROVE  /\ Selected \in Segs
         /\ conn = 2 => Selected = SegA
         /\ conn = 1 /\ switch_seg # "iterate" => \A j : Selected = Expected(j)
         /\ conn = 1 /\ switch_seg = "iterate" => Selected = Expected(iter + 1)
  <1>1. /\ Len(segments) = Len(args)
        /\ \A j \in 1..Len(args) : segments[j] = args[j].seg
    BY AllSegments DEF Loop
  <1>2. /\ Len(args) \in Nat \ {0}
        /\ \A i \in 1..Len(args) : args[i].seg \in Segs
    BY ArgsAre DEF IInv
  <1>3. switch_seg \in {"first", "last", "iterate"} /\ conn \in {1, 2}
    BY DEF IInv, PlaceInv, Loop, TypeOK
  <1>4. CASE conn = 2
    BY <1>4, SegmentsAssumption DEF Selected
  <1>5. CASE conn = 1 /\ switch_seg # "iterate"
    BY <1>1, <1>2, <1>3, <1>5 DEF Selected, Expected
  <1>6. CASE conn = 1 /\ switch_seg = "iterate"
    <2>1. PICK k \in Nat : pos \in 1..Len(args) /\ iter = k * Len(args) + (pos - 1)
      BY <1>6 DEF IInv, TurnInv, Iterating
    <2>2. (k * Len(args) + (pos - 1)) % Len(args) = pos - 1
      <3>1. PICK d \in Nat \ {0}, r \in 0..(Len(args) - 1) : d = Len(args) /\ r = pos - 1
        BY <1>2, <2>1
      <3>2. (k * d + r) % d = r
        BY <3>1, PlaceInRound
      <3> QED BY <3>1, <3>2
    <2>3. iter \in Nat
      BY <2>1, <1>2
    <2>4. ((iter + 1) - 1) % Len(args) = pos - 1
      BY <2>1, <2>2, <2>3
    <2>5. Expected(iter + 1) = args[pos].seg
      <3>1. Expected(iter + 1) = args[(((iter + 1) - 1) % Len(args)) + 1].seg
        BY <1>6 DEF Expected
      <3>2. pos \in Int /\ (pos - 1) + 1 = pos
        BY <1>2, <2>1
      <3> QED BY <2>4, <3>1, <3>2
    <2>6. Selected = segments[pos]
      BY <1>6 DEF Selected
    <2> QED BY <1>1, <1>2, <1>6, <2>1, <2>5, <2>6
  <1> QED BY <1>3, <1>4, <1>5, <1>6


\* What a step leaves alone keeps its type.
LEMMA Unchanged ==
  /\ Setup /\ UNCHANGED setup => Setup'
  /\ Places /\ UNCHANGED <<pc, why>> => Places'
  /\ Device /\ UNCHANGED uut => Device'
  /\ Setup /\ Load /\ UNCHANGED <<setup, load>> => Load'
  /\ Turns /\ UNCHANGED <<segments, loop, sig>> => Turns'
  /\ Wires /\ UNCHANGED net => Wires'
  <1> USE DEF setup, load, loop, net, sig
  <1>1. Setup /\ UNCHANGED setup => Setup'
    BY DEF Setup
  <1>2. Places /\ UNCHANGED <<pc, why>> => Places'
    BY DEF Places
  <1>3. Device /\ UNCHANGED uut => Device'
    BY DEF Device
  <1>4. Setup /\ Load /\ UNCHANGED <<setup, load>> => Load'
    BY DEF Load, Setup
  <1>5. Turns /\ UNCHANGED <<segments, loop, sig>> => Turns'
    BY DEF Turns
  <1>6. Wires /\ UNCHANGED net => Wires'
    BY DEF Wires
  <1> QED BY <1>1, <1>2, <1>3, <1>4, <1>5, <1>6

\* Every step keeps the types.
LEMMA TypeStep ==
  ASSUME IInv, Next
  PROVE  Setup' /\ Places' /\ Device' /\ Load' /\ Turns' /\ Wires'
  <1>1. Setup /\ Places /\ Device /\ Load /\ Turns /\ Wires
    BY Zenon, TypeByKind DEF IInv
  <1> USE DEF setup, load, loop, net, sig, Goto, Lost, Fail
  <1>2. CASE Before
    BY <1>1, <1>2, BeforeStep, Unchanged
  <1>3. CASE NextArg
    <2>1. Places' /\ Device'
      BY <1>1, <1>3 DEF NextArg, Set, Device, Places, Steps, Ended, Reasons
    <2>2. UNCHANGED <<setup, load, loop, net, sig>>
      BY <1>3 DEF NextArg
    <2> QED BY <1>1, <2>1, <2>2, Unchanged
  <1>4. CASE SelectOnly
    <2>2. /\ segments \in Seq(Segs) /\ ii \in 0..Len(args) /\ bufferlen \in Answers \union {"none"}
          /\ Len(args) \in Nat
          /\ \A i \in 1..Len(args) : args[i].seg \in Segs
      BY Zenon, ArgsAre DEF IInv, TypeOK
    <2>0. ii > 0 /\ pos = 1
      BY <1>4 DEF SelectOnly, IInv, LoadInv, PlaceInv, Loop, Ended
    <2>1. ii \in 1..Len(args) /\ args[ii].seg \in Segs
      BY <2>0, <2>2
    <2>3. <<args[ii].seg>> \o segments \in Seq(Segs)
      BY <2>1, <2>2
    <2>6. Load'
      BY <1>4, <2>1, <2>2, <2>3 DEF SelectOnly, Inserted, Load
    <2>7. Places'
      BY <1>1, <1>4 DEF SelectOnly, Places, Steps
    <2>4. Turns'
      BY <1>1, <1>4, <2>0 DEF SelectOnly, Turns
    <2>5. UNCHANGED <<uut, setup, net>>
      BY <1>4 DEF SelectOnly
    <2> QED BY <1>1, <2>4, <2>5, <2>6, <2>7, Unchanged
  <1>5. CASE LoadFile
    <2>1. Load' /\ Places'
      BY <1>1, <1>5 DEF LoadFile, Load, Places, Ended, Reasons
    <2>2. UNCHANGED <<uut, setup, segments, loop, net, sig>>
      BY <1>5 DEF LoadFile
    <2> QED BY <1>1, <2>1, <2>2, Unchanged
  <1>6. CASE Switch \/ EnterPoll \/ SendFails \/ Pause \/ StopAwg
    <2>1. Places'
      BY <1>1, <1>6 DEF Switch, EnterPoll, SendFails, Pause, StopAwg, Places, Steps, Ended, Reasons
    <2>2. UNCHANGED <<uut, setup, load, loop, net, sig>>
      BY <1>6 DEF Switch, EnterPoll, SendFails, Pause, StopAwg
    <2> QED BY <1>1, <2>1, <2>2, Unchanged
  <1>7. CASE Select
    <2>1. Places' /\ Turns'
      BY <1>1, <1>7 DEF Select, Places, Steps, Ended, Reasons, Turns
    <2>2. UNCHANGED <<uut, setup, load, net>>
      BY <1>7 DEF Select
    <2> QED BY <1>1, <2>1, <2>2, Unchanged
  <1>8. CASE Send
    <2>1. Selected \in Segs
      BY <1>8, SelectedIs DEF Send
    <2>2. /\ Append(wire[conn], Selected) \in Seq(Segs)
          /\ Len(Append(wire[conn], Selected)) <= Window
      BY <1>1, <1>8, <2>1, BoundsAssumption DEF Send, Wires, Turns
    <2>3. Wires'
      BY <1>1, <1>8, <2>2 DEF Send, Wires
    <2>4. Places'
      BY <1>1, <1>8 DEF Send, Places, Steps
    <2>5. UNCHANGED <<uut, setup, load, loop, sig>>
      BY <1>8 DEF Send
    <2> QED BY <1>1, <2>3, <2>4, <2>5, Unchanged
  <1>9. CASE AfterSelect
    <2>1. iter' \in 0..MaxIter
      BY <1>1, <1>9, BoundsAssumption DEF AfterSelect, Turns, IInv, TurnInv
    <2>2. Places' /\ Turns'
      BY <1>1, <1>9, <2>1 DEF AfterSelect, Places, Steps, Ended, Turns
    <2>3. UNCHANGED <<uut, setup, load, net>>
      BY <1>9 DEF AfterSelect
    <2> QED BY <1>1, <2>2, <2>3, Unchanged
  <1>10. CASE NextSegment
    <2>1. Len(segments) \in Nat
      <3>1. segments \in Seq(Segs)
        BY <1>1, Zenon DEF Load
      <3> QED BY <3>1
    <2>2. pos' = 1 \/ pos' \in 1..Len(segments)
      BY <1>1, <1>10, <2>1 DEF NextSegment, Following, Turns
    <2>3. Places' /\ Turns'
      BY <1>1, <1>10, <2>2 DEF NextSegment, Places, Steps, Turns
    <2>4. UNCHANGED <<uut, setup, load, net>>
      BY <1>10 DEF NextSegment
    <2> QED BY <1>1, <2>3, <2>4, Unchanged
  <1>11. CASE QuitLoop
    <2>1. Turns'
      BY <1>1, <1>11 DEF QuitLoop, Turns
    <2>2. UNCHANGED <<pc, why, uut, setup, load, net>>
      BY <1>11 DEF QuitLoop
    <2> QED BY <1>1, <2>1, <2>2, Unchanged
  <1>12. CASE Sigint
    <2>1. Places'
      BY <1>1, <1>12 DEF Sigint, Places, Steps, Ended
    <2>3. Turns'
      <3>1. sigs' \in 0..MaxSig
        BY <1>1, <1>12, BoundsAssumption DEF Sigint, Turns
      <3>2. quit' \in BOOLEAN /\ skt' \in {"none", "open", "closed"}
        BY <1>1, <1>12 DEF Sigint, Turns
      <3>3. UNCHANGED <<pos, iter, conn, segments>>
        BY <1>12 DEF Sigint
      <3> QED BY <1>1, <3>1, <3>2, <3>3 DEF Turns
    <2>2. UNCHANGED <<uut, setup, load, net>>
      BY <1>12 DEF Sigint
    <2> QED BY <1>1, <2>1, <2>2, <2>3, Unchanged
  <1>13. ASSUME NEW c \in {1, 2}, UutRead(c)
         PROVE  Setup' /\ Places' /\ Device' /\ Load' /\ Turns' /\ Wires'
    <2>1. /\ got[c] \in Seq(Segs) /\ wire[c] \in Seq(Segs) /\ wire[c] # <<>>
          /\ Len(wire[c]) <= Window
      BY <1>1, <1>13 DEF UutRead, Wires
    <2>2. /\ Append(got[c], Head(wire[c])) \in Seq(Segs)
          /\ Tail(wire[c]) \in Seq(Segs) /\ Len(Tail(wire[c])) <= Window
      BY <2>1, Read, BoundsAssumption
    <2>3. Wires'
      BY <1>1, <1>13, <2>2 DEF UutRead, Wires
    <2>4. UNCHANGED <<pc, why, uut, setup, load, loop, sig>>
      BY <1>13 DEF UutRead
    <2> QED BY <1>1, <2>3, <2>4, Unchanged
  <1>14. CASE Reset
    <2>1. conn \in {1, 2} /\ <<>> \in Seq(Segs) /\ Len(<<>>) <= Window
      BY <1>1, BoundsAssumption DEF Turns
    <2>2. Wires'
      BY <1>1, <1>14, <2>1 DEF Reset, Wires
    <2>3. UNCHANGED <<pc, why, uut, setup, load, loop, sig>>
      BY <1>14 DEF Reset
    <2> QED BY <1>1, <2>2, <2>3, Unchanged
  <1> HIDE DEF setup, load, loop, net, sig, Goto, Lost, Fail
  <1> QED
    BY <1>2, <1>3, <1>4, <1>5, <1>6, <1>7, <1>8, <1>9, <1>10, <1>11, <1>12, <1>13, <1>14, Zenon
    DEF Next, Host, Before

-----------------------------------------------------------------------------
(* Every step keeps the invariant, part by part.                            *)

\* Nothing changes what was asked for.
LEMMA SetupKept ==
  ASSUME Next
  PROVE  UNCHANGED setup
  <1> USE DEF setup, load, loop, net, sig
  <1>1. CASE Host
    BY <1>1 DEF Host, Start, StashTrigger, DisableTrigger, GetData32, SetDist, GetDistS1,
       DisablePlayloop, SetMaxSeg, NextArg, SelectOnly, LoadFile, Switch, Select, EnterPoll, Send,
       SendFails, AfterSelect, Pause, NextSegment, QuitLoop, StopAwg
  <1>2. CASE ~Host
    BY <1>2 DEF Next, Sigint, UutRead, Reset
  <1> QED BY <1>1, <1>2

\* A oneshot load stays out of the segment program.
LEMMA OneshotStep ==
  ASSUME IInv, Next
  PROVE  OneshotInv'
  <1> USE DEF setup, load, loop, net, sig, Ended, Goto, Fail, Lost
  <1>1. UNCHANGED <<program, args>>
    BY SetupKept
  <1>2. SUFFICES ASSUME program = "oneshot"
                 PROVE  OneshotInv'
    BY <1>1 DEF OneshotInv
  <1>3. OneshotInv /\ Load /\ LoadInv /\ Device
    BY Zenon, TypeByKind DEF IInv
  <1>4. CASE Before
    <2>1. CASE Start \/ GetData32 \/ SetDist \/ GetDistS1
      BY <1>1, <1>2, <1>3, <2>1, AfterIs DEF Start, GetData32, SetDist, GetDistS1, OneshotInv
    <2>2. CASE StashTrigger \/ DisableTrigger \/ DisablePlayloop \/ SetMaxSeg
      BY <1>2, <1>3, <2>2
         DEF StashTrigger, DisableTrigger, DisablePlayloop, SetMaxSeg, OneshotInv
    <2> QED BY <1>4, <2>1, <2>2 DEF Before
  <1>5. CASE NextArg \/ SelectOnly \/ LoadFile \/ Switch
    <2>1. pc = "load_seg" => ii \in 1..Len(args)
      BY <1>3, ArgsAre DEF IInv, Load, LoadInv
    <2> QED BY <1>1, <1>2, <1>3, <1>5, <2>1
       DEF NextArg, SelectOnly, LoadFile, Switch, OneshotInv
  <1>6. CASE \/ Select \/ EnterPoll \/ Send \/ SendFails \/ AfterSelect \/ Pause \/ NextSegment
             \/ QuitLoop \/ StopAwg
    BY <1>2, <1>3, <1>6 DEF Select, EnterPoll, Send, SendFails, AfterSelect, Pause,
       NextSegment, QuitLoop, StopAwg, OneshotInv
  <1>7. CASE Sigint
    <2>1. UNCHANGED uut /\ (pc' = "killed" \/ pc' = pc \/ pc = "poll")
      BY <1>7 DEF Sigint
    <2> QED BY <1>1, <1>2, <1>3, <2>1 DEF OneshotInv
  <1>8. CASE (\E c \in {1, 2} : UutRead(c)) \/ Reset
    <2>1. UNCHANGED <<uut, pc>>
      BY <1>8 DEF UutRead, Reset
    <2> QED BY <1>1, <1>2, <1>3, <2>1 DEF OneshotInv
  <1> QED BY <1>4, <1>5, <1>6, <1>7, <1>8 DEF Next, Host, Before

\* load_seg puts the segment it takes in front of those behind it.
LEMMA LoadStep ==
  ASSUME IInv, Next
  PROVE  LoadInv'
  <1> USE DEF setup, load, loop, net, sig, Ended, Goto, Fail, Lost, Loop
  <1>1. UNCHANGED args
    BY SetupKept
  <1>2. /\ LoadInv /\ OneshotInv
        /\ segments \in Seq(Segs) /\ Len(args) \in Nat \ {0} /\ ii \in 0..Len(args)
    BY Zenon, ArgsAre DEF IInv, TypeOK
  <1>3. CASE Before
    <2>1. UNCHANGED <<args, load>> /\ pc \notin {"args", "load_seg"} \union Loop \union Ended
      BY <1>3, BeforeStep DEF Before, Start, StashTrigger, DisableTrigger, GetData32, SetDist, GetDistS1,
       DisablePlayloop, SetMaxSeg
    <2> QED BY <1>2, <2>1 DEF LoadInv
  <1>4. CASE NextArg
    <2>1. UNCHANGED <<args, load>> /\ ii > 0 /\ pc' \in {"load_seg", "failed"}
      BY <1>4 DEF NextArg, Set
    <2> QED BY <1>2, <2>1 DEF LoadInv
  <1>5. CASE SelectOnly
    <2>1. ii \in 1..Len(args) /\ args[ii].seg \in Segs
      BY <1>2, <1>5, ArgsAre DEF SelectOnly, LoadInv, IInv
    <2>2. /\ Len(<<args[ii].seg>> \o segments) = Len(segments) + 1
          /\ (<<args[ii].seg>> \o segments)[1] = args[ii].seg
          /\ \A j \in 2..(Len(segments) + 1) :
               (<<args[ii].seg>> \o segments)[j] = segments[j - 1]
      BY <1>2, <2>1
    <2>3. /\ Len(segments') = Len(args) - ii'
          /\ \A j \in 1..Len(segments') : segments'[j] = args[ii' + j].seg
      BY <1>2, <1>5, <2>1, <2>2 DEF SelectOnly, Inserted, LoadInv
    <2>4. pc' = "args"
      BY <1>5 DEF SelectOnly
    <2> QED BY <1>1, <2>3, <2>4 DEF LoadInv
  <1>6. CASE LoadFile
    <2>1. UNCHANGED <<args, ii, segments>> /\ pc' = "failed"
      BY <1>6 DEF LoadFile
    <2> QED BY <1>2, <2>1 DEF LoadInv
  <1>7. CASE Switch \/ Select \/ EnterPoll \/ Send \/ SendFails \/ AfterSelect \/ Pause \/ NextSegment
             \/ QuitLoop \/ StopAwg
    <2>1. UNCHANGED <<args, load>> /\ pc' \in Loop \union Ended
      BY <1>7 DEF Switch, Select, EnterPoll, Send, SendFails, AfterSelect, Pause, NextSegment,
         QuitLoop, StopAwg
    <2> QED BY <1>2, <2>1 DEF LoadInv
  <1>8. CASE Sigint \/ (\E c \in {1, 2} : UutRead(c)) \/ Reset
    <2>1. UNCHANGED <<args, load>> /\ (UNCHANGED pc \/ pc' \in Loop \union Ended)
      BY <1>8 DEF Sigint, UutRead, Reset
    <2> QED BY <1>2, <2>1 DEF LoadInv
  <1> QED BY <1>3, <1>4, <1>5, <1>6, <1>7, <1>8 DEF Next, Host, Before

\* Before disable_fp_trigger the play loop is not touched, after it the trigger is off.
LEMMA TriggerStep ==
  ASSUME IInv, Next
  PROVE  TriggerInv'
  <1> USE DEF setup, load, loop, net, sig, Ended, Goto, Fail, Lost
  <1>1. UNCHANGED <<program, noarm>>
    BY SetupKept
  <1>2. TriggerInv /\ OneshotInv /\ Device /\ program \in {"seg", "oneshot"} /\ noarm \in BOOLEAN
    BY Zenon, TypeByKind DEF IInv, TypeOK
  <1>3. CASE Start \/ StashTrigger
    <2>1. UNCHANGED uut /\ pc \in {"start", "stash"}
          /\ (program = "oneshot" \/ noarm \/ pc' \in {"stash", "notrigger"} \union Ended)
      BY <1>2, <1>3, AfterIs DEF Start, StashTrigger
    <2> QED BY <1>1, <1>2, <2>1 DEF TriggerInv, FailsSafe
  <1>4. CASE DisableTrigger
    BY <1>1, <1>2, <1>4 DEF DisableTrigger, Set, TriggerInv, FailsSafe, Device
  <1>5. CASE DisablePlayloop \/ SetMaxSeg \/ NextArg
    <2>1. /\ pc \in {"disable", "max_seg", "args"} /\ program = "seg"
          /\ uut'.trigger = uut.trigger /\ (uut.refused => uut'.refused)
      BY <1>2, <1>5 DEF DisablePlayloop, SetMaxSeg, NextArg, Set, Device, OneshotInv
    <2> QED BY <1>1, <1>2, <2>1 DEF TriggerInv, FailsSafe
  <1>6. CASE \/ GetData32 \/ SetDist \/ GetDistS1 \/ SelectOnly \/ LoadFile \/ Switch
             \/ Select \/ EnterPoll \/ Send \/ SendFails \/ AfterSelect \/ Pause \/ NextSegment
             \/ QuitLoop \/ StopAwg
    <2>1. UNCHANGED uut /\ pc \notin {"start", "stash", "notrigger"} \union Ended
      BY <1>6 DEF GetData32, SetDist, GetDistS1, SelectOnly, LoadFile, Switch, Select, EnterPoll,
         Send, SendFails, AfterSelect, Pause, NextSegment, QuitLoop, StopAwg
    <2> QED BY <1>1, <1>2, <2>1 DEF TriggerInv, FailsSafe
  <1>7. CASE Sigint \/ (\E c \in {1, 2} : UutRead(c)) \/ Reset
    <2>1. UNCHANGED uut /\ (UNCHANGED pc \/ pc' \in Ended \/ pc = "poll")
      BY <1>7 DEF Sigint, UutRead, Reset
    <2> QED BY <1>1, <1>2, <2>1 DEF TriggerInv, FailsSafe
  <1> QED BY <1>3, <1>4, <1>5, <1>6, <1>7 DEF Next, Host

\* Playing is enabled with one argument left, and arguments only get fewer.
LEMMA EnabledStep ==
  ASSUME IInv, Next
  PROVE  EnabledLast'
  <1> USE DEF setup, load, loop, net, sig, Ended, Goto, Fail, Lost
  <1>1. UNCHANGED <<noarm, args>>
    BY SetupKept
  <1>2. /\ EnabledLast /\ LoadInv /\ Device
        /\ segments \in Seq(Segs) /\ Len(args) \in Nat \ {0} /\ ii \in 0..Len(args)
    BY Zenon, ArgsAre, TypeByKind DEF IInv, TypeOK
  <1>3. CASE NextArg
    <2>1. CASE Enables(ii)
      BY <1>1, <1>2, <1>3, <2>1 DEF NextArg, Set, EnabledLast, LoadInv, Enables
    <2>2. CASE ~Enables(ii)
      BY <1>1, <1>2, <1>3, <2>2 DEF NextArg, EnabledLast
    <2> QED BY <2>1, <2>2
  <1>4. CASE DisableTrigger \/ DisablePlayloop \/ SetMaxSeg
    <2>1. /\ UNCHANGED segments
          /\ uut'.playloop_len_disable = "0" => uut.playloop_len_disable = "0"
      BY <1>2, <1>4 DEF DisableTrigger, DisablePlayloop, SetMaxSeg, Set, Device
    <2> QED BY <1>1, <1>2, <2>1 DEF EnabledLast
  <1>5. CASE SelectOnly
    <2>1. UNCHANGED uut /\ ii' = ii - 1
      BY <1>5 DEF SelectOnly
    <2>2. Len(segments') = Len(segments) + 1
      BY <1>2, <1>5, LoadStep DEF SelectOnly, LoadInv, IInv
    <2> QED BY <1>1, <1>2, <2>1, <2>2 DEF EnabledLast
  <1>6. CASE ~(NextArg \/ DisableTrigger \/ DisablePlayloop \/ SetMaxSeg \/ SelectOnly)
    <2>1. UNCHANGED <<uut, segments>>
      <3>1. CASE Host
        BY <1>6, <3>1 DEF Host, Start, StashTrigger, GetData32, SetDist, GetDistS1, LoadFile, Switch,
           Select, EnterPoll, Send, SendFails, AfterSelect, Pause, NextSegment, QuitLoop, StopAwg
      <3>2. CASE ~Host
        BY <3>2 DEF Next, Sigint, UutRead, Reset
      <3> QED BY <3>1, <3>2
    <2> QED BY <1>1, <1>2, <2>1 DEF EnabledLast
  <1> QED BY <1>3, <1>4, <1>5, <1>6

\* What the UUT reads was sent, and reading moves nothing.
LEMMA SentByRead ==
  ASSUME TypeOK, NEW c \in {1, 2}, UutRead(c)
  PROVE  \A d \in {1, 2} : Sent(d)' = Sent(d)
  <1> USE DEF net
  <1>1. Wires
    BY Zenon, TypeByKind
  <1>2. /\ got[c] \in Seq(Segs) /\ wire[c] \in Seq(Segs) /\ wire[c] # <<>>
    BY <1>1 DEF UutRead, Wires
  <1>3. Append(got[c], Head(wire[c])) \o Tail(wire[c]) = got[c] \o wire[c]
    BY <1>2, Read
  <1>4. /\ got' = [got EXCEPT ![c] = Append(got[c], Head(wire[c]))]
        /\ wire' = [wire EXCEPT ![c] = Tail(wire[c])]
    BY DEF UutRead
  <1>5. got'[c] = Append(got[c], Head(wire[c])) /\ wire'[c] = Tail(wire[c])
    BY <1>1, <1>4 DEF Wires
  <1>6. \A d \in {1, 2} : d # c => got'[d] = got[d] /\ wire'[d] = wire[d]
    BY <1>1, <1>4 DEF Wires
  <1> QED BY <1>3, <1>5, <1>6 DEF Sent

\* A step that sends, reads and loses nothing.
Quiet ==
  \/ Before \/ NextArg \/ SelectOnly \/ LoadFile \/ Switch \/ Select \/ EnterPoll \/ SendFails
  \/ AfterSelect \/ Pause \/ NextSegment \/ QuitLoop \/ StopAwg \/ Sigint

\* It leaves what was sent as it is.
LEMMA SentByQuiet ==
  ASSUME Quiet
  PROVE  UNCHANGED net /\ \A d : Sent(d)' = Sent(d)
  <1>1. UNCHANGED <<peer, wire, got>>
    BY DEF Quiet, Before, Start, StashTrigger, DisableTrigger, GetData32, SetDist, GetDistS1,
       DisablePlayloop, SetMaxSeg, NextArg, SelectOnly, LoadFile, Switch, Select, EnterPoll,
       SendFails, AfterSelect, Pause, NextSegment, QuitLoop, StopAwg, Sigint, net
  <1> QED BY <1>1 DEF Sent, net

\* A selection is sent on the connection in use.
LEMMA SentBySend ==
  ASSUME IInv, Send
  PROVE  \A d \in {1, 2} :
           Sent(d) \in Seq(Segs) /\ Sent(d)' = IF d = conn THEN Append(Sent(d), Selected) ELSE Sent(d)
  <1>1. Wires /\ conn \in {1, 2}
    BY Zenon, TypeByKind DEF IInv, Turns
  <1>2. Selected \in Segs
    BY SelectedIs DEF Send
  <1>3. UNCHANGED got /\ wire' = [wire EXCEPT ![conn] = Append(wire[conn], Selected)]
    BY DEF Send
  <1>4. \A d \in {1, 2} : wire'[d] = IF d = conn THEN Append(wire[d], Selected) ELSE wire[d]
    BY <1>1, <1>3 DEF Wires
  <1>5. ASSUME NEW d \in {1, 2}
        PROVE  /\ Sent(d) \in Seq(Segs)
               /\ got[d] \o Append(wire[d], Selected) = Append(got[d] \o wire[d], Selected)
    <2>1. got[d] \in Seq(Segs) /\ wire[d] \in Seq(Segs)
      BY <1>1 DEF Wires
    <2>2. PICK g \in Seq(Segs), w \in Seq(Segs), x \in Segs :
                 g = got[d] /\ w = wire[d] /\ x = Selected
      BY <1>2, <2>1
    <2>3. g \o w \in Seq(Segs) /\ g \o Append(w, x) = Append(g \o w, x)
      BY Written
    <2> QED BY <2>2, <2>3 DEF Sent
  <1>6. ASSUME NEW d \in {1, 2}
        PROVE  Sent(d)' = IF d = conn THEN Append(Sent(d), Selected) ELSE Sent(d)
    <2>1. Sent(d)' = got[d] \o wire'[d]
      BY <1>3 DEF Sent
    <2>2. CASE d = conn
      <3>1. wire'[d] = Append(wire[d], Selected)
        BY <1>4, <2>2
      <3> QED BY <1>5, <2>1, <2>2, <3>1, Zenon DEF Sent
    <2>3. CASE d # conn
      BY <1>4, <2>1, <2>3, Zenon DEF Sent
    <2> QED BY <2>2, <2>3
  <1> QED BY <1>5, <1>6

\* A reset leaves what was read of it.
LEMMA SentByReset ==
  ASSUME TypeOK, Reset
  PROVE  /\ conn \in {1, 2}
         /\ \A d \in {1, 2} :
              /\ got[d] \in Seq(Segs) /\ wire[d] \in Seq(Segs)
              /\ Sent(d)' = IF d = conn THEN got[d] ELSE Sent(d)
              /\ peer'[d] = IF d = conn THEN "lost" ELSE peer[d]
  <1>1. Wires /\ conn \in {1, 2}
    BY Zenon, TypeByKind DEF Turns
  <1>2. /\ UNCHANGED got /\ wire' = [wire EXCEPT ![conn] = <<>>]
        /\ peer' = [peer EXCEPT ![conn] = "lost"]
    BY DEF Reset
  <1>3. \A d \in {1, 2} : /\ wire'[d] = IF d = conn THEN <<>> ELSE wire[d]
                          /\ peer'[d] = IF d = conn THEN "lost" ELSE peer[d]
    BY <1>1, <1>2 DEF Wires
  <1>4. \A d \in {1, 2} : got[d] \in Seq(Segs) /\ wire[d] \in Seq(Segs)
    BY <1>1 DEF Wires
  <1>5. \A d \in {1, 2} : got[d] \o <<>> = got[d]
    BY <1>4, ConcatEmptySeq
  <1>6. ASSUME NEW d \in {1, 2}
        PROVE  Sent(d)' = IF d = conn THEN got[d] ELSE Sent(d)
    <2>1. Sent(d)' = got[d] \o wire'[d]
      BY <1>2 DEF Sent
    <2>2. CASE d = conn
      <3>1. wire'[d] = <<>>
        BY <1>3, <2>2
      <3> QED BY <1>5, <2>1, <2>2, <3>1
    <2>3. CASE d # conn
      BY <1>3, <2>1, <2>3, Zenon DEF Sent
    <2> QED BY <2>2, <2>3
  <1> QED BY <1>1, <1>3, <1>4, <1>6, Zenon

\* A step sends, reads, loses what was sent, or does none of it.
LEMMA NextBySent ==
  ASSUME Next
  PROVE  Quiet \/ Send \/ (\E c \in {1, 2} : UutRead(c)) \/ Reset
  BY Zenon DEF Next, Host, Quiet, Before

\* Nothing is selected, connected or counted before the segment loop.
LEMMA PlaceStep ==
  ASSUME IInv, Next
  PROVE  PlaceInv'
  <1> USE DEF setup, load, loop, net, sig, Ended, Goto, Fail, Lost, Loop
  <1>1. UNCHANGED switch_seg
    BY SetupKept
  <1>2. PlaceInv /\ SocketInv /\ LoadInv
    BY Zenon DEF IInv
  <1>3. CASE Before
    <2>1. UNCHANGED <<setup, load, loop, net, sig>> /\ pc \notin Loop \union Ended /\ pc' \notin Loop
      BY <1>3, BeforeStep
    <2>2. Sent(1)' = Sent(1)
      BY <1>3, SentByQuiet DEF Quiet
    <2> QED BY <1>2, <2>1, <2>2 DEF PlaceInv
  <1>4. CASE NextArg \/ SelectOnly \/ LoadFile
    <2>1. UNCHANGED <<switch_seg, loop>> /\ pc \notin Loop \union Ended /\ pc' \notin Loop
      BY <1>4 DEF NextArg, SelectOnly, LoadFile, Set
    <2>2. Sent(1)' = Sent(1)
      BY <1>4, SentByQuiet DEF Quiet
    <2> QED BY <1>2, <2>1, <2>2 DEF PlaceInv
  <1>5. CASE Switch
    BY <1>2, <1>5 DEF Switch, PlaceInv
  <1>6. CASE Select \/ EnterPoll \/ Send \/ SendFails \/ AfterSelect \/ Pause \/ NextSegment
             \/ QuitLoop \/ StopAwg \/ Sigint
    <2>1. /\ UNCHANGED <<switch_seg, ii>>
          /\ pc \in Loop => pc' \in Loop \union Ended
          /\ pc \notin Loop => pc' \in Ended
          /\ switch_seg # "iterate" => iter' = iter
      BY <1>1, <1>6 DEF Select, EnterPoll, Send, SendFails, AfterSelect, Pause, NextSegment,
         QuitLoop, StopAwg, Sigint, Handled, Iterating
    <2> QED BY <1>2, <2>1 DEF PlaceInv
  <1>7. ASSUME NEW c \in {1, 2}, UutRead(c)
        PROVE  PlaceInv'
    <2>1. UNCHANGED <<pc, setup, load, loop>>
      BY <1>7 DEF UutRead
    <2>2. Sent(1)' = Sent(1)
      BY <1>7, SentByRead DEF IInv
    <2> QED BY <1>2, <2>1, <2>2 DEF PlaceInv
  <1>8. CASE Reset
    <2>1. UNCHANGED <<pc, setup, load, loop>> /\ skt = "open" /\ pc \notin Ended
      BY <1>8 DEF Reset
    <2> QED BY <1>2, <2>1 DEF PlaceInv
  <1> QED BY <1>3, <1>4, <1>5, <1>6, <1>7, <1>8 DEF Next, Host, Before

\* A signal that closes the descriptor has asked the loop to end.
LEMMA SocketStep ==
  ASSUME IInv, Next
  PROVE  SocketInv'
  <1> USE DEF setup, load, loop, net, sig, Ended, Goto, Fail, Lost, Loop, Iterating
  <1>1. UNCHANGED switch_seg
    BY SetupKept
  <1>2. PlaceInv /\ SocketInv /\ Turns
    BY Zenon, TypeByKind DEF IInv
  <1>3. CASE Before \/ NextArg \/ SelectOnly \/ LoadFile \/ Switch
    <2>1. CASE Before
      <3>1. UNCHANGED <<loop, sig>> /\ pc \notin Loop \union Ended /\ pc' \notin Loop
        BY <2>1, BeforeStep
      <3> QED BY <1>1, <1>2, <3>1 DEF SocketInv, PlaceInv
    <2>2. CASE ~Before
      <3>1. UNCHANGED <<loop, sig>> /\ pc \notin Loop \union Ended /\ pc' \notin Loop \ {"select"}
        BY <1>3, <2>2 DEF NextArg, SelectOnly, LoadFile, Switch, Set
      <3> QED BY <1>1, <1>2, <3>1 DEF SocketInv, PlaceInv
    <2> QED BY <2>1, <2>2
  <1>4. CASE Select \/ EnterPoll
    BY <1>1, <1>2, <1>4 DEF Select, EnterPoll, SocketInv, Turns, LoopGoes
  <1>5. CASE Send \/ SendFails
    BY <1>1, <1>2, <1>5 DEF Send, SendFails, SocketInv
  <1>6. CASE AfterSelect
    BY <1>1, <1>2, <1>6 DEF AfterSelect, SocketInv, Turns
  <1>7. CASE Pause \/ NextSegment
    BY <1>1, <1>2, <1>7 DEF Pause, NextSegment, SocketInv
  <1>8. CASE QuitLoop \/ StopAwg
    BY <1>1, <1>2, <1>8 DEF QuitLoop, StopAwg, SocketInv
  <1>9. CASE Sigint
    BY <1>1, <1>2, <1>9 DEF Sigint, Handled, SocketInv, PlaceInv, Turns
  <1>10. CASE (\E c \in {1, 2} : UutRead(c)) \/ Reset
    <2>1. UNCHANGED <<pc, setup, loop, sig>>
      BY <1>10 DEF UutRead, Reset
    <2> QED BY <1>2, <2>1 DEF SocketInv
  <1> QED BY <1>3, <1>4, <1>5, <1>6, <1>7, <1>8, <1>9, <1>10 DEF Next, Host, Before

\* A round more of them, or a place further.
LEMMA NextRound ==
  ASSUME NEW d \in Nat \ {0}, NEW k \in Nat
  PROVE  k * d \in Nat /\ k * d + d = (k + 1) * d + 0 /\ 0 = 0 * d + (1 - 1)
  OBVIOUS

\* The loop takes the segments in turn, and starts again after the last.
LEMMA TurnStep ==
  ASSUME IInv, Next
  PROVE  TurnInv'
  <1> USE DEF setup, load, loop, net, sig, Ended, Goto, Fail, Lost, Loop, Iterating
  <1>1. UNCHANGED <<switch_seg, args>>
    BY SetupKept
  <1>2. /\ PlaceInv /\ TurnInv /\ Turns
        /\ Len(args) \in Nat \ {0} /\ iter \in Nat
    <2>1. Turns /\ PlaceInv /\ TurnInv /\ Len(args) \in Nat \ {0}
      BY Zenon, TypeByKind, ArgsAre DEF IInv
    <2> QED BY <2>1, BoundsAssumption DEF Turns
  <1>3. CASE Before \/ NextArg \/ SelectOnly \/ LoadFile
    <2>1. pc' \notin Loop
      BY <1>3, BeforeStep DEF NextArg, SelectOnly, LoadFile, Set
    <2> QED BY <2>1 DEF TurnInv
  <1>4. CASE Switch
    <2>1. iter = 0 /\ pos = 1 /\ UNCHANGED <<iter, pos, conn>> /\ pc' \in {"select", "done"}
      BY <1>2, <1>4 DEF Switch, PlaceInv
    <2>2. 0 = 0 * Len(args) + (1 - 1)
      BY <1>2, NextRound
    <2>3. 1 \in 1..Len(args) /\ \E k \in Nat : 0 = k * Len(args) + (1 - 1)
      BY <1>2, <2>2
    <2> QED BY <1>1, <2>1, <2>3 DEF TurnInv
  <1>5. CASE Select \/ EnterPoll \/ Send \/ SendFails
    <2>1. /\ UNCHANGED <<iter, pos, conn>>
          /\ pc \in {"select", "enter", "poll"} /\ pc' \in {"enter", "poll", "sent"} \union Ended
          /\ Iterating /\ pc = "select" => iter < MaxIter
      BY <1>5 DEF Select, EnterPoll, Send, SendFails, LoopGoes
    <2> QED BY <1>1, <1>2, <2>1, Zenon DEF TurnInv
  <1>6. CASE AfterSelect
    <2>1. CASE Iterating
      <3>1. PICK k \in Nat : pos \in 1..Len(args) /\ iter = k * Len(args) + (pos - 1)
        BY <1>2, <1>6, <2>1 DEF AfterSelect, TurnInv
      <3>2. /\ UNCHANGED <<pos, conn>> /\ iter' = iter + 1 /\ pc' \in {"pause", "next"}
        BY <1>6, <2>1 DEF AfterSelect
      <3>3. k * Len(args) \in Nat
        BY <1>2
      <3>4. iter + 1 = k * Len(args) + pos
        BY <1>2, <3>1, <3>3
      <3> QED BY <1>1, <2>1, <3>1, <3>2, <3>4 DEF TurnInv
    <2>2. CASE ~Iterating
      BY <1>1, <1>6, <2>2 DEF AfterSelect, TurnInv
    <2> QED BY <2>1, <2>2
  <1>7. CASE Pause
    <2>1. UNCHANGED <<iter, pos, conn>> /\ pc = "pause" /\ pc' = "next"
      BY <1>7 DEF Pause
    <2> QED BY <1>1, <1>2, <2>1 DEF TurnInv
  <1>8. CASE NextSegment
    <2>1. UNCHANGED <<iter, conn>> /\ pos' = Following(pos) /\ pc = "next" /\ pc' = "select"
      BY <1>8 DEF NextSegment
    <2>2. Len(segments) = Len(args)
      BY <2>1, AllSegments
    <2>3. SUFFICES ASSUME Iterating
                   PROVE  TurnInv'
      BY <1>1, <2>1 DEF TurnInv
    <2>4. PICK k \in Nat : pos \in 1..Len(args) /\ iter = k * Len(args) + pos
      BY <1>2, <2>1, <2>3 DEF TurnInv
    <2>5. /\ k * Len(args) \in Nat
          /\ k * Len(args) + Len(args) = (k + 1) * Len(args) + 0
      BY <1>2, NextRound
    <2>6. CASE pos >= Len(segments)
      <3>1. pos = Len(args) /\ pos' = 1
        BY <1>2, <2>1, <2>2, <2>4, <2>6 DEF Following
      <3>2. iter = (k + 1) * Len(args) + (1 - 1) /\ k + 1 \in Nat /\ 1 \in 1..Len(args)
        BY <1>2, <2>4, <2>5, <3>1
      <3> QED BY <1>1, <2>1, <3>1, <3>2, Zenon DEF TurnInv
    <2>7. CASE ~(pos >= Len(segments))
      <3>1. pos' = pos + 1
        BY <2>1, <2>7 DEF Following
      <3>2. pos + 1 \in 1..Len(args) /\ iter = k * Len(args) + ((pos + 1) - 1)
        BY <1>2, <2>2, <2>4, <2>5, <2>7
      <3> QED BY <1>1, <2>1, <3>1, <3>2, Zenon DEF TurnInv
    <2> QED BY <2>6, <2>7
  <1>9. CASE QuitLoop \/ StopAwg
    <2>1. conn' = 2 \/ pc' \in Ended
      BY <1>9 DEF QuitLoop, StopAwg
    <2> QED BY <2>1 DEF TurnInv
  <1>10. CASE Sigint
    <2>1. /\ UNCHANGED <<iter, pos, conn>>
          /\ pc' = pc \/ (pc = "poll" /\ pc' = "sent") \/ pc' \in Ended
      BY <1>10 DEF Sigint
    <2> QED BY <1>1, <1>2, <2>1, Zenon DEF TurnInv
  <1>11. CASE (\E c \in {1, 2} : UutRead(c)) \/ Reset
    <2>1. UNCHANGED <<pc, setup, loop>>
      BY <1>11 DEF UutRead, Reset
    <2> QED BY <1>2, <2>1 DEF TurnInv
  <1> QED BY <1>3, <1>4, <1>5, <1>6, <1>7, <1>8, <1>9, <1>10, <1>11 DEF Next, Host, Before

\* Each turn on a connection that works is one selection.
LEMMA CountStep ==
  ASSUME IInv, Next
  PROVE  CountInv'
  <1> USE DEF setup, load, loop, net, sig, Ended, Goto, Fail, Lost, Loop, Iterating
  <1>1. UNCHANGED switch_seg
    BY SetupKept
  <1>2. PlaceInv /\ CountInv /\ SocketInv /\ Turns /\ iter \in Nat
    <2>1. Turns /\ PlaceInv /\ SocketInv /\ CountInv
      BY Zenon, TypeByKind DEF IInv
    <2> QED BY <2>1, BoundsAssumption DEF Turns
  <1>3. Quiet => UNCHANGED peer /\ Sent(1)' = Sent(1)
    BY SentByQuiet
  <1>4. CASE Before \/ NextArg \/ SelectOnly \/ LoadFile
    <2>1. pc' \notin Loop
      BY <1>4, BeforeStep DEF NextArg, SelectOnly, LoadFile, Set
    <2> QED BY <2>1 DEF CountInv
  <1>5. CASE Switch
    <2>1. iter' = 0 /\ Sent(1)' = <<>> /\ pc' \in {"select", "done"}
      BY <1>2, <1>3, <1>5 DEF Switch, PlaceInv, Quiet
    <2>2. Len(Sent(1)') = iter'
      BY <2>1
    <2> QED BY <2>1, <2>2 DEF CountInv
  <1>6. CASE Select \/ EnterPoll \/ Pause \/ NextSegment
    <2>1. /\ UNCHANGED <<iter, conn>> /\ (skt = "closed" => skt' = "closed")
          /\ pc \in {"select", "enter", "pause", "next"}
          /\ pc' \in {"select", "enter", "poll", "next"} \union Ended
      BY <1>6 DEF Select, EnterPoll, Pause, NextSegment
    <2>2. UNCHANGED peer /\ Sent(1)' = Sent(1)
      BY <1>3, <1>6 DEF Quiet
    <2> QED BY <1>2, <2>1, <2>2 DEF CountInv
  <1>7. CASE Send
    <2>1. /\ UNCHANGED <<iter, conn, skt, peer>> /\ pc = "poll" /\ pc' = "sent"
      BY <1>7 DEF Send
    <2>2. CASE conn = 1
      <3>1. Sent(1) \in Seq(Segs) /\ Sent(1)' = Append(Sent(1), Selected)
        BY <1>7, <2>2, SentBySend
      <3>2. Selected \in Segs
        BY <2>1, SelectedIs
      <3>3. Len(Sent(1)') = Len(Sent(1)) + 1
        BY <3>1, <3>2, AppendProperties
      <3> QED BY <1>2, <2>1, <3>3 DEF CountInv
    <2>3. CASE conn # 1
      BY <2>1, <2>3 DEF CountInv
    <2> QED BY <2>2, <2>3
  <1>8. CASE SendFails
    <2>1. UNCHANGED <<conn, peer>> /\ peer[conn] = "lost"
      BY <1>8 DEF SendFails
    <2> QED BY <2>1 DEF CountInv
  <1>9. CASE AfterSelect
    <2>1. /\ UNCHANGED <<conn, skt, peer>> /\ pc = "sent" /\ Sent(1)' = Sent(1)
          /\ \/ iter' = iter + 1 /\ pc' \in {"pause", "next"}
             \/ pc' \in {"stop", "done"}
      BY <1>3, <1>9 DEF AfterSelect, Quiet
    <2> QED BY <1>2, <2>1 DEF CountInv
  <1>10. CASE QuitLoop \/ StopAwg
    <2>1. conn' = 2 \/ pc' \in Ended
      BY <1>10 DEF QuitLoop, StopAwg
    <2> QED BY <2>1 DEF CountInv
  <1>11. CASE Sigint
    <2>1. /\ UNCHANGED <<iter, conn, peer>> /\ Sent(1)' = Sent(1)
          /\ UNCHANGED <<pc, skt>> \/ skt' = "closed" \/ pc' \in Ended
      BY <1>3, <1>11 DEF Sigint, Quiet
    <2> QED BY <1>2, <2>1 DEF CountInv
  <1>12. ASSUME NEW c \in {1, 2}, UutRead(c)
         PROVE  CountInv'
    <2>1. UNCHANGED <<pc, iter, conn, skt, peer>>
      BY <1>12 DEF UutRead
    <2>2. Sent(1)' = Sent(1)
      BY <1>12, SentByRead DEF IInv
    <2> QED BY <1>2, <2>1, <2>2 DEF CountInv
  <1>13. CASE Reset
    <2>1. UNCHANGED <<pc, iter, conn, skt>>
      BY <1>13 DEF Reset
    <2>2. /\ conn \in {1, 2}
          /\ \A d \in {1, 2} : /\ Sent(d)' = IF d = conn THEN got[d] ELSE Sent(d)
                               /\ peer'[d] = IF d = conn THEN "lost" ELSE peer[d]
      BY <1>13, SentByReset DEF IInv
    <2> QED BY <1>2, <2>1, <2>2 DEF CountInv
  <1> QED BY <1>4, <1>5, <1>6, <1>7, <1>8, <1>9, <1>10, <1>11, <1>12, <1>13 DEF Next, Host, Before

\* Nothing is sent on the second connection before the last selection.
LEMMA StopStep ==
  ASSUME IInv, Next
  PROVE  StopInv'
  <1> USE DEF setup, load, loop, net, sig, Ended, Goto, Fail, Lost, Loop, Iterating
  <1>1. StopInv /\ SocketInv /\ PlaceInv /\ Turns
    BY Zenon, TypeByKind DEF IInv
  <1>2. CASE Quiet
    <2>1. Sent(2)' = Sent(2)
      BY <1>2, SentByQuiet
    <2>2. (conn = 1 \/ pc \in {"select", "enter", "poll"}) \/ ~(conn = 1 \/ pc \in {"select", "enter", "poll"})'
      <3>1. CASE Before \/ NextArg \/ SelectOnly \/ LoadFile \/ Switch
        <4>1. pc \notin Loop \union Ended
          BY <3>1, BeforeStep DEF NextArg, SelectOnly, LoadFile, Switch
        <4> QED BY <1>1, <4>1 DEF PlaceInv
      <3>2. CASE Select \/ EnterPoll \/ QuitLoop
        BY <3>2 DEF Select, EnterPoll, QuitLoop
      <3>3. CASE SendFails \/ AfterSelect \/ Pause \/ NextSegment \/ StopAwg
        BY <1>1, <3>3 DEF SendFails, AfterSelect, Pause, NextSegment, StopAwg, SocketInv, Turns
      <3>4. CASE Sigint
        BY <3>4 DEF Sigint
      <3> QED BY <1>2, <3>1, <3>2, <3>3, <3>4 DEF Quiet
    <2> QED BY <1>1, <2>1, <2>2 DEF StopInv
  <1>3. CASE Send
    <2>1. UNCHANGED conn /\ pc' = "sent"
      BY <1>3 DEF Send
    <2>2. conn = 1 => Sent(2)' = Sent(2)
      BY <1>3, SentBySend
    <2> QED BY <1>1, <2>1, <2>2 DEF StopInv
  <1>4. ASSUME NEW c \in {1, 2}, UutRead(c)
        PROVE  StopInv'
    <2>1. UNCHANGED <<pc, conn>>
      BY <1>4 DEF UutRead
    <2>2. Sent(2)' = Sent(2)
      BY <1>4, SentByRead DEF IInv
    <2> QED BY <1>1, <2>1, <2>2 DEF StopInv
  <1>5. CASE Reset
    <2>1. UNCHANGED <<pc, conn>>
      BY <1>5 DEF Reset
    <2>2. /\ got[2] \in Seq(Segs) /\ wire[2] \in Seq(Segs)
          /\ Sent(2)' = got[2] \/ Sent(2)' = Sent(2)
      BY <1>5, SentByReset DEF IInv
    <2>3. Sent(2) = <<>> => got[2] = <<>>
      BY <2>2, ConcatEqualIffEmpty DEF Sent
    <2> QED BY <1>1, <2>1, <2>2, <2>3 DEF StopInv
  <1> QED BY <1>2, <1>3, <1>4, <1>5, NextBySent

\* The selections of a connection are those that are expected.
LEMMA OrderBySent ==
  SelectedInOrder <=> /\ \A j \in 1..Len(Sent(1)) : Sent(1)[j] = Expected(j)
                      /\ \A j \in 1..Len(Sent(2)) : j = 1 /\ Sent(2)[j] = SegA
  BY Zenon DEF SelectedInOrder, Sent

\* What is read of what was sent is its beginning.
LEMMA Beginning ==
  ASSUME NEW S, NEW g \in Seq(S), NEW w \in Seq(S)
  PROVE  \A j \in 1..Len(g) : j \in 1..Len(g \o w) /\ (g \o w)[j] = g[j]
  BY ConcatProperties, LenProperties

\* A selection is what its place asks for, and reading and resets keep the order.
LEMMA OrderStep ==
  ASSUME IInv, Next
  PROVE  SelectedInOrder'
  <1> DEFINE First(s) == \A j \in 1..Len(s) : s[j] = Expected(j)
             Second(s) == \A j \in 1..Len(s) : j = 1 /\ s[j] = SegA
  <1>1. \A j : Expected(j)' = Expected(j)
    BY SetupKept DEF Expected, setup
  <1>2. First(Sent(1)) /\ Second(Sent(2))
    BY OrderBySent DEF IInv
  <1>3. SUFFICES First(Sent(1)') /\ Second(Sent(2)')
    BY <1>1 DEF SelectedInOrder, Sent
  <1>4. CASE Quiet
    BY <1>2, <1>4, SentByQuiet
  <1>5. CASE Send
    <2>1. \A d \in {1, 2} : /\ Sent(d) \in Seq(Segs)
                            /\ Sent(d)' = IF d = conn THEN Append(Sent(d), Selected) ELSE Sent(d)
      BY <1>5, SentBySend
    <2>2. pc = "poll" /\ skt = "open" /\ peer[conn] = "up"
      BY <1>5 DEF Send
    <2>3. conn \in {1, 2} /\ iter \in Nat
      <3>1. Turns
        BY Zenon, TypeByKind DEF IInv
      <3> QED BY <3>1, BoundsAssumption DEF Turns
    <2>4. PICK x \in Segs : x = Selected
      BY <2>2, SelectedIs
    <2>5. CASE conn = 1
      <3>1. Sent(1)' = Append(Sent(1), x) /\ Sent(2)' = Sent(2)
        BY <2>1, <2>4, <2>5
      <3>2. Len(Sent(1)) = iter
        BY <2>2, <2>5 DEF IInv, CountInv
      <3>3. x = Expected(iter + 1)
        BY <2>2, <2>4, <2>5, SelectedIs
      <3>4. First(Append(Sent(1), x))
        BY <1>2, <2>1, <2>3, <3>2, <3>3, AppendProperties
      <3> QED BY <1>2, <3>1, <3>4
    <2>6. CASE conn = 2
      <3>1. Sent(2)' = Append(Sent(2), x) /\ Sent(1)' = Sent(1)
        BY <2>1, <2>4, <2>6
      <3>2. Sent(2) = <<>> /\ x = SegA
        BY <2>2, <2>4, <2>6, SelectedIs DEF IInv, StopInv
      <3>3. Second(Append(<<>>, x))
        BY <3>2, <2>4, AppendProperties
      <3> QED BY <1>2, <3>1, <3>2, <3>3
    <2> QED BY <2>3, <2>5, <2>6
  <1>6. ASSUME NEW c \in {1, 2}, UutRead(c)
        PROVE  First(Sent(1)') /\ Second(Sent(2)')
    BY <1>2, <1>6, SentByRead DEF IInv
  <1>7. CASE Reset
    <2>1. \A d \in {1, 2} : /\ got[d] \in Seq(Segs) /\ wire[d] \in Seq(Segs)
                            /\ Sent(d)' = IF d = conn THEN got[d] ELSE Sent(d)
      BY <1>7, SentByReset DEF IInv
    <2>2. \A d \in {1, 2} : \A j \in 1..Len(got[d]) :
            j \in 1..Len(Sent(d)) /\ Sent(d)[j] = got[d][j]
      BY <2>1, Beginning DEF Sent
    <2>3. First(got[1]) /\ Second(got[2])
      BY <1>2, <2>2
    <2> QED BY <1>2, <2>1, <2>3
  <1> QED BY <1>4, <1>5, <1>6, <1>7, NextBySent

-----------------------------------------------------------------------------
(* The theorems.                                                            *)

\* The programs start in the invariant.
LEMMA InitIInv ==
  ASSUME Init
  PROVE  IInv
  <1>1. args \in Seq([seg : Segs, file : BOOLEAN]) /\ Len(args) \in Nat \ {0} /\ args # <<>>
    <2>1. CASE \E n \in 1..MaxArgs : args \in [1..n -> [seg : Segs, file : BOOLEAN]]
      <3>1. PICK n \in 1..MaxArgs : args \in [1..n -> [seg : Segs, file : BOOLEAN]]
        BY <2>1
      <3>2. n \in Nat \ {0}
        BY BoundsAssumption
      <3>3. args \in Seq([seg : Segs, file : BOOLEAN])
        BY <3>1, <3>2, SeqDef
      <3>4. Len(args) \in Nat /\ DOMAIN args = 1..Len(args) /\ DOMAIN args = 1..n
        BY <3>1, <3>3, LenProperties
      <3>5. Len(args) \in Nat \ {0}
        BY <3>2, <3>4
      <3> QED BY <3>3, <3>5, EmptySeq
    <2>2. CASE args = <<[seg |-> SegA, file |-> TRUE]>>
      <3>1. [seg |-> SegA, file |-> TRUE] \in [seg : Segs, file : BOOLEAN]
        BY SegmentsAssumption
      <3>2. args \in Seq([seg : Segs, file : BOOLEAN]) /\ Len(args) = 1
        BY <2>2, <3>1
      <3> QED BY <3>2, EmptySeq
    <2> QED BY <2>1, <2>2 DEF Init
  <1>2. /\ program \in {"seg", "oneshot"} /\ noarm \in BOOLEAN
        /\ switch_seg \in {"no", "first", "last", "iterate"}
    BY DEF Init
  <1>3. /\ pc = "start" /\ ii = Len(args) /\ segments = <<>> /\ bufferlen = "none"
        /\ pos = 1 /\ iter = 0 /\ conn = 1 /\ skt = "none" /\ quit = FALSE /\ sigs = 0
    BY DEF Init
  <1>4. uut = [trigger |-> "EXT", playloop_len_disable |-> "old", max_seg |-> SegA,
               refused |-> FALSE]
    BY DEF Init
  <1>5. /\ peer = [c \in {1, 2} |-> "up"]
        /\ wire = [c \in {1, 2} |-> <<>>] /\ got = [c \in {1, 2} |-> <<>>]
    BY DEF Init
  <1>6. Setup
    BY <1>1, <1>2 DEF Setup
  <1>7. Places
    BY DEF Init, Places, Steps, Reasons
  <1>8. Load
    BY <1>1, <1>3 DEF Load
  <1>9. Device
    BY <1>4, SegmentsAssumption DEF Device
  <1>10. Turns
    <2>1. iter \in 0..MaxIter /\ sigs \in 0..MaxSig
      BY <1>3, BoundsAssumption
    <2>2. quit \in BOOLEAN /\ pos = 1 /\ conn \in {1, 2} /\ skt \in {"none", "open", "closed"}
      BY <1>3
    <2> QED BY <2>1, <2>2, Zenon DEF Turns
  <1>11. Wires
    <2>1. <<>> \in Seq(Segs) /\ Len(<<>>) <= Window
      BY BoundsAssumption
    <2> QED BY <1>5, <2>1 DEF Wires
  <1>12. Sent(1) = <<>> /\ Sent(2) = <<>>
    <2>1. Sent(1) = <<>> \o <<>> /\ Sent(2) = <<>> \o <<>>
      BY <1>5 DEF Sent
    <2>2. <<>> \o <<>> = <<>>
      OBVIOUS
    <2> QED BY <2>1, <2>2
  <1>13. OneshotInv
    <2>1. program = "oneshot" => args = <<[seg |-> SegA, file |-> TRUE]>>
      BY DEF Init
    <2>2. ASSUME program = "oneshot", NEW i \in 1..Len(args)
          PROVE  args[i].file
      <3>1. args[i].file = TRUE
        BY <2>1, <2>2
      <3> QED BY <3>1
    <2>3. uut.playloop_len_disable = "old"
      BY <1>4
    <2> QED BY <1>3, <2>2, <2>3 DEF OneshotInv
  <1>14. LoadInv
    <2>1. Len(segments) = 0 /\ Len(args) - ii = 0
      BY <1>1, <1>3
    <2> QED BY <1>3, <2>1 DEF LoadInv
  <1>15. TriggerInv /\ EnabledLast
    BY <1>3, <1>4 DEF TriggerInv, FailsSafe, EnabledLast
  <1>16. PlaceInv /\ SocketInv
    <2>1. pc = "start" /\ iter = 0 /\ pos = 1 /\ conn = 1 /\ skt = "none"
      BY <1>3
    <2> QED BY <1>12, <2>1 DEF PlaceInv, SocketInv, Loop
  <1>17. TurnInv /\ CountInv
    BY <1>3 DEF TurnInv, CountInv
  <1>18. StopInv /\ SelectedInOrder
    BY <1>12, OrderBySent DEF StopInv
  <1> QED
    BY <1>6, <1>7, <1>8, <1>9, <1>10, <1>11, <1>13, <1>14, <1>15, <1>16, <1>17, <1>18,
       TypeByKind, Zenon DEF IInv

\* Every step keeps the invariant.
LEMMA NextIInv ==
  ASSUME IInv, [Next]_vars
  PROVE  IInv'
  <1>1. CASE Next
    <2>1. TypeOK'
      BY <1>1, TypeStep, Zenon DEF TypeOK, Setup, Reasons, Places, Device, Load, Turns, Wires
    <2> QED
      BY <1>1, <2>1, OneshotStep, LoadStep, TriggerStep, PlaceStep, SocketStep, TurnStep, CountStep,
         StopStep, OrderStep, EnabledStep, Zenon DEF IInv
  <1>2. CASE UNCHANGED vars
    <2> USE <1>2 DEF vars, setup, load, loop, net, sig
    <2>1. TypeOK'
      <3>1. Setup /\ Places /\ Device /\ Load /\ Turns /\ Wires
        BY Zenon, TypeByKind DEF IInv
      <3>2. Setup' /\ Places' /\ Device' /\ Load' /\ Turns' /\ Wires'
        BY <3>1, Unchanged
      <3> QED BY <3>2, Zenon DEF TypeOK, Setup, Reasons, Places, Device, Load, Turns, Wires
    <2>2. OneshotInv' /\ LoadInv' /\ TriggerInv' /\ EnabledLast'
      BY DEF IInv, OneshotInv, LoadInv, TriggerInv, FailsSafe, EnabledLast
    <2>3. PlaceInv' /\ SocketInv' /\ TurnInv'
      BY DEF IInv, PlaceInv, Sent, SocketInv, TurnInv, Iterating
    <2>4. CountInv' /\ StopInv' /\ SelectedInOrder'
      BY DEF IInv, CountInv, StopInv, Sent, SelectedInOrder, Expected
    <2> QED BY <2>1, <2>2, <2>3, <2>4, Zenon DEF IInv
  <1> QED BY <1>1, <1>2

\* The invariant holds in every state of the two programs.
THEOREM Inductive == Spec => []IInv
  <1> QED BY InitIInv, NextIInv, PTL DEF Spec

\* Every variable keeps its type, and iterate_segments never indexes G_segments
\* out of its range.
THEOREM TypeCorrect == Spec => []TypeOK
  <1>1. IInv => TypeOK
    BY Zenon DEF IInv
  <1> QED BY <1>1, Inductive, PTL

\* Whatever is lost, refused or interrupted, a program that arms the AWG changes
\* the play loop only with the front panel trigger off.
THEOREM SafeHalfWay == Spec => []FailsSafe
  <1>1. IInv => FailsSafe
    BY Zenon DEF IInv, TriggerInv
  <1> QED BY <1>1, Inductive, PTL

\* Playing is enabled with the last argument, and not by a program that was
\* told not to arm.
THEOREM LastLoadEnables == Spec => []EnabledLast
  <1>1. IInv => EnabledLast
    BY Zenon DEF IInv
  <1> QED BY <1>1, Inductive, PTL

\* stream_out never polls the descriptor it closed when a signal came.
THEOREM ClosedNotPolled == Spec => []NeverPollsClosed
  <1>1. IInv => NeverPollsClosed
    BY Zenon DEF IInv, SocketInv, NeverPollsClosed
  <1> QED BY <1>1, Inductive, PTL

\* The UUT reads the segments in the order of the command line, round after
\* round, for any number of segments, signals and resets, and then one 'A'.
THEOREM InCommandLineOrder == Spec => []SelectedInOrder
  <1>1. IInv => SelectedInOrder
    BY Zenon DEF IInv
  <1> QED BY <1>1, Inductive, PTL

=============================================================================
