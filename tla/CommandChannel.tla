--------------------------- MODULE CommandChannel ---------------------------
(***************************************************************************)
(* What a Siteclient promises the code that calls sr(): commands are       *)
(* answered one at a time and in order, and what the caller is handed for  *)
(* its n-th command is the n-th answer the UUT gave, cut to the caller's   *)
(* buffer and without trailing newlines.  A channel that closes hands out  *)
(* nothing more.  Netclient's chunks, its buffer and the prompt that ends  *)
(* an answer on the wire are not visible here; module Siteclient has them. *)
(***************************************************************************)
EXTENDS Naturals, Sequences

CONSTANTS
  MaxRx,        \* size of the buffer the caller passes to sr()
  Newline,      \* the byte trimmed from the end of an answer
  AllAnswers    \* the answers a UUT may give

VARIABLES
  served,       \* answers given by the UUT so far, oldest first
  returned,     \* texts returned by sr() so far, oldest first
  open          \* FALSE once the process has given up the connection

chanVars == <<served, returned, open>>

\* t is a reply for answer a: a prefix of a that fits, that does not end
\* in a newline, and from which only newlines are missing.
IsReply(a, t) ==
  /\ Len(t) <= Len(a)
  /\ Len(t) <= MaxRx
  /\ \A i \in 1..Len(t) : t[i] = a[i]
  /\ Len(t) > 0 => t[Len(t)] # Newline
  /\ \A i \in 1..Len(a) : i > Len(t) /\ i <= MaxRx => a[i] = Newline

ChanInit == served = <<>> /\ returned = <<>> /\ open \in BOOLEAN

\* The UUT executes the next command; there is one only if every earlier
\* command was returned.
Execute ==
  /\ open
  /\ Len(served) = Len(returned)
  /\ \E a \in AllAnswers : served' = Append(served, a)
  /\ UNCHANGED <<returned, open>>

\* sr() returns the answer to the oldest command that waits for one.
Return ==
  /\ open
  /\ Len(served) = Len(returned) + 1
  /\ \E t \in {SubSeq(served[Len(served)], 1, n) : n \in 0..Len(served[Len(served)])} :
        /\ IsReply(served[Len(served)], t)
        /\ returned' = Append(returned, t)
  /\ UNCHANGED <<served, open>>

Close == open' = FALSE /\ UNCHANGED <<served, returned>>

ChanNext == Execute \/ Return \/ Close

ChanSpec == ChanInit /\ [][ChanNext]_chanVars
=============================================================================
