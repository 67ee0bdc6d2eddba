------------------------------- MODULE Upload -------------------------------
(***************************************************************************)
(* acq400_upload.cpp: arm a UUT for a shot, poll its state until the shot  *)
(* is over, upload the data to a file.  The shot runs by itself, and the   *)
(* commands go through an Acq400.                                          *)
(*                                                                         *)
(*   pc      the next command of the program, "read" and "write" in        *)
(*           upload(), "over" at its end, "failed" when it ends before     *)
(*   state   the state it polled last, and "state" before the first poll   *)
(*   long32  G::data32 is not 0                                            *)
(*   nbuf, nread, nfile                                                    *)
(*           elements in buf; bytes read from the UUT and written to the   *)
(*           file                                                          *)
(*   short   an fwrite has come back short, or the flush of the file at    *)
(*           the end, which counts as the last fwrite                      *)
(*   arming  the UUT has taken set_arm and is not armed yet                *)
(*   uut     TRANS_ACT:STATE, where "RUN" stands for all that is neither   *)
(*           IDLE nor ARM                                                  *)
(*   shots   shots completed since the program started                     *)
(*   aborted somebody has aborted the shot                                 *)
(*   cut     the UUT's data connection has broken                          *)
(*                                                                         *)
(* The UUT is idle at the start, and nobody else arms it.                  *)
(***************************************************************************)
EXTENDS Acq400, FiniteSetsExt

CONSTANTS
  Bytes,     \* the size of the data of one shot
  BufLen,    \* BUFLEN
  Uploads    \* -u is given

ASSUME UploadAssumption ==
  Bytes \in Nat /\ BufLen \in Nat \ {0} /\ Uploads \in BOOLEAN

VARIABLES pc, state, long32, nbuf, nread, nfile, short, arming, uut, shots, aborted, cut

copy == <<nbuf, nread, nfile, short>>
device == <<arming, uut, shots, aborted, cut>>
vars == <<pc, state, long32, copy, device, acq400Vars>>

-----------------------------------------------------------------------------
(* The program.                                                             *)

\* error() in a Siteclient, or the exit(1) behind a get of text.
Fatal ==
  /\ pc \in {"new", "data32", "transient", "set_arm", "wait_start", "wait_idle", "shot"}
  /\ pc' = "failed"
  /\ UNCHANGED <<state, long32, copy, device, acq400Vars>>

Construct ==
  /\ pc = "new"
  /\ \E list \in SiteLists : New(list)
  /\ pc' = "data32"
  /\ UNCHANGED <<state, long32, copy, device>>

GetData32 ==
  /\ pc = "data32" /\ Use("0")
  /\ long32' \in BOOLEAN
  /\ pc' = "transient"
  /\ UNCHANGED <<state, copy, device>>

SetTransient ==
  /\ pc = "transient" /\ Use("0")
  /\ pc' = "set_arm"
  /\ UNCHANGED <<state, long32, copy, device>>

\* The UUT may refuse: capture() does not look at the answer.
SetArm ==
  /\ pc = "set_arm" /\ Use("0")
  /\ pc' = "wait_start"
  /\ arming' \in BOOLEAN
  /\ UNCHANGED <<state, long32, copy, uut, shots, aborted, cut>>

\* The first loop.
Started_Any(new) == TRUE
Started(new) == new # "IDLE"

PollStart ==
  /\ pc = "wait_start" /\ Use("0")
  /\ state' = uut
  /\ pc' = IF Started(uut) THEN "wait_idle" ELSE pc
  /\ UNCHANGED <<long32, copy, device>>

\* The second loop.
Finished_AfterRun(new) == new = "IDLE" /\ state = "RUN"
Finished(new) == new = "IDLE"

PollIdle ==
  /\ pc = "wait_idle" /\ Use("0")
  /\ state' = uut
  /\ pc' = IF ~Finished(uut) THEN pc ELSE IF Uploads THEN "shot" ELSE "over"
  /\ UNCHANGED <<long32, copy, device>>

\* The number of the shot names the file.  If that cannot be opened, the first
\* fwrite crashes.
GetShot ==
  /\ pc = "shot" /\ Use("1")
  /\ pc' \in {"read", "failed"}
  /\ UNCHANGED <<state, long32, copy, device>>

Size == IF long32 THEN 8 ELSE 2

\* stream(): whole elements, and none when the connection is at its end.
Got == IF cut THEN 0 ELSE Min({BufLen, (Bytes - nread) \div Size})

GoesOn_FullBuffer(n) == n = BufLen
GoesOn(n) == n > 0

Read ==
  /\ pc = "read"
  /\ nbuf' = Got
  /\ nread' = nread + Got * Size
  /\ pc' = IF GoesOn(Got) THEN "write" ELSE "over"
  /\ UNCHANGED <<state, long32, nfile, short, device, acq400Vars>>

Written_Longs(n) == n * 8
Written(n) == n * Size

\* On a full disk a part of the buffer is lost; the loop goes on all the same.
Write ==
  /\ pc = "write"
  /\ \/ nfile' = nfile + Written(nbuf) /\ UNCHANGED short
     \/ /\ \E n \in 0..(Written(nbuf) - 1) : nfile' = nfile + n
        /\ short' = TRUE
  /\ pc' = "read"
  /\ UNCHANGED <<state, long32, nbuf, nread, device, acq400Vars>>

-----------------------------------------------------------------------------
(* The UUT (external).                                                      *)

UutArms ==
  /\ arming /\ uut = "IDLE"
  /\ arming' = FALSE /\ uut' = "ARM"
  /\ UNCHANGED <<pc, state, long32, copy, shots, aborted, cut, acq400Vars>>

UutTriggered ==
  /\ uut = "ARM"
  /\ uut' = "RUN"
  /\ UNCHANGED <<pc, state, long32, copy, arming, shots, aborted, cut, acq400Vars>>

UutFinishes ==
  /\ uut = "RUN"
  /\ uut' = "IDLE" /\ shots' = shots + 1
  /\ UNCHANGED <<pc, state, long32, copy, arming, aborted, cut, acq400Vars>>

Abort ==
  /\ uut # "IDLE"
  /\ uut' = "IDLE" /\ aborted' = TRUE
  /\ UNCHANGED <<pc, state, long32, copy, arming, shots, cut, acq400Vars>>

Cut ==
  /\ pc \in {"read", "write"} /\ ~cut
  /\ cut' = TRUE
  /\ UNCHANGED <<pc, state, long32, copy, arming, uut, shots, aborted, acq400Vars>>

-----------------------------------------------------------------------------

Init ==
  /\ Unbuilt /\ pc = "new" /\ state = "state" /\ long32 = FALSE
  /\ nbuf = 0 /\ nread = 0 /\ nfile = 0 /\ short = FALSE
  /\ arming = FALSE /\ uut = "IDLE" /\ shots = 0 /\ aborted = FALSE /\ cut = FALSE

Program ==
  \/ Construct \/ GetData32 \/ SetTransient \/ SetArm \/ PollStart \/ PollIdle
  \/ GetShot \/ Read \/ Write
Shot == UutArms \/ UutTriggered \/ UutFinishes

Next == Program \/ Fatal \/ Shot \/ Abort \/ Cut

Spec == Init /\ [][Next]_vars

\* The program runs, and a UUT that was armed has its trigger.
FairSpec == Spec /\ WF_vars(Program) /\ WF_vars(Shot)

-----------------------------------------------------------------------------
(* Properties.                                                              *)

\* Every variable has its type, and no more is written than was read.
TypeOK ==
  /\ pc \in {"new", "data32", "transient", "set_arm", "wait_start", "wait_idle", "shot",
             "read", "write", "over", "failed"}
  /\ state \in {"state", "IDLE", "ARM", "RUN"} /\ uut \in {"IDLE", "ARM", "RUN"}
  /\ long32 \in BOOLEAN /\ arming \in BOOLEAN /\ aborted \in BOOLEAN /\ cut \in BOOLEAN
  /\ short \in BOOLEAN
  /\ nbuf \in 0..BufLen /\ nread \in 0..Bytes /\ nfile \in 0..nread
  /\ shots \in Nat

\* What capture() leaves for the upload is the shot that it armed, completed
\* behind its back, never the data of the shot before; unless someone aborted.
UploadsOwnShot == pc \in {"shot", "read", "write", "over"} => shots = 1 \/ aborted

\* A shot that one poll has seen is seen to its end.  (One that starts and ends
\* between two polls of the first loop is waited for without end.)
SeenShotEnds == pc = "wait_idle" ~> pc \in {"over", "failed"}

\* The shot is read to its last whole element, unless the connection broke, and
\* what was read is in the file, unless it could not be written.
UploadsAll ==
  pc = "over" /\ Uploads => (cut \/ Bytes - nread < Size) /\ (short \/ nfile = nread)
=============================================================================
