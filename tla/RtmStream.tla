----------------------------- MODULE RtmStream -----------------------------
(***************************************************************************)
(* scripts/awg_rtm_stream.sh: a UUT with outputs (AO) plays waveforms on   *)
(* its trigger, a UUT with inputs (AI) captures, and a background job of   *)
(* the script opens the trigger when the AI is armed.                      *)
(*                                                                         *)
(*   pc        what the script does next, in the order of its last lines;  *)
(*             "exit" is the EXIT trap, "ended" is past it                 *)
(*   pending   a SIGTERM has come, and its trap has not run                *)
(*   trig_pid, play_pid                                                    *)
(*             TRIGGER_PID and PLAY_PID are set                            *)
(*   job       prime_trigger's subshell: "none", "waiting" (for ARM),      *)
(*             "saw" (ARM; it has to open the trigger), "over"             *)
(*   player    acq400_stream_awg: "none", "running" or "over"              *)
(*   trigger   SIG:SRC:TRG:0 of the AO, "NONE" or "EXT"                    *)
(*   ai        CONTINUOUS:STATE of the AI: "IDLE", "ARM" or "RUN"          *)
(*   aborting  the AI has been told to abort and has not done it           *)
(*   closed    this script has set the trigger to NONE (history)           *)
(*   armed     the AI has armed since this script's abort (history)        *)
(*                                                                         *)
(* Each command to a UUT is one step that fails if the UUT does not        *)
(* answer; "set -e" then ends the script, or the job, that gave it.  Bash  *)
(* runs a trap when the command in the foreground has ended.  The script   *)
(* alone is signalled here, not its process group.                         *)
(***************************************************************************)
EXTENDS Naturals

VARIABLES pc, pending, trig_pid, play_pid, job, player,
          trigger, ai, aborting, closed, armed

script == <<pc, pending, trig_pid, play_pid>>
uuts   == <<trigger, ai, aborting, closed, armed>>
vars   == <<script, job, player, uuts>>

-----------------------------------------------------------------------------
(* The script.                                                              *)

At(p) == pc = p /\ ~pending

\* One command in the foreground: it succeeds, or set -e leaves the script.
Then(next) == pc' = next /\ UNCHANGED <<pending, trig_pid, play_pid>>
Fails == Then("exit")

WaitForReady ==
  /\ At("wait_for_ready")
  /\ Then("set_trigger_in") \/ Fails
  /\ UNCHANGED <<job, player, uuts>>

\* set_trigger_in $AO_UUT 'NONE'
SetTriggerNone ==
  /\ At("set_trigger_in")
  /\ \/ Then("abort_uut") /\ trigger' = "NONE" /\ closed' = TRUE
     \/ Fails /\ UNCHANGED <<trigger, closed>>
  /\ UNCHANGED <<job, player, ai, aborting, armed>>

AbortUut ==
  /\ At("abort_uut")
  /\ \/ Then("wait_for_state") /\ aborting' = (ai # "IDLE")
     \/ Fails /\ UNCHANGED aborting
  /\ UNCHANGED <<job, player, trigger, ai, closed, armed>>

\* wait_for_state $AI_UUT "IDLE"; the turns of its loop are left out.
SeesState_Any(state) == TRUE
SeesState(state) == ai = state

WaitForIdle ==
  /\ At("wait_for_state")
  /\ (SeesState("IDLE") /\ Then("config")) \/ Fails
  /\ UNCHANGED <<job, player, uuts>>

\* calculate_mask, config_ai, config_ao
Config ==
  /\ At("config")
  /\ Then("prime_trigger") \/ Fails
  /\ UNCHANGED <<job, player, uuts>>

\* A trap between the fork and TRIGGER_PID=$! has no process to kill, and the
\* script goes on: it may as well come before the fork.
PrimeTrigger_NoPid ==
  /\ At("prime_trigger")
  /\ job' = "waiting"
  /\ Then("play_waveforms")
  /\ UNCHANGED <<player, uuts>>
PrimeTrigger ==
  /\ At("prime_trigger")
  /\ job' = "waiting"
  /\ trig_pid' = TRUE
  /\ pc' = "play_waveforms"
  /\ UNCHANGED <<pending, play_pid, player, uuts>>

\* There are no waveforms, or the player starts.
PlayWaveforms ==
  /\ At("play_waveforms")
  /\ \/ Fails /\ UNCHANGED player
     \/ Then("play_pid") /\ player' = "running"
  /\ UNCHANGED <<job, uuts>>

\* PLAY_PID=$!
SetPlayPid ==
  /\ At("play_pid")
  /\ play_pid' = TRUE
  /\ pc' = "capture"
  /\ UNCHANGED <<pending, trig_pid, job, player, uuts>>

\* acq400_stream $AI_UUT | pv: it ends when the AI's stream does, whether or
\* not a signal waits for its trap.
CaptureEnds ==
  /\ pc = "capture"
  /\ Fails
  /\ UNCHANGED <<job, player, uuts>>

-----------------------------------------------------------------------------
(* cleanup.                                                                 *)

\* Under set -e it goes no further than the first child it has: wait returns
\* 143 for a child that was killed, and kill fails for one that is over.
KillsPlayer_IfReady == play_pid /\ trigger = "EXT"
KillsPlayer == play_pid
KillsJob == ~play_pid /\ trig_pid

Cleanup ==
  /\ player' = IF KillsPlayer THEN "over" ELSE player
  /\ job' = IF KillsJob THEN "over" ELSE job

\* trap cleanup INT TERM: with a child, it fails and ends the script, and with
\* none the script goes on.
TrapTerm ==
  /\ pending /\ pc \notin {"capture", "exit", "ended"}
  /\ pending' = FALSE
  /\ Cleanup
  /\ pc' = IF trig_pid \/ play_pid THEN "exit" ELSE pc
  /\ UNCHANGED <<trig_pid, play_pid, uuts>>

\* trap cleanup EXIT
TrapExit ==
  /\ pc = "exit"
  /\ pc' = "ended"
  /\ Cleanup
  /\ UNCHANGED <<pending, trig_pid, play_pid, uuts>>

-----------------------------------------------------------------------------
(* The background jobs.                                                     *)

\* prime_trigger: wait_for_state $AI_UUT "ARM" ...
JobAwaits_Run == "RUN"
JobAwaits == "ARM"
JobSeesArm ==
  /\ job = "waiting" /\ SeesState(JobAwaits)
  /\ job' = "saw"
  /\ UNCHANGED <<script, player, uuts>>

\* ... and set_trigger_in $AO_UUT 'EXT'
JobOpens ==
  /\ job = "saw"
  /\ trigger' = "EXT"
  /\ job' = "over"
  /\ UNCHANGED <<script, player, ai, aborting, closed, armed>>

\* A UUT does not answer.
JobFails ==
  /\ job \in {"waiting", "saw"}
  /\ job' = "over"
  /\ UNCHANGED <<script, player, uuts>>

PlayerFails ==
  /\ player = "running"
  /\ player' = "over"
  /\ UNCHANGED <<script, job, uuts>>

-----------------------------------------------------------------------------
(* The UUTs and the user (external).                                        *)

AiAborts ==
  /\ aborting
  /\ aborting' = FALSE /\ ai' = "IDLE"
  /\ UNCHANGED <<script, job, player, trigger, closed, armed>>

\* A client of the AI's stream port makes it arm.
AiArms ==
  /\ ai = "IDLE" /\ pc = "capture"
  /\ ai' = "ARM" /\ armed' = TRUE
  /\ UNCHANGED <<script, job, player, trigger, aborting, closed>>

\* The AI has its trigger from the AO.
AiTriggered ==
  /\ ai = "ARM" /\ trigger = "EXT"
  /\ ai' = "RUN"
  /\ UNCHANGED <<script, job, player, trigger, aborting, closed, armed>>

Term ==
  /\ ~pending /\ pc # "ended"
  /\ pending' = TRUE
  /\ UNCHANGED <<pc, trig_pid, play_pid, job, player, uuts>>

-----------------------------------------------------------------------------

Init ==
  /\ pc = "wait_for_ready" /\ pending = FALSE
  /\ trig_pid = FALSE /\ play_pid = FALSE
  /\ job = "none" /\ player = "none"
  /\ trigger \in {"NONE", "EXT"}
  /\ ai \in {"IDLE", "ARM", "RUN"}
  /\ aborting = FALSE /\ closed = FALSE /\ armed = FALSE

Script ==
  \/ WaitForReady \/ SetTriggerNone \/ AbortUut \/ WaitForIdle \/ Config
  \/ PrimeTrigger \/ PlayWaveforms \/ SetPlayPid \/ TrapTerm \/ TrapExit
Job == JobSeesArm \/ JobOpens

Next ==
  \/ Script \/ CaptureEnds \/ Job \/ JobFails \/ PlayerFails
  \/ AiAborts \/ AiArms \/ AiTriggered \/ Term

Spec == Init /\ [][Next]_vars

\* The subshell of prime_trigger asks again for as long as it lives.
FairSpec == Spec /\ WF_vars(Job)

-----------------------------------------------------------------------------
(* Properties.                                                              *)

\* Every variable has its type, and a PID is set only for a child there is.
TypeOK ==
  /\ pc \in {"wait_for_ready", "set_trigger_in", "abort_uut", "wait_for_state", "config",
             "prime_trigger", "play_waveforms", "play_pid", "capture", "exit", "ended"}
  /\ pending \in BOOLEAN /\ trig_pid \in BOOLEAN /\ play_pid \in BOOLEAN
  /\ job \in {"none", "waiting", "saw", "over"}
  /\ player \in {"none", "running", "over"}
  /\ trigger \in {"NONE", "EXT"} /\ ai \in {"IDLE", "ARM", "RUN"}
  /\ aborting \in BOOLEAN /\ closed \in BOOLEAN /\ armed \in BOOLEAN
  /\ trig_pid = (job # "none") /\ (play_pid => trig_pid /\ player # "none")

\* From the moment the script has closed the AO's trigger, it is open only when
\* the AI has armed for this capture: an ARM left from an earlier one is never
\* taken for it, however late the AI carries out its abort.
TriggerAfterArm == closed /\ trigger = "EXT" => armed

\* A script that has ended, after whatever failure or signal, has left no
\* player behind whose PID it knew.
PlayerKilled == pc = "ended" /\ play_pid => player # "running"

\* An AI that has armed gets its trigger, unless the job ends without it.
TriggerOpens == ai = "ARM" /\ armed ~> trigger = "EXT" \/ job = "over"

\* "# Kills subprocess at end" (awg_rtm_stream.sh:103)
SubprocessesKilled ==
  pc = "ended" => job \in {"none", "over"} /\ player # "running"
=============================================================================
