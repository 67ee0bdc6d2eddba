-------------------------- MODULE RtmStream_proofs --------------------------
(***************************************************************************)
(* The trigger of an RTM stream opens on the ARM of its own capture, and   *)
(* the player whose PID is known dies with the script.                     *)
(***************************************************************************)
EXTENDS RtmStream, TLAPS

-----------------------------------------------------------------------------
(* The inductive invariant.                                                 *)

Prepared == {"config", "prime_trigger", "play_waveforms", "play_pid"}
Started  == {"play_waveforms", "play_pid", "capture", "exit", "ended"}

\* The script goes on when it has seen the AI idle, and an AI that is idle has
\* no abort left to carry out: up to the capture nothing but idle follows.
AiInv ==
  /\ aborting => ai # "IDLE"
  /\ pc \in Prepared => ai = "IDLE"

\* Whatever the job sees is of this capture.
JobInv ==
  /\ job # "none" => pc \in Started /\ (ai # "IDLE" => armed)
  /\ job = "saw" => armed
  /\ pc \in {"play_waveforms", "play_pid", "capture"} => job # "none"

\* A PID that is set is that of a child.
PlayerInv ==
  /\ pc = "play_pid" => player # "none"
  /\ play_pid => player # "none" /\ job # "none"

IInv == TypeOK /\ AiInv /\ JobInv /\ PlayerInv /\ TriggerAfterArm /\ PlayerKilled


-----------------------------------------------------------------------------
(* Each part of it, step by step.                                           *)

\* A step keeps the types.
LEMMA TypeStep ==
  ASSUME TypeOK, AiInv, JobInv, PlayerInv, [Next]_vars
  PROVE  TypeOK'
  <1> DEFINE Places == {"wait_for_ready", "set_trigger_in", "abort_uut", "wait_for_state",
                        "config", "prime_trigger", "play_waveforms", "play_pid", "capture",
                        "exit", "ended"}
  <1>1. /\ pc' \in Places /\ job' \in {"none", "waiting", "saw", "over"}
        /\ player' \in {"none", "running", "over"}
        /\ trigger' \in {"NONE", "EXT"} /\ ai' \in {"IDLE", "ARM", "RUN"}
    BY Zenon
    DEF TypeOK, Next, Script, Job, WaitForReady, SetTriggerNone, AbortUut, WaitForIdle, Config,
        PrimeTrigger, PlayWaveforms, SetPlayPid, TrapTerm, TrapExit, CaptureEnds, JobSeesArm,
        JobOpens, JobFails, PlayerFails, AiAborts, AiArms, AiTriggered, Term, At, Then, Fails,
        Cleanup, script, uuts, vars
  <1>2. /\ pending' \in BOOLEAN /\ trig_pid' \in BOOLEAN /\ play_pid' \in BOOLEAN
        /\ aborting' \in BOOLEAN /\ closed' \in BOOLEAN /\ armed' \in BOOLEAN
    BY Zenon
    DEF TypeOK, Next, Script, Job, WaitForReady, SetTriggerNone, AbortUut, WaitForIdle, Config,
        PrimeTrigger, PlayWaveforms, SetPlayPid, TrapTerm, TrapExit, CaptureEnds, JobSeesArm,
        JobOpens, JobFails, PlayerFails, AiAborts, AiArms, AiTriggered, Term, At, Then, Fails,
        script, uuts, vars
  <1>3. trig_pid' = (job' # "none")
    BY Zenon
    DEF TypeOK, Next, Script, Job, WaitForReady, SetTriggerNone, AbortUut, WaitForIdle, Config,
        PrimeTrigger, PlayWaveforms, SetPlayPid, TrapTerm, TrapExit, CaptureEnds, JobSeesArm,
        JobOpens, JobFails, PlayerFails, AiAborts, AiArms, AiTriggered, Term, At, Then, Fails,
        Cleanup, KillsJob, script, uuts, vars
  <1>4. play_pid' => trig_pid' /\ player' # "none"
    BY Zenon
    DEF TypeOK, PlayerInv, JobInv, Next, Script, Job, WaitForReady, SetTriggerNone, AbortUut,
        WaitForIdle, Config, PrimeTrigger, PlayWaveforms, SetPlayPid, TrapTerm, TrapExit,
        CaptureEnds, JobSeesArm, JobOpens, JobFails, PlayerFails, AiAborts, AiArms, AiTriggered,
        Term, At, Then, Fails, Cleanup, script, uuts, vars
  <1> QED BY <1>1, <1>2, <1>3, <1>4, Zenon DEF TypeOK


\* Only these have to do with the AI; every other step leaves it alone.
LEMMA AiStep ==
  ASSUME TypeOK, AiInv, [Next]_vars
  PROVE  AiInv'
  <1>1. CASE AbortUut
    <2>1. pc' \notin Prepared
      BY <1>1 DEF AbortUut, Then, Fails, Prepared
    <2>2. aborting' => ai' # "IDLE"
      BY <1>1, Zenon DEF AiInv, AbortUut
    <2> QED BY <2>1, <2>2, Zenon DEF AiInv
  <1>2. CASE WaitForIdle
    BY <1>2, Zenon DEF AiInv, WaitForIdle, SeesState, At, Then, Fails, Prepared, uuts
  <1>3. CASE AiAborts
    BY <1>3, Zenon DEF AiInv, AiAborts, script
  <1>4. CASE AiArms
    <2>1. pc' \notin Prepared
      BY <1>4 DEF AiArms, script, Prepared
    <2> QED BY <1>4, <2>1, Zenon DEF AiInv, AiArms
  <1>5. CASE AiTriggered
    <2>1. ai = "ARM" /\ ai' = "RUN" /\ pc' = pc
      BY <1>5, Zenon DEF AiTriggered, script
    <2> QED BY <2>1 DEF AiInv
  <1>6. CASE ~(AbortUut \/ WaitForIdle \/ AiAborts \/ AiArms \/ AiTriggered)
    <2>1. UNCHANGED <<ai, aborting>>
      BY <1>6, Zenon
      DEF Next, Script, Job, WaitForReady, SetTriggerNone, Config, PrimeTrigger, PlayWaveforms,
          SetPlayPid, TrapTerm, TrapExit, CaptureEnds, JobSeesArm, JobOpens, JobFails,
          PlayerFails, Term, uuts, vars
    <2>2. pc' \in Prepared => pc \in Prepared
      BY <1>6
      DEF Next, Script, Job, WaitForReady, SetTriggerNone, Config, PrimeTrigger, PlayWaveforms,
          SetPlayPid, TrapTerm, TrapExit, CaptureEnds, JobSeesArm, JobOpens, JobFails,
          PlayerFails, Term, At, Then, Fails, Prepared, script, vars
    <2> QED BY <2>1, <2>2, Zenon DEF AiInv
  <1> QED BY <1>1, <1>2, <1>3, <1>4, <1>5, <1>6

\* The job is forked when the AI is known to be idle, and sees it armed only
\* when it has armed since.
LEMMA JobStep ==
  ASSUME TypeOK, AiInv, JobInv, [Next]_vars
  PROVE  JobInv'
  <1>1. CASE PrimeTrigger
    <2>1. /\ pc = "prime_trigger" /\ ai' = ai /\ job' = "waiting" /\ pc' = "play_waveforms"
      BY <1>1, Zenon DEF PrimeTrigger, At, uuts
    <2>2. ai = "IDLE"
      BY <2>1 DEF AiInv, Prepared
    <2> QED BY <2>1, <2>2 DEF JobInv, Started
  <1>2. CASE AiArms
    <2>1. armed' /\ UNCHANGED <<pc, job>>
      BY <1>2, Zenon DEF AiArms, script
    <2> QED BY <2>1, Zenon DEF JobInv
  <1>3. CASE AiAborts \/ AiTriggered
    <2>1. /\ UNCHANGED <<pc, job, armed>> /\ (ai' = "IDLE" \/ ai = "ARM")
          /\ (ai' = "IDLE" \/ ai # "IDLE")
      BY <1>3 DEF AiAborts, AiTriggered, script
    <2> QED BY <1>3, <2>1, Zenon DEF JobInv, AiAborts, AiTriggered, script
  <1>4. CASE JobSeesArm
    <2>1. /\ job = "waiting" /\ ai = "ARM" /\ job' = "saw" /\ UNCHANGED <<pc, ai, armed>>
      BY <1>4, Zenon DEF JobSeesArm, SeesState, JobAwaits, script, uuts
    <2>2. armed
      BY <2>1 DEF JobInv
    <2> QED BY <2>1, <2>2 DEF JobInv
  <1>5. CASE \/ WaitForReady \/ SetTriggerNone \/ AbortUut \/ WaitForIdle \/ Config
             \/ PlayWaveforms \/ SetPlayPid \/ CaptureEnds
    <2>1. UNCHANGED <<job, ai, armed>>
      BY <1>5, Zenon
      DEF WaitForReady, SetTriggerNone, AbortUut, WaitForIdle, Config, PlayWaveforms,
          SetPlayPid, CaptureEnds, uuts
    <2>2. /\ pc \in Started => pc' \in Started
          /\ pc' \in {"play_waveforms", "play_pid", "capture"} => pc \in {"play_waveforms", "play_pid"}
      BY <1>5
      DEF WaitForReady, SetTriggerNone, AbortUut, WaitForIdle, Config, PlayWaveforms,
          SetPlayPid, CaptureEnds, At, Then, Fails, Started
    <2> QED BY <2>1, <2>2, Zenon DEF JobInv
  <1>6. CASE TrapTerm \/ TrapExit
    <2>1. /\ UNCHANGED <<ai, armed>> /\ (job' = job \/ (job' = "over" /\ trig_pid))
      BY <1>6, Zenon DEF TrapTerm, TrapExit, Cleanup, KillsJob, uuts
    <2>2. /\ pc \in Started => pc' \in Started
          /\ pc' \in {"play_waveforms", "play_pid", "capture"} => pc' = pc
      BY <1>6 DEF TrapTerm, TrapExit, Started
    <2>3. trig_pid => job # "none"
      BY Zenon DEF TypeOK
    <2> QED BY <2>1, <2>2, <2>3, Zenon DEF JobInv
  <1>7. CASE JobOpens \/ JobFails \/ PlayerFails \/ Term \/ UNCHANGED vars
    <2>1. UNCHANGED <<pc, ai, armed>> /\ (job' = job \/ (job' = "over" /\ job # "none"))
      BY <1>7 DEF JobOpens, JobFails, PlayerFails, Term, script, uuts, vars
    <2> QED BY <2>1, Zenon DEF JobInv
  <1> QED BY <1>1, <1>2, <1>3, <1>4, <1>5, <1>6, <1>7 DEF Next, Script, Job

\* A step keeps PlayerInv: a PID is set only behind the start of its child.
LEMMA PlayerStep ==
  ASSUME TypeOK, JobInv, PlayerInv, [Next]_vars
  PROVE  PlayerInv'
  <1>1. player # "none" => player' # "none"
    BY Zenon
    DEF Next, Script, Job, WaitForReady, SetTriggerNone, AbortUut, WaitForIdle, Config,
        PrimeTrigger, PlayWaveforms, SetPlayPid, TrapTerm, TrapExit, CaptureEnds, JobSeesArm,
        JobOpens, JobFails, PlayerFails, AiAborts, AiArms, AiTriggered, Term, Cleanup, vars
  <1>2. job # "none" => job' # "none"
    BY Zenon
    DEF Next, Script, Job, WaitForReady, SetTriggerNone, AbortUut, WaitForIdle, Config,
        PrimeTrigger, PlayWaveforms, SetPlayPid, TrapTerm, TrapExit, CaptureEnds, JobSeesArm,
        JobOpens, JobFails, PlayerFails, AiAborts, AiArms, AiTriggered, Term, Cleanup, vars
  <1>3. pc' = "play_pid" => pc = "play_pid" \/ player' # "none"
    BY Zenon
    DEF Next, Script, Job, WaitForReady, SetTriggerNone, AbortUut, WaitForIdle, Config,
        PrimeTrigger, PlayWaveforms, SetPlayPid, TrapTerm, TrapExit, CaptureEnds, JobSeesArm,
        JobOpens, JobFails, PlayerFails, AiAborts, AiArms, AiTriggered, Term, At, Then, Fails,
        script, vars
  <1>4. play_pid' = play_pid \/ pc = "play_pid"
    BY Zenon
    DEF Next, Script, Job, WaitForReady, SetTriggerNone, AbortUut, WaitForIdle, Config,
        PrimeTrigger, PlayWaveforms, SetPlayPid, TrapTerm, TrapExit, CaptureEnds, JobSeesArm,
        JobOpens, JobFails, PlayerFails, AiAborts, AiArms, AiTriggered, Term, At, Then, Fails,
        script, vars
  <1>5. pc = "play_pid" => player # "none" /\ job # "none"
    BY DEF PlayerInv, JobInv
  <1>6. play_pid => player # "none" /\ job # "none"
    BY Zenon DEF PlayerInv
  <1>7. pc' = "play_pid" => player' # "none"
    BY <1>1, <1>3, <1>5
  <1>8. ASSUME play_pid' PROVE player' # "none" /\ job' # "none"
    <2>1. CASE play_pid' = play_pid
      BY <1>1, <1>2, <1>6, <1>8, <2>1, Zenon
    <2>2. CASE pc = "play_pid"
      BY <1>1, <1>2, <1>5, <2>2, Zenon
    <2> QED BY <1>4, <2>1, <2>2
  <1> QED BY <1>7, <1>8, Zenon DEF PlayerInv

\* The job is the only one that opens the trigger.
LEMMA TriggerStep ==
  ASSUME TypeOK, JobInv, TriggerAfterArm, [Next]_vars
  PROVE  TriggerAfterArm'
  <1>1. CASE SetTriggerNone
    <2>1. trigger' = "NONE" \/ UNCHANGED <<trigger, closed>>
      BY <1>1, Zenon DEF SetTriggerNone
    <2>2. armed' = armed
      BY <1>1, Zenon DEF SetTriggerNone
    <2> QED BY <2>1, <2>2, Zenon DEF TriggerAfterArm
  <1>2. CASE JobOpens
    BY <1>2, Zenon DEF JobOpens, JobInv, TriggerAfterArm
  <1>3. CASE ~(SetTriggerNone \/ JobOpens)
    <2>1. UNCHANGED <<trigger, closed>> /\ (armed' = armed \/ armed')
      BY <1>3, Zenon
      DEF Next, Script, Job, WaitForReady, AbortUut, WaitForIdle, Config, PrimeTrigger,
          PlayWaveforms, SetPlayPid, TrapTerm, TrapExit, CaptureEnds, JobSeesArm, JobFails,
          PlayerFails, AiAborts, AiArms, AiTriggered, Term, uuts, vars
    <2> QED BY <2>1, Zenon DEF TriggerAfterArm
  <1> QED BY <1>1, <1>2, <1>3

\* A step keeps PlayerKilled: the trap kills the player before the script ends.
LEMMA KilledStep ==
  ASSUME PlayerKilled, [Next]_vars
  PROVE  PlayerKilled'
  <1>1. CASE TrapExit
    BY <1>1, Zenon DEF TrapExit, Cleanup, KillsPlayer, PlayerKilled
  <1>2. CASE pc = "ended" /\ ~TrapExit
    <2>1. UNCHANGED <<pc, play_pid>> /\ (player' = player \/ player' = "over")
      BY <1>2, Zenon
      DEF Next, Script, Job, WaitForReady, SetTriggerNone, AbortUut, WaitForIdle, Config,
          PrimeTrigger, PlayWaveforms, SetPlayPid, TrapTerm, CaptureEnds, JobSeesArm, JobOpens,
          JobFails, PlayerFails, AiAborts, AiArms, AiTriggered, Term, At, script, vars
    <2> QED BY <2>1, Zenon DEF PlayerKilled
  <1>3. CASE pc # "ended" /\ ~TrapExit
    <2>1. pc' # "ended"
      BY <1>3, Zenon
      DEF Next, Script, Job, WaitForReady, SetTriggerNone, AbortUut, WaitForIdle, Config,
          PrimeTrigger, PlayWaveforms, SetPlayPid, TrapTerm, CaptureEnds, JobSeesArm, JobOpens,
          JobFails, PlayerFails, AiAborts, AiArms, AiTriggered, Term, At, Then, Fails, script,
          vars
    <2> QED BY <2>1 DEF PlayerKilled
  <1> QED BY <1>1, <1>2, <1>3

-----------------------------------------------------------------------------
(* What follows.                                                            *)

\* The invariant holds at the beginning.
LEMMA InitInv == Init => IInv
  <1> SUFFICES ASSUME Init PROVE IInv
    OBVIOUS
  <1>1. TypeOK
    BY Zenon DEF Init, TypeOK
  <1>2. AiInv /\ JobInv /\ PlayerInv /\ TriggerAfterArm /\ PlayerKilled
    BY DEF Init, AiInv, JobInv, PlayerInv, TriggerAfterArm, PlayerKilled, Prepared
  <1> QED BY <1>1, <1>2, Zenon DEF IInv

\* The invariant holds in every state of the script, its jobs and the UUTs.
THEOREM Inductive == Spec => []IInv
  <1>1. IInv /\ [Next]_vars => IInv'
    BY TypeStep, AiStep, JobStep, PlayerStep, TriggerStep, KilledStep, Zenon DEF IInv
  <1> QED BY InitInv, <1>1, PTL DEF Spec

\* Every variable has its type, and a PID is set only for a child there is.
THEOREM TypeCorrect == Spec => []TypeOK
  <1>1. IInv => TypeOK
    BY Zenon DEF IInv
  <1> QED BY <1>1, Inductive, PTL

\* Once the script has closed the trigger it opens for this capture's ARM only,
\* with any number of commands failing and traps running in between.
THEOREM OpensAfterArm == Spec => []TriggerAfterArm
  <1>1. IInv => TriggerAfterArm
    BY Zenon DEF IInv
  <1> QED BY <1>1, Inductive, PTL

\* A script that has ended has killed the player whose PID it knew.
THEOREM PlayerDies == Spec => []PlayerKilled
  <1>1. IInv => PlayerKilled
    BY Zenon DEF IInv
  <1> QED BY <1>1, Inductive, PTL

=============================================================================
