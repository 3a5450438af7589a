------------------------------ MODULE ToolRunner ------------------------------
(***************************************************************************)
(* DeterministicToolRunner.run: one "tools run" command, the process of    *)
(* the tool it starts in a session of its own, and the kill switch.  The   *)
(* gateway's decision is that of module Gateway, here one step whose       *)
(* inputs are the tool's policy facts, the switch and the state of the     *)
(* rate limiter.  The tool's own requests go through the proxy and are     *)
(* calls of module Gateway.                                                *)
(***************************************************************************)
EXTENDS Naturals

CONSTANTS Tools  \* what the command may be asked to run, see Runnable

ASSUME ToolsAssumption == \A t \in Tools : t.permitted \in BOOLEAN /\ t.runnable \in BOOLEAN

VARIABLES
  pc,        \* where run is
  tool,      \* the tool and target it was asked to run
  pace,      \* the rate limiter's next answer: "free", "wait", "unsafe" or "spent"
  kill,      \* KillSwitch.tripped()
  child,     \* the tool's process: "none", "running", "exited" or "reaped"
  signal,    \* strongest signal sent to its process group
  overtime,  \* timeout_seconds have passed since the start
  killed,    \* local variables of run
  timedOut,
  receipt,   \* "none", "ready" or "denied"
  evidence   \* "none" or the tool_observation record

VARIABLES    \* observer's notes
  trippedSince, \* the switch was tripped at some time while the tool ran
  ended,        \* how the tool ended: "none" yet, "signalled", by "itself", or by
                \* itself "unseen", after the loop last found it running
  cut           \* the command was interrupted or its process died

decision == <<tool, pace, receipt>>
process == <<child, signal, overtime>>
flags == <<killed, timedOut>>
vars == <<pc, tool, pace, kill, child, signal, overtime, killed, timedOut, receipt,
          evidence, trippedSince, ended, cut>>

PC == {"start", "authorize", "sleep", "deny", "receipt", "live", "spawn", "poll",
       "check", "wait", "force", "collect", "done", "failed"}
Over == {"done", "failed"}
NoRecord == [killed |-> FALSE, timedOut |-> FALSE, recorded |-> FALSE]

Init ==
  /\ pc = "start"
  /\ tool \in Tools
  /\ pace \in {"free", "wait", "unsafe", "spent"}
  /\ kill \in BOOLEAN
  /\ child = "none"
  /\ signal = "none"
  /\ overtime = FALSE
  /\ killed = FALSE
  /\ timedOut = FALSE
  /\ receipt = "none"
  /\ evidence = NoRecord
  /\ trippedSince = FALSE
  /\ ended = "none"
  /\ cut = FALSE

-----------------------------------------------------------------------------
(* Before the tool exists.                                                 *)

\* Active testing on, a proxy adapter, an HTTP target in scope, a loopback
\* proxy and an installed binary: tool.runnable; otherwise ToolExecutionBlocked.
Validate ==
  /\ pc = "start"
  /\ pc' = IF tool.runnable THEN "authorize" ELSE "failed"
  /\ UNCHANGED <<decision, kill, process, flags, evidence, trippedSince, ended, cut>>

\* Mutant: an answer that asks to wait is taken for a ready one.
AuthorizeImpatient ==
  /\ pc = "authorize"
  /\ pc' = IF kill \/ ~tool.permitted \/ pace = "spent" THEN "deny"
           ELSE IF pace = "unsafe" THEN "failed"
           ELSE "receipt"
  /\ UNCHANGED <<decision, kill, process, flags, evidence, trippedSince, ended, cut>>

\* gateway.authorize and the loop around it.  A wait beyond 60 s raises and
\* leaves no receipt, as in HttpExecutor.execute.
Authorize ==
  /\ pc = "authorize"
  /\ pc' = IF kill \/ ~tool.permitted \/ pace = "spent" THEN "deny"
           ELSE IF pace = "unsafe" THEN "failed"
           ELSE IF pace = "wait" THEN "sleep"
           ELSE "receipt"
  /\ UNCHANGED <<decision, kill, process, flags, evidence, trippedSince, ended, cut>>

\* time.sleep for as long as the limiter asked.
Sleep ==
  /\ pc = "sleep"
  /\ pace' = "free"
  /\ pc' = "authorize"
  /\ UNCHANGED <<tool, receipt, kill, process, flags, evidence, trippedSince, ended, cut>>

RecordDenied ==
  /\ pc = "deny"
  /\ receipt' = "denied"
  /\ pc' = "failed"
  /\ UNCHANGED <<tool, pace, kill, process, flags, evidence, trippedSince, ended, cut>>

RecordReady ==
  /\ pc = "receipt"
  /\ receipt' = "ready"
  /\ pc' = "live"
  /\ UNCHANGED <<tool, pace, kill, process, flags, evidence, trippedSince, ended, cut>>

AssertLive ==
  /\ pc = "live"
  /\ pc' = IF kill THEN "failed" ELSE "spawn"
  /\ UNCHANGED <<decision, kill, process, flags, evidence, trippedSince, ended, cut>>

\* subprocess.Popen in a new session, so that a terminal's interrupt does not
\* reach the tool.
Spawn ==
  /\ pc = "spawn"
  /\ child' = "running"
  /\ trippedSince' = kill
  /\ pc' = "poll"
  /\ UNCHANGED <<decision, kill, signal, overtime, flags, evidence, ended, cut>>

-----------------------------------------------------------------------------
(* While the tool runs.                                                    *)

\* Mutant: the switch and the clock may be looked at before the tool is polled.
LookFirst ==
  /\ pc = "poll"
  /\ \/ child = "exited" /\ child' = "reaped" /\ pc' = "wait"
     \/ pc' = "check" /\ UNCHANGED child
  /\ UNCHANGED <<decision, kill, signal, overtime, flags, evidence, trippedSince, ended, cut>>

\* process.poll() reaps a tool that has exited; then wait returns at once.
Poll ==
  /\ pc = "poll"
  /\ \/ child = "exited" /\ child' = "reaped" /\ pc' = "wait"
     \/ child = "running" /\ pc' = "check" /\ UNCHANGED child
  /\ UNCHANGED <<decision, kill, signal, overtime, flags, evidence, trippedSince, ended, cut>>

\* Mutant: the loop looks at the switch only.
CheckSwitchOnly ==
  /\ pc = "check"
  /\ killed' = kill
  /\ timedOut' = FALSE
  /\ signal' = IF kill THEN "term" ELSE signal
  /\ pc' = IF kill THEN "wait" ELSE "poll"
  /\ UNCHANGED <<decision, kill, child, overtime, evidence, trippedSince, ended, cut>>

\* The switch, then the clock: SIGTERM to the group and out of the loop, or
\* a tenth of a second of sleep.
Check ==
  /\ pc = "check"
  /\ killed' = kill
  /\ timedOut' = (~kill /\ overtime)
  /\ signal' = IF kill \/ overtime THEN "term" ELSE signal
  /\ pc' = IF kill \/ overtime THEN "wait" ELSE "poll"
  /\ UNCHANGED <<decision, kill, child, overtime, evidence, trippedSince, ended, cut>>

Gone == child \in {"exited", "reaped"}

\* Mutant: SIGTERM is all the tool ever gets.
WaitTwice ==
  /\ pc = "wait"
  /\ \/ Gone /\ child' = "reaped" /\ pc' = "collect"
     \/ ~Gone /\ pc' = "force" /\ UNCHANGED child
  /\ UNCHANGED <<decision, kill, signal, overtime, flags, evidence, trippedSince, ended, cut>>

\* process.wait(timeout=2): the tool is reaped, or SIGKILL follows.
Wait ==
  /\ pc = "wait"
  /\ \/ Gone /\ child' = "reaped" /\ pc' = "collect" /\ UNCHANGED signal
     \/ ~Gone /\ signal' = "kill" /\ pc' = "force" /\ UNCHANGED child
  /\ UNCHANGED <<decision, kill, overtime, flags, evidence, trippedSince, ended, cut>>

\* The second wait: a tool stuck in the kernel outlives it and TimeoutExpired
\* leaves run without an observation.
ForceStop ==
  /\ pc = "force"
  /\ \/ Gone /\ child' = "reaped" /\ pc' = "collect"
     \/ ~Gone /\ pc' = "failed" /\ UNCHANGED child
  /\ UNCHANGED <<decision, kill, signal, overtime, flags, evidence, trippedSince, ended, cut>>

RecordObservation ==
  /\ pc = "collect"
  /\ evidence' = [killed |-> killed, timedOut |-> timedOut, recorded |-> TRUE]
  /\ pc' = "done"
  /\ UNCHANGED <<decision, kill, process, flags, trippedSince, ended, cut>>

\* The receipt log, Popen or the evidence log raises OSError.
StorageFault ==
  /\ pc \in {"deny", "receipt", "spawn", "collect"}
  /\ pc' = "failed"
  /\ UNCHANGED <<decision, kill, process, flags, evidence, trippedSince, ended, cut>>

\* KeyboardInterrupt or the death of the command; nobody stops the tool.
Interrupt ==
  /\ pc \notin Over
  /\ pc' = "failed"
  /\ cut' = TRUE
  /\ UNCHANGED <<decision, kill, process, flags, evidence, trippedSince, ended>>

-----------------------------------------------------------------------------
(* The tool, the operator and the clock.                                   *)

\* The tool ends of itself or by a signal.
Exit ==
  /\ child = "running"
  /\ child' = "exited"
  /\ ended' = IF signal # "none" THEN "signalled"
              ELSE IF pc = "check" THEN "unseen" ELSE "itself"
  /\ UNCHANGED <<pc, decision, kill, signal, overtime, flags, evidence, trippedSince, cut>>

Deadline ==
  /\ child # "none" /\ ~overtime
  /\ overtime' = TRUE
  /\ UNCHANGED <<pc, decision, kill, child, signal, flags, evidence, trippedSince, ended, cut>>

TripKill ==
  /\ ~kill
  /\ kill' = TRUE
  /\ trippedSince' = (trippedSince \/ child = "running")
  /\ UNCHANGED <<pc, decision, process, flags, evidence, ended, cut>>

ClearKill ==
  /\ kill
  /\ kill' = FALSE
  /\ UNCHANGED <<pc, decision, process, flags, evidence, trippedSince, ended, cut>>

-----------------------------------------------------------------------------
RunStep ==
  \/ Validate \/ Authorize \/ Sleep \/ RecordDenied \/ RecordReady
  \/ AssertLive \/ Spawn \/ Poll \/ Check \/ Wait \/ ForceStop \/ RecordObservation

Next ==
  \/ RunStep \/ StorageFault \/ Interrupt
  \/ Exit \/ Deadline \/ TripKill \/ ClearKill

Spec == Init /\ [][Next]_vars

\* The command's steps are taken, time passes, and SIGKILL ends the tool in
\* the end; that it ever ends otherwise is not assumed.
FairSpec ==
  /\ Spec
  /\ WF_vars(RunStep)
  /\ WF_vars(Deadline)
  /\ WF_vars(signal = "kill" /\ Exit)

-----------------------------------------------------------------------------
(* Properties.                                                             *)

\* Type invariant of the command and of the tool's process; the loop is left
\* for one reason.
TypeOK ==
  /\ pc \in PC
  /\ tool \in Tools
  /\ pace \in {"free", "wait", "unsafe", "spent"}
  /\ child \in {"none", "running", "exited", "reaped"}
  /\ signal \in {"none", "term", "kill"}
  /\ \A flag \in {kill, overtime, killed, timedOut, trippedSince, cut} : flag \in BOOLEAN
  /\ ~(killed /\ timedOut)
  /\ ended \in {"none", "itself", "unseen", "signalled"}
  /\ receipt \in {"none", "ready", "denied"}
  /\ evidence \in [killed : BOOLEAN, timedOut : BOOLEAN, recorded : BOOLEAN]

\* A tool is only ever started with a ready receipt on disk, for a target and
\* a tool the policy permits, and within budget and pace, although the gates
\* were passed some steps and perhaps a sleep earlier.
StartedWithReceipt ==
  child # "none" =>
    /\ receipt = "ready"
    /\ tool.runnable /\ tool.permitted
    /\ pace = "free"

\* An observation is of a tool that is gone.  An unmarked one is of a tool that
\* ended by itself; a marked one of a tool that ended under a signal, for the
\* switch only if that was tripped while the tool ran, for the clock only if its
\* time was over.  One exception: a tool that ends by itself after poll found it
\* running, and before the switch and the clock are looked at, is marked if the
\* switch is tripped or the time is over by then; what ended before that poll is
\* never marked.
ObservationIsFinal ==
  evidence.recorded =>
    /\ child = "reaped"
    /\ ~evidence.killed /\ ~evidence.timedOut => ended \in {"itself", "unseen"}
    /\ evidence.killed \/ evidence.timedOut => ended \in {"signalled", "unseen"}
    /\ evidence.killed => trippedSince \/ ended = "unseen"
    /\ evidence.timedOut => overtime

\* The command ends, whatever the tool does: no timeout, signal or kill switch
\* leaves it waiting for ever.
RunEnds == <>(pc \in Over)

\* A tripped switch, or its timeout, ends the tool even if it ignores SIGTERM;
\* only a command that was itself cut short leaves its tool running.
ToolEnds == child = "running" ~> (child # "running" \/ cut)
=============================================================================
