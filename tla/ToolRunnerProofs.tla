--------------------------- MODULE ToolRunnerProofs ---------------------------
(***************************************************************************)
(* Safety of ToolRunner for any set of tools and any order of events.      *)
(***************************************************************************)
EXTENDS ToolRunner, TLAPS

Before == {"start", "authorize", "sleep", "deny", "receipt", "live", "spawn"}
Watching == {"poll", "check"}
Ending == {"wait", "force", "collect"}

\* Before the tool is started there is no process to speak of; the receipt is
\* written for a permitted tool, in pace, and what was decided stays.
StartInv ==
  /\ pc \in Before => /\ child = "none" /\ signal = "none"
                      /\ ~killed /\ ~timedOut /\ ~evidence.recorded
  /\ pc \in Watching \cup Ending => child # "none" /\ ~evidence.recorded
  /\ pc \in {"authorize", "sleep", "deny"} => tool.runnable
  /\ pc \in {"receipt", "live", "spawn"} => tool.runnable /\ tool.permitted /\ pace = "free"
  /\ pc \in {"live", "spawn"} => receipt = "ready"
  /\ StartedWithReceipt

\* The loop is left unsignalled only when the tool is gone, and its flags say
\* why it was signalled; a tool whose end poll saw was not signalled.
EndInv ==
  /\ child = "running" /\ kill => trippedSince
  /\ child \in {"none", "running"} <=> ended = "none"
  /\ ended = "signalled" => signal # "none"
  /\ pc \in Watching => signal = "none" /\ ~killed /\ ~timedOut
  /\ pc = "check" => ended \in {"none", "unseen"}
  /\ pc \in Ending => /\ killed => trippedSince \/ ended = "unseen"
                      /\ timedOut => overtime
                      /\ killed \/ timedOut <=> signal # "none"
                      /\ signal # "none" => ended # "itself"
  /\ pc = "wait" /\ signal = "none" => child = "reaped"
  /\ pc = "force" => signal = "kill"
  /\ pc = "collect" => child = "reaped"
  /\ pc = "done" => evidence.recorded
  /\ ObservationIsFinal

\* Type correctness is inductive with the two.
Inv == TypeOK /\ StartInv /\ EndInv

\* The initial states satisfy the inductive invariant.
LEMMA InitInv == Init => Inv
<1> SUFFICES ASSUME Init PROVE Inv
  OBVIOUS
<1>1. TypeOK
  BY ToolsAssumption DEF Init, TypeOK, PC, NoRecord
<1>2. StartInv
  BY DEF Init, StartInv, Before, Watching, Ending, StartedWithReceipt, NoRecord
<1>3. EndInv
  BY DEF Init, EndInv, Watching, Ending, ObservationIsFinal, NoRecord
<1> QED BY <1>1, <1>2, <1>3 DEF Inv

\* One step per action.
LEMMA StepInv == Inv /\ [Next]_vars => Inv'
<1> SUFFICES ASSUME Inv, [Next]_vars PROVE Inv'
  OBVIOUS
<1> USE ToolsAssumption
<1> USE DEF Inv, TypeOK, PC, StartInv, EndInv, Before, Watching, Ending,
            StartedWithReceipt, ObservationIsFinal, decision, process, flags
<1>1. CASE Validate  BY <1>1 DEF Validate
<1>2. CASE Authorize  BY <1>2 DEF Authorize
<1>3. CASE Sleep  BY <1>3 DEF Sleep
<1>4. CASE RecordDenied  BY <1>4 DEF RecordDenied
<1>5. CASE RecordReady  BY <1>5 DEF RecordReady
<1>6. CASE AssertLive  BY <1>6 DEF AssertLive
<1>7. CASE Spawn  BY <1>7 DEF Spawn
<1>8. CASE Poll  BY <1>8 DEF Poll
<1>9. CASE Check  BY <1>9 DEF Check
<1>10. CASE Wait  BY <1>10 DEF Wait, Gone
<1>11. CASE ForceStop  BY <1>11 DEF ForceStop, Gone
<1>12. CASE RecordObservation  BY <1>12 DEF RecordObservation
<1>13. CASE StorageFault  BY <1>13 DEF StorageFault
<1>14. CASE Interrupt  BY <1>14 DEF Interrupt, Over
<1>15. CASE Exit  BY <1>15 DEF Exit
<1>16. CASE Deadline  BY <1>16 DEF Deadline
<1>17. CASE TripKill  BY <1>17 DEF TripKill
<1>18. CASE ClearKill
  <2>1. TypeOK'  BY <1>18 DEF ClearKill
  <2>2. StartInv'  BY <1>18 DEF ClearKill
  <2>3. EndInv'  BY <1>18 DEF ClearKill
  <2> QED BY <2>1, <2>2, <2>3
<1>19. CASE UNCHANGED vars  BY <1>19 DEF vars
<1> QED
  BY <1>1, <1>2, <1>3, <1>4, <1>5, <1>6, <1>7, <1>8, <1>9, <1>10, <1>11, <1>12, <1>13,
     <1>14, <1>15, <1>16, <1>17, <1>18, <1>19 DEF Next, RunStep

\* So every reachable state does.
LEMMA Invariant == Spec => []Inv
<1> QED BY InitInv, StepInv, PTL DEF Spec

\* A tool is only started with a ready receipt, permitted and in pace.
THEOREM StartedWithReceiptHolds == Spec => []StartedWithReceipt
<1>1. Inv => StartedWithReceipt
  BY DEF Inv, StartInv
<1> QED BY <1>1, Invariant, PTL

\* An observation is of a tool that is gone and marks one that ended by itself
\* only if it did so unseen, between a poll and the looks that follow it, for
\* every order of exit, signals, kill switch, deadline, faults and interrupts.
THEOREM ObservationIsFinalHolds == Spec => []ObservationIsFinal
<1>1. Inv => ObservationIsFinal
  BY DEF Inv, EndInv
<1> QED BY <1>1, Invariant, PTL
=============================================================================
