----------------------------- MODULE GatewayProofs -----------------------------
(***************************************************************************)
(* Proofs of the safety properties of GatewayProps, for every set of       *)
(* calls and requests, every engagement, and all limits; then those of the *)
(* proxy, which runs execute as module Gateway has it.  Nothing before the *)
(* last part rests on Proxy or on what it assumes of its constants.        *)
(***************************************************************************)
EXTENDS ProxyProps, FiniteSetTheorems, TLAPS

-----------------------------------------------------------------------------
(* Types.  TypeOK bounds the semaphore by MaxConcurrent, which rests on    *)
(* SlotConservation; Types leaves that bound out and is inductive alone.   *)

Types ==
  /\ pc \in [Calls -> PC]
  /\ req \in [Calls -> Requests \cup {NoRequest}]
  /\ count \in 0..MaxRequests
  /\ since \in 0..Interval
  /\ sleep \in [Calls -> 0..Interval]
  /\ slots \in Nat
  /\ kill \in BOOLEAN
  /\ crashes \in 0..MaxCrashes
  /\ receipts \in [Calls -> {"none", "ready", "denied"}]
  /\ evidence \in [Calls -> {"none", "ok", "error"}]
  /\ granted \in SUBSET Calls
  /\ sent \in SUBSET Calls
  /\ sentKilled \in Nat
  /\ faults \in SUBSET Calls
  /\ clock \in 0..Horizon

\* The limits are natural numbers, and so is their product.
LEMMA Numbers ==
  /\ MaxRequests \in Nat \ {0}
  /\ MaxConcurrent \in Nat \ {0}
  /\ Interval \in Nat
  /\ MaxCrashes \in Nat
  /\ Horizon \in Nat
<1>1. MaxRequests \in Nat \ {0} /\ MaxConcurrent \in Nat \ {0}
  BY LimitsAssumption DEF LimitsAccepted
<1>2. Interval \in Nat /\ MaxCrashes \in Nat
  BY TimeAssumption
<1>3. Horizon \in Nat
  BY <1>1, <1>2, SMT DEF Horizon
<1> QED
  BY <1>1, <1>2, <1>3

\* Every variable keeps its type through one step of one call.
LEMMA CallStepTypes ==
  ASSUME NEW c \in Calls, Types, CallStep(c)
  PROVE  Types'
<1> USE Numbers DEF Types, Goto, control, limiter, disk, observer
<1>1. CASE Start(c)
  BY <1>1 DEF Start, PC
<1>2. CASE Gates(c)
  BY <1>2 DEF Gates, PC
<1>3. CASE BudgetExhausted(c)
  BY <1>3 DEF BudgetExhausted, PC
<1>4. CASE Pace(c)
  BY <1>4 DEF Pace, PC
<1>5. CASE Grant(c)
  BY <1>5 DEF Grant, PC
<1>6. CASE Wake(c)
  BY <1>6 DEF Wake, PC
<1>7. CASE RecordDenied(c)
  BY <1>7 DEF RecordDenied, PC
<1>8. CASE RecordReady(c)
  BY <1>8 DEF RecordReady, PC
<1>9. CASE ReceiptFault(c)
  BY <1>9 DEF ReceiptFault, PC
<1>10. CASE ResolveHeaders(c)
  BY <1>10 DEF ResolveHeaders, PC
<1>11. CASE EnterSlot(c)
  BY <1>11 DEF EnterSlot, PC
<1>12. CASE SlotTimeout(c)
  BY <1>12 DEF SlotTimeout, PC
<1>13. CASE PollKill(c)
  BY <1>13 DEF PollKill, PC
<1>14. CASE AssertLive(c)
  BY <1>14 DEF AssertLive, PC
<1>15. CASE NotSent(c)
  BY <1>15 DEF NotSent, PC
<1>16. CASE Send(c)
  BY <1>16 DEF Send, PC
<1>17. CASE Answer(c)
  BY <1>17 DEF Answer, PC
<1>18. CASE RecordError(c)
  BY <1>18 DEF RecordError, PC
<1>19. CASE RecordOk(c)
  BY <1>19 DEF RecordOk, PC
<1>20. CASE EvidenceFault(c)
  BY <1>20 DEF EvidenceFault, PC
<1>21. CASE Observe(c)
  BY <1>21 DEF Observe, PC
<1> QED
  BY <1>1, <1>2, <1>3, <1>4, <1>5, <1>6, <1>7, <1>8, <1>9, <1>10, <1>11, <1>12,
     <1>13, <1>14, <1>15, <1>16, <1>17, <1>18, <1>19, <1>20, <1>21 DEF CallStep

\* Every reachable state is well typed.
LEMMA TypesInvariant == Spec => []Types
<1>1. Init => Types
  BY Numbers DEF Init, Types, PC
<1>2. Types /\ [Next]_vars => Types'
  <2> SUFFICES ASSUME Types, [Next]_vars PROVE Types'
    OBVIOUS
  <2> USE Numbers DEF control, limiter, disk, observer
  <2>1. CASE \E c \in Calls : CallStep(c)
    BY <2>1, CallStepTypes
  <2>2. CASE Tick
    BY <2>2 DEF Tick, Types
  <2>3. CASE TripKill
    BY <2>3 DEF TripKill, Types
  <2>4. CASE ClearKill
    BY <2>4 DEF ClearKill, Types
  <2>5. CASE Crash
    BY <2>5 DEF Crash, Types, PC
  <2>6. CASE UNCHANGED vars
    BY <2>6 DEF vars, Types
  <2> QED
    BY <2>1, <2>2, <2>3, <2>4, <2>5, <2>6 DEF Next
<1> QED
  BY <1>1, <1>2, PTL DEF Spec

-----------------------------------------------------------------------------
(* The threads at a label, as one of them moves.                           *)

\* The threads at some labels can be counted.
LEMMA AtFinite ==
  ASSUME NEW S
  PROVE  IsFiniteSet(At(S)) /\ Cardinality(At(S)) \in Nat
<1>1. At(S) \subseteq Calls
  BY DEF At
<1>2. IsFiniteSet(At(S))
  BY <1>1, CallsAssumption, FS_Subset
<1> QED
  BY <1>2, FS_CardinalityType

\* A thread that stays inside, or stays outside, changes nothing.
LEMMA AtKeep ==
  ASSUME NEW S, NEW c \in Calls, NEW l, pc \in [Calls -> PC],
         Goto(c, l), pc[c] \in S <=> l \in S
  PROVE  At(S)' = At(S)
BY DEF At, Goto

\* A thread that comes to these labels is one more.
LEMMA AtEnter ==
  ASSUME NEW S, NEW c \in Calls, NEW l, pc \in [Calls -> PC],
         Goto(c, l), pc[c] \notin S, l \in S
  PROVE  Cardinality(At(S)') = Cardinality(At(S)) + 1
<1>1. At(S)' = At(S) \cup {c} /\ c \notin At(S)
  BY DEF At, Goto
<1> QED
  BY <1>1, AtFinite, FS_AddElement

\* A thread that leaves them is one less.
LEMMA AtLeave ==
  ASSUME NEW S, NEW c \in Calls, NEW l, pc \in [Calls -> PC],
         Goto(c, l), pc[c] \in S, l \notin S
  PROVE  Cardinality(At(S)') = Cardinality(At(S)) - 1
<1>1. At(S)' = At(S) \ {c} /\ c \in At(S)
  BY DEF At, Goto
<1> QED
  BY <1>1, AtFinite, FS_RemoveElement

-----------------------------------------------------------------------------
(* The concurrency semaphore.                                              *)

\* A thread that enters the slot takes a unit, one that leaves it returns it.
LEMMA CallStepSlots ==
  ASSUME NEW c \in Calls, Types, SlotConservation, CallStep(c)
  PROVE  SlotConservation'
<1> USE Numbers DEF Types, InSlot
<1>0. Cardinality(At(InSlot)) \in Nat
  BY AtFinite
<1>1. CASE EnterSlot(c)
  <2>1. Cardinality(At(InSlot)') = Cardinality(At(InSlot)) + 1
    BY <1>1, AtEnter DEF EnterSlot
  <2> QED
    BY <1>0, <1>1, <2>1 DEF EnterSlot, SlotConservation
<1>2. CASE AssertLive(c)
  <2>1. CASE kill
    <3>1. Cardinality(At(InSlot)') = Cardinality(At(InSlot)) - 1
      BY <1>2, <2>1, AtLeave DEF AssertLive
    <3> QED
      BY <1>0, <1>2, <2>1, <3>1 DEF AssertLive, SlotConservation
  <2>2. CASE ~kill
    <3>1. At(InSlot)' = At(InSlot)
      BY <1>2, <2>2, AtKeep DEF AssertLive
    <3> QED
      BY <1>2, <2>2, <3>1 DEF AssertLive, SlotConservation
  <2> QED
    BY <2>1, <2>2
<1>3. CASE NotSent(c) \/ Answer(c)
  <2>1. PICK l \in {"error", "done", "record"} : Goto(c, l)
    BY <1>3 DEF NotSent, Answer
  <2>2. Cardinality(At(InSlot)') = Cardinality(At(InSlot)) - 1
    BY <1>3, <2>1, AtLeave DEF NotSent, Answer
  <2> QED
    BY <1>0, <1>3, <2>2 DEF NotSent, Answer, SlotConservation
<1>4. CASE Send(c)
  <2>1. At(InSlot)' = At(InSlot)
    BY <1>4, AtKeep DEF Send
  <2> QED
    BY <1>4, <2>1 DEF Send, SlotConservation
<1>5. ASSUME Start(c) \/ Gates(c) \/ BudgetExhausted(c) \/ Pace(c) \/ Grant(c) \/ Wake(c)
             \/ RecordDenied(c) \/ RecordReady(c) \/ ReceiptFault(c) \/ ResolveHeaders(c)
             \/ SlotTimeout(c) \/ PollKill(c)
             \/ RecordError(c) \/ RecordOk(c) \/ EvidenceFault(c) \/ Observe(c)
      PROVE  SlotConservation'
  <2>1. PICK l \in PC \ InSlot : Goto(c, l)
    BY <1>5 DEF Start, Gates, BudgetExhausted, Pace, Grant, Wake, RecordDenied,
       RecordReady, ReceiptFault, ResolveHeaders, SlotTimeout, PollKill, RecordError,
       RecordOk, EvidenceFault, Observe, PC
  <2>2. pc[c] \notin InSlot /\ slots' = slots
    BY <1>5 DEF Start, Gates, BudgetExhausted, Pace, Grant, Wake, RecordDenied,
       RecordReady, ReceiptFault, ResolveHeaders, SlotTimeout, PollKill, RecordError,
       RecordOk, EvidenceFault, Observe
  <2>3. At(InSlot)' = At(InSlot)
    BY <2>1, <2>2, AtKeep
  <2> QED
    BY <2>2, <2>3 DEF SlotConservation
<1> QED
  BY <1>1, <1>2, <1>3, <1>4, <1>5 DEF CallStep

\* No path through execution_slot leaks a slot or frees one twice.
THEOREM SlotConservationHolds == Spec => []SlotConservation
<1>1. Init => SlotConservation
  <2> SUFFICES ASSUME Init PROVE SlotConservation
    OBVIOUS
  <2>1. At(InSlot) = {}
    BY DEF Init, At, InSlot
  <2> QED
    BY <2>1, FS_EmptySet, Numbers DEF Init, SlotConservation
<1>2. Types /\ SlotConservation /\ [Next]_vars => SlotConservation'
  <2> SUFFICES ASSUME Types, SlotConservation, [Next]_vars PROVE SlotConservation'
    OBVIOUS
  <2>1. CASE \E c \in Calls : CallStep(c)
    BY <2>1, CallStepSlots
  <2>2. CASE Tick \/ TripKill \/ ClearKill \/ UNCHANGED vars
    BY <2>2 DEF Tick, TripKill, ClearKill, vars, control, SlotConservation, At
  <2>3. CASE Crash
    <3>1. At(InSlot)' = {}
      BY <2>3 DEF Crash, At, InSlot, Running, PC, Types
    <3> QED
      BY <2>3, <3>1, FS_EmptySet, Numbers DEF Crash, SlotConservation
  <2> QED
    BY <2>1, <2>2, <2>3 DEF Next
<1> QED
  BY <1>1, <1>2, TypesInvariant, PTL DEF Spec

\* The state stays within its types and the limits within their bounds.
THEOREM TypeCorrect == Spec => []TypeOK
<1>1. Types /\ SlotConservation => TypeOK
  BY AtFinite, Numbers DEF Types, TypeOK, SlotConservation
<1> QED
  BY <1>1, TypesInvariant, SlotConservationHolds, PTL

-----------------------------------------------------------------------------
(* Receipts, policy and evidence: where a call is tells what it has done.  *)

\* Labels at which nothing of the call is on disk or on the wire yet, and
\* those that only a call with a ready receipt reaches.
Fresh == {"idle", "gates", "acquire", "sleep", "deny", "receipt"}
Logged == Granted \ {"receipt"}
\* Labels at which the request may be on the wire, or has an answer or error.
Past == {"await", "error", "record", "observe", "done", "dead"}

ReceiptInv ==
  \A c \in Calls :
    /\ pc[c] \in Fresh => c \notin sent /\ receipts[c] = "none" /\ evidence[c] = "none"
    /\ pc[c] \in Logged => receipts[c] = "ready"
    /\ c \in sent => receipts[c] = "ready" /\ pc[c] \in Past
    /\ evidence[c] # "none" => receipts[c] = "ready"

\* A running call was validated; one past the gates was permitted; one that
\* goes on to the network is not a rehearsal.
PolicyInv ==
  \A c \in Calls :
    /\ pc[c] # "idle" => req[c] \in Requests
    /\ pc[c] \in Running /\ req[c].mode = "execute" => ~Malformed(Config, req[c])
    /\ pc[c] \in {"acquire"} \cup Granted => Permitted(Config, ApprovedIds, req[c])
    /\ pc[c] \in Logged => req[c].mode = "execute"
    /\ c \in sent => /\ pc[c] # "idle"
                     /\ req[c].mode = "execute"
                     /\ ~Malformed(Config, req[c])
                     /\ Permitted(Config, ApprovedIds, req[c])

\* The evidence clauses of SentHasEvidence, with the labels that lead to them.
EvidenceInv ==
  \A c \in Calls :
    /\ c \in sent => pc[c] \in Past
    /\ pc[c] \in {"await", "record", "observe"} => c \in sent
    /\ pc[c] = "observe" => evidence[c] # "none"
    /\ pc[c] = "done" /\ c \in sent => evidence[c] # "none" \/ c \in faults
    /\ evidence[c] = "ok" => c \in sent

\* Each step keeps receipt, evidence and wire in the order ReceiptInv states.
LEMMA CallStepReceipt ==
  ASSUME NEW c \in Calls, Types, ReceiptInv, CallStep(c)
  PROVE  ReceiptInv'
<1> USE DEF ReceiptInv, Fresh, Logged, Past, Granted, InSlot, Types, Goto, control, limiter, disk, observer
<1>1. CASE Start(c)
  BY <1>1 DEF Start
<1>2. CASE Gates(c)
  BY <1>2 DEF Gates
<1>3. CASE BudgetExhausted(c)
  BY <1>3 DEF BudgetExhausted
<1>4. CASE Pace(c)
  BY <1>4 DEF Pace
<1>5. CASE Grant(c)
  BY <1>5 DEF Grant
<1>6. CASE Wake(c)
  BY <1>6 DEF Wake
<1>7. CASE RecordDenied(c)
  BY <1>7 DEF RecordDenied
<1>8. CASE RecordReady(c)
  BY <1>8 DEF RecordReady
<1>9. CASE ReceiptFault(c)
  BY <1>9 DEF ReceiptFault
<1>10. CASE ResolveHeaders(c)
  BY <1>10 DEF ResolveHeaders
<1>11. CASE EnterSlot(c)
  BY <1>11 DEF EnterSlot
<1>12. CASE SlotTimeout(c)
  BY <1>12 DEF SlotTimeout
<1>13. CASE PollKill(c)
  BY <1>13 DEF PollKill
<1>14. CASE AssertLive(c)
  BY <1>14 DEF AssertLive
<1>15. CASE NotSent(c)
  BY <1>15 DEF NotSent
<1>16. CASE Send(c)
  BY <1>16 DEF Send
<1>17. CASE Answer(c)
  BY <1>17 DEF Answer
<1>18. CASE RecordError(c)
  BY <1>18 DEF RecordError
<1>19. CASE RecordOk(c)
  BY <1>19 DEF RecordOk
<1>20. CASE EvidenceFault(c)
  BY <1>20 DEF EvidenceFault
<1>21. CASE Observe(c)
  BY <1>21 DEF Observe
<1> QED
  BY <1>1, <1>2, <1>3, <1>4, <1>5, <1>6, <1>7, <1>8, <1>9, <1>10, <1>11,
     <1>12, <1>13, <1>14, <1>15, <1>16, <1>17, <1>18, <1>19, <1>20, <1>21 DEF CallStep

\* So every thread past the receipt has it, in every reachable state.
LEMMA ReceiptInvariant == Spec => []ReceiptInv
<1>1. Init => ReceiptInv
  BY DEF Init, ReceiptInv, Fresh, Logged, Past, Granted, InSlot
<1>2. Types /\ ReceiptInv /\ [Next]_vars => ReceiptInv'
  <2> SUFFICES ASSUME Types, ReceiptInv, [Next]_vars PROVE ReceiptInv'
    OBVIOUS
  <2>1. CASE \E c \in Calls : CallStep(c)
    BY <2>1, CallStepReceipt
  <2>2. CASE Tick \/ TripKill \/ ClearKill \/ UNCHANGED vars
    BY <2>2 DEF Tick, TripKill, ClearKill, vars, control, disk, observer, ReceiptInv
  <2>3. CASE Crash
    BY <2>3 DEF Crash, disk, Types, ReceiptInv, Fresh, Logged, Past, Granted, InSlot, Running, PC
  <2> QED
    BY <2>1, <2>2, <2>3 DEF Next
<1> QED
  BY <1>1, <1>2, TypesInvariant, PTL DEF Spec

\* Whatever fails and whenever the process dies, what is on the wire is logged.
THEOREM ReceiptBeforeSendHolds == Spec => []ReceiptBeforeSend
<1>1. Types /\ ReceiptInv => ReceiptBeforeSend
  BY DEF Types, ReceiptInv, ReceiptBeforeSend
<1> QED
  BY <1>1, TypesInvariant, ReceiptInvariant, PTL

\* A verdict reached for one call stays with that call.
LEMMA CallStepPolicy ==
  ASSUME NEW c \in Calls, Types, PolicyInv, CallStep(c)
  PROVE  PolicyInv'
<1> USE DEF PolicyInv, Running, Logged, Granted, InSlot, PC, Types, Goto, control, limiter, disk, observer
<1>1. CASE Start(c)
  BY <1>1 DEF Start
<1>2. CASE Gates(c)
  BY <1>2 DEF Gates
<1>3. CASE BudgetExhausted(c)
  BY <1>3 DEF BudgetExhausted
<1>4. CASE Pace(c)
  BY <1>4 DEF Pace
<1>5. CASE Grant(c)
  BY <1>5 DEF Grant
<1>6. CASE Wake(c)
  BY <1>6 DEF Wake
<1>7. CASE RecordDenied(c)
  BY <1>7 DEF RecordDenied
<1>8. CASE RecordReady(c)
  BY <1>8, RequestsAssumption DEF RecordReady
<1>9. CASE ReceiptFault(c)
  BY <1>9 DEF ReceiptFault
<1>10. CASE ResolveHeaders(c)
  BY <1>10 DEF ResolveHeaders
<1>11. CASE EnterSlot(c)
  BY <1>11 DEF EnterSlot
<1>12. CASE SlotTimeout(c)
  BY <1>12 DEF SlotTimeout
<1>13. CASE PollKill(c)
  BY <1>13 DEF PollKill
<1>14. CASE AssertLive(c)
  BY <1>14 DEF AssertLive
<1>15. CASE NotSent(c)
  BY <1>15 DEF NotSent
<1>16. CASE Send(c)
  BY <1>16 DEF Send
<1>17. CASE Answer(c)
  BY <1>17 DEF Answer
<1>18. CASE RecordError(c)
  BY <1>18 DEF RecordError
<1>19. CASE RecordOk(c)
  BY <1>19 DEF RecordOk
<1>20. CASE EvidenceFault(c)
  BY <1>20 DEF EvidenceFault
<1>21. CASE Observe(c)
  BY <1>21 DEF Observe
<1> QED
  BY <1>1, <1>2, <1>3, <1>4, <1>5, <1>6, <1>7, <1>8, <1>9, <1>10, <1>11,
     <1>12, <1>13, <1>14, <1>15, <1>16, <1>17, <1>18, <1>19, <1>20, <1>21 DEF CallStep

\* So every thread past the gates asked for what is permitted.
LEMMA PolicyInvariant == Spec => []PolicyInv
<1>1. Init => PolicyInv
  BY DEF Init, PolicyInv, Running, Logged, Granted, InSlot
<1>2. Types /\ PolicyInv /\ [Next]_vars => PolicyInv'
  <2> SUFFICES ASSUME Types, PolicyInv, [Next]_vars PROVE PolicyInv'
    OBVIOUS
  <2>1. CASE \E c \in Calls : CallStep(c)
    BY <2>1, CallStepPolicy
  <2>2. CASE Tick \/ TripKill \/ ClearKill \/ UNCHANGED vars
    BY <2>2 DEF Tick, TripKill, ClearKill, vars, control, observer, PolicyInv
  <2>3. CASE Crash
    BY <2>3 DEF Crash, Types, PolicyInv, Running, Logged, Granted, InSlot, PC
  <2> QED
    BY <2>1, <2>2, <2>3 DEF Next
<1> QED
  BY <1>1, <1>2, TypesInvariant, PTL DEF Spec

\* Nothing outside the engagement's policy ever reaches the network.
THEOREM SentWithinPolicyHolds == Spec => []SentWithinPolicy
<1>1. Types /\ PolicyInv => SentWithinPolicy
  BY DEF Types, PolicyInv, SentWithinPolicy
<1> QED
  BY <1>1, TypesInvariant, PolicyInvariant, PTL

\* Every way out of the network leaves evidence or a storage fault.
LEMMA CallStepEvidence ==
  ASSUME NEW c \in Calls, Types, ReceiptInv, EvidenceInv, CallStep(c)
  PROVE  EvidenceInv'
<1> USE DEF EvidenceInv, ReceiptInv, Past, Fresh, Logged, Granted, InSlot, Types, Goto, control, limiter, disk, observer
<1>1. CASE Start(c)
  BY <1>1 DEF Start
<1>2. CASE Gates(c)
  BY <1>2 DEF Gates
<1>3. CASE BudgetExhausted(c)
  BY <1>3 DEF BudgetExhausted
<1>4. CASE Pace(c)
  BY <1>4 DEF Pace
<1>5. CASE Grant(c)
  BY <1>5 DEF Grant
<1>6. CASE Wake(c)
  BY <1>6 DEF Wake
<1>7. CASE RecordDenied(c)
  BY <1>7 DEF RecordDenied
<1>8. CASE RecordReady(c)
  BY <1>8 DEF RecordReady
<1>9. CASE ReceiptFault(c)
  BY <1>9 DEF ReceiptFault
<1>10. CASE ResolveHeaders(c)
  BY <1>10 DEF ResolveHeaders
<1>11. CASE EnterSlot(c)
  BY <1>11 DEF EnterSlot
<1>12. CASE SlotTimeout(c)
  BY <1>12 DEF SlotTimeout
<1>13. CASE PollKill(c)
  BY <1>13 DEF PollKill
<1>14. CASE AssertLive(c)
  BY <1>14 DEF AssertLive
<1>15. CASE NotSent(c)
  BY <1>15 DEF NotSent
<1>16. CASE Send(c)
  BY <1>16 DEF Send
<1>17. CASE Answer(c)
  BY <1>17 DEF Answer
<1>18. CASE RecordError(c)
  BY <1>18 DEF RecordError
<1>19. CASE RecordOk(c)
  BY <1>19 DEF RecordOk
<1>20. CASE EvidenceFault(c)
  BY <1>20 DEF EvidenceFault
<1>21. CASE Observe(c)
  BY <1>21 DEF Observe
<1> QED
  BY <1>1, <1>2, <1>3, <1>4, <1>5, <1>6, <1>7, <1>8, <1>9, <1>10, <1>11,
     <1>12, <1>13, <1>14, <1>15, <1>16, <1>17, <1>18, <1>19, <1>20, <1>21 DEF CallStep

\* So every thread has the records of its label, in every reachable state.
LEMMA EvidenceInvariant == Spec => []EvidenceInv
<1>1. Init => EvidenceInv
  BY DEF Init, EvidenceInv
<1>2. Types /\ ReceiptInv /\ EvidenceInv /\ [Next]_vars => EvidenceInv'
  <2> SUFFICES ASSUME Types, ReceiptInv, EvidenceInv, [Next]_vars PROVE EvidenceInv'
    OBVIOUS
  <2>1. CASE \E c \in Calls : CallStep(c)
    BY <2>1, CallStepEvidence
  <2>2. CASE Tick \/ TripKill \/ ClearKill \/ UNCHANGED vars
    BY <2>2 DEF Tick, TripKill, ClearKill, vars, control, disk, observer, EvidenceInv
  <2>3. CASE Crash
    BY <2>3 DEF Crash, disk, Types, EvidenceInv, Past, Running, PC
  <2> QED
    BY <2>1, <2>2, <2>3 DEF Next
<1> QED
  BY <1>1, <1>2, TypesInvariant, ReceiptInvariant, PTL DEF Spec

\* A request that left and whose call finished has evidence, and all evidence
\* has a receipt.
THEOREM SentHasEvidenceHolds == Spec => []SentHasEvidence
<1>1. Types /\ ReceiptInv /\ EvidenceInv => SentHasEvidence
  BY DEF Types, ReceiptInv, EvidenceInv, SentHasEvidence
<1> QED
  BY <1>1, TypesInvariant, ReceiptInvariant, EvidenceInvariant, PTL

-----------------------------------------------------------------------------
(* Budget, pace and the kill switch.                                       *)

\* BudgetCovers, and no call before its grant is counted.
BudgetInv ==
  /\ count = Cardinality(granted)
  /\ At(Granted) \subseteq granted
  /\ \A c \in granted : pc[c] \notin {"idle", "gates", "acquire", "sleep"}

\* A thread is granted as the counter is raised, and at no other step.
LEMMA CallStepBudget ==
  ASSUME NEW c \in Calls, Types, BudgetInv, CallStep(c)
  PROVE  BudgetInv'
<1> USE DEF Types, BudgetInv, At, Goto, limiter, observer, Granted, InSlot
<1>1. CASE Grant(c)
  <2>1. c \notin granted /\ IsFiniteSet(granted)
    BY <1>1, CallsAssumption, FS_Subset DEF Grant
  <2>2. Cardinality(granted \cup {c}) = Cardinality(granted) + 1
    BY <2>1, FS_AddElement
  <2> QED
    BY <1>1, <2>2 DEF Grant
<1>2. ASSUME Start(c) \/ Gates(c) \/ BudgetExhausted(c) \/ Pace(c) \/ Wake(c)
             \/ RecordDenied(c) \/ RecordReady(c) \/ ReceiptFault(c) \/ ResolveHeaders(c)
      PROVE  BudgetInv'
  BY <1>2 DEF Start, Gates, BudgetExhausted, Pace, Wake, RecordDenied, RecordReady,
     ReceiptFault, ResolveHeaders
<1>3. ASSUME EnterSlot(c) \/ SlotTimeout(c) \/ PollKill(c) \/ AssertLive(c) \/ NotSent(c)
             \/ Send(c) \/ Answer(c) \/ RecordError(c) \/ RecordOk(c) \/ EvidenceFault(c)
             \/ Observe(c)
      PROVE  BudgetInv'
  BY <1>3 DEF EnterSlot, SlotTimeout, PollKill, AssertLive, NotSent, Send, Answer,
     RecordError, RecordOk, EvidenceFault, Observe
<1> QED
  BY <1>1, <1>2, <1>3 DEF CallStep

\* Racing threads neither share a unit of the budget, nor lose one.
THEOREM BudgetCoversHolds == Spec => []BudgetCovers
<1>1. Init => BudgetInv
  BY FS_EmptySet DEF Init, BudgetInv, At, Granted, InSlot
<1>2. Types /\ BudgetInv /\ [Next]_vars => BudgetInv'
  <2> SUFFICES ASSUME Types, BudgetInv, [Next]_vars PROVE BudgetInv'
    OBVIOUS
  <2>1. CASE \E c \in Calls : CallStep(c)
    BY <2>1, CallStepBudget
  <2>2. CASE Tick \/ TripKill \/ ClearKill \/ UNCHANGED vars
    BY <2>2 DEF Tick, TripKill, ClearKill, vars, control, limiter, observer, BudgetInv, At
  <2>3. CASE Crash
    BY <2>3, FS_EmptySet DEF Crash, Types, BudgetInv, At, Running, Granted, InSlot, PC
  <2> QED
    BY <2>1, <2>2, <2>3 DEF Next
<1>3. Types /\ BudgetInv => BudgetCovers
  BY Numbers DEF Types, BudgetInv, BudgetCovers
<1> QED
  BY <1>1, <1>2, <1>3, TypesInvariant, PTL DEF Spec

\* More grants need more time.
LEMMA ProductMonotone ==
  ASSUME NEW i \in Nat, NEW m \in Nat, NEW n \in Nat, m <= n
  PROVE  i * m <= i * n
<1>1. i * (n - m) >= 0
  BY SMT
<1>2. i * (n - m) = i * n - i * m
  BY SMT
<1> QED
  BY <1>1, <1>2, SMT

\* The n-th request of a process is permitted no sooner than n - 1 intervals
\* after its start: LongRunRate is inductive as it stands.
THEOREM LongRunRateHolds == Spec => []LongRunRate
<1>1. Init => LongRunRate
  BY DEF Init, LongRunRate
<1>2. Types /\ LongRunRate /\ [Next]_vars => LongRunRate'
  <2> SUFFICES ASSUME Types, LongRunRate, [Next]_vars PROVE LongRunRate'
    OBVIOUS
  <2> USE Numbers DEF Types, LongRunRate, limiter, observer
  <2>1. ASSUME NEW c \in Calls, Grant(c) PROVE LongRunRate'
    <3>1. Interval * count = Interval * (count - 1) + Interval /\ Interval * 0 = 0
      BY SMT
    <3>2. Interval * count <= clock
      BY <2>1, <3>1, SMT DEF Grant
    <3> QED
      BY <2>1, <3>2, SMT DEF Grant
  <2>2. CASE Tick
    <3>1. count > 0 => Interval * (count - 1) + Interval = Interval * count
      BY SMT
    <3>2. Interval * count <= Horizon
      BY ProductMonotone DEF Horizon
    <3> QED
      BY <2>2, <3>1, <3>2, SMT DEF Tick
  <2>3. CASE Crash
    BY <2>3 DEF Crash
  <2>4. ASSUME NEW c \in Calls, CallStep(c), ~Grant(c) PROVE LongRunRate'
    <3>1. count' = count /\ since' = since /\ clock' = clock
      BY <2>4 DEF CallStep, Start, Gates, BudgetExhausted, Pace, Wake, RecordDenied,
         RecordReady, ReceiptFault, ResolveHeaders, EnterSlot, SlotTimeout, PollKill,
         AssertLive, NotSent, Send, Answer, RecordError, RecordOk, EvidenceFault, Observe
    <3> QED
      BY <3>1
  <2>5. CASE TripKill \/ ClearKill \/ UNCHANGED vars
    BY <2>5 DEF TripKill, ClearKill, vars
  <2> QED
    BY <2>1, <2>2, <2>3, <2>4, <2>5 DEF Next
<1> QED
  BY <1>1, <1>2, TypesInvariant, PTL DEF Spec

\* While the switch is tripped, the requests sent since and the threads that
\* passed assert_live before it was tripped together fit in the slots.
KillInv ==
  /\ ~kill => sentKilled = 0
  /\ kill => sentKilled + Cardinality(At({"connect"})) <= MaxConcurrent

\* The threads about to send all hold a slot.
LEMMA ConnectInSlot ==
  ASSUME SlotConservation, slots \in Nat
  PROVE  Cardinality(At({"connect"})) <= MaxConcurrent
<1>1. At({"connect"}) \subseteq At(InSlot)
  BY DEF At, InSlot
<1>2. Cardinality(At({"connect"})) <= Cardinality(At(InSlot))
  BY <1>1, AtFinite, FS_Subset
<1> QED
  BY <1>2, AtFinite, Numbers DEF SlotConservation

\* A thread comes to connect only while the switch is clear, and sends from there.
LEMMA CallStepKill ==
  ASSUME NEW c \in Calls, Types, KillInv, CallStep(c)
  PROVE  KillInv'
<1> USE Numbers DEF Types, observer
<1>0. Cardinality(At({"connect"})) \in Nat
  BY AtFinite
<1>1. CASE AssertLive(c)
  <2>1. CASE kill
    <3>1. At({"connect"})' = At({"connect"})
      BY <1>1, <2>1, AtKeep DEF AssertLive
    <3> QED
      BY <1>1, <2>1, <3>1 DEF AssertLive, KillInv
  <2>2. CASE ~kill
    BY <1>1, <2>2 DEF AssertLive, KillInv
  <2> QED
    BY <2>1, <2>2
<1>2. CASE NotSent(c) \/ Send(c)
  <2>1. PICK l \in {"error", "done", "await"} : Goto(c, l)
    BY <1>2 DEF NotSent, Send
  <2>2. Cardinality(At({"connect"})') = Cardinality(At({"connect"})) - 1
    BY <1>2, <2>1, AtLeave DEF NotSent, Send
  <2> QED
    BY <1>0, <1>2, <2>2 DEF NotSent, Send, KillInv
<1>3. ASSUME CallStep(c), ~AssertLive(c), ~NotSent(c), ~Send(c) PROVE KillInv'
  <2>1. PICK l \in PC \ {"connect"} : Goto(c, l)
    BY <1>3 DEF CallStep, Start, Gates, BudgetExhausted, Pace, Grant, Wake, RecordDenied,
       RecordReady, ReceiptFault, ResolveHeaders, EnterSlot, SlotTimeout, PollKill, Answer,
       RecordError, RecordOk, EvidenceFault, Observe, PC
  <2>2. pc[c] # "connect" /\ kill' = kill /\ sentKilled' = sentKilled
    BY <1>3 DEF CallStep, Start, Gates, BudgetExhausted, Pace, Grant, Wake, RecordDenied,
       RecordReady, ReceiptFault, ResolveHeaders, EnterSlot, SlotTimeout, PollKill, Answer,
       RecordError, RecordOk, EvidenceFault, Observe
  <2>3. At({"connect"})' = At({"connect"})
    BY <2>1, <2>2, AtKeep
  <2> QED
    BY <2>2, <2>3 DEF KillInv
<1> QED
  BY <1>1, <1>2, <1>3

\* A tripped switch lets at most max_concurrent_requests more requests out.
THEOREM KillBoundsSendsHolds == Spec => []KillBoundsSends
<1>1. Init => KillInv
  <2> SUFFICES ASSUME Init PROVE KillInv
    OBVIOUS
  <2>1. At({"connect"}) = {}
    BY DEF Init, At
  <2> QED
    BY <2>1, FS_EmptySet, Numbers DEF Init, KillInv
<1>2. Types /\ SlotConservation /\ KillInv /\ [Next]_vars => KillInv'
  <2> SUFFICES ASSUME Types, SlotConservation, KillInv, [Next]_vars PROVE KillInv'
    OBVIOUS
  <2>1. CASE \E c \in Calls : CallStep(c)
    BY <2>1, CallStepKill
  <2>2. CASE Tick \/ UNCHANGED vars
    BY <2>2 DEF Tick, vars, control, KillInv, At
  <2>3. CASE TripKill
    <3>1. At({"connect"})' = At({"connect"}) /\ sentKilled' = 0
      BY <2>3 DEF TripKill, control, observer, At, KillInv
    <3> QED
      BY <2>3, <3>1, ConnectInSlot, AtFinite DEF TripKill, Types, KillInv
  <2>4. CASE ClearKill
    BY <2>4 DEF ClearKill, KillInv
  <2>5. CASE Crash
    <3>1. At({"connect"})' = {}
      BY <2>5 DEF Crash, At, Running, PC, Types
    <3>2. Cardinality(At({"connect"}))' = 0
      BY <3>1, FS_EmptySet
    <3>3. kill => sentKilled <= MaxConcurrent
      BY AtFinite, Numbers DEF Types, KillInv
    <3> QED
      BY <2>5, <3>2, <3>3, Numbers DEF Crash, KillInv, Types
  <2> QED
    BY <2>1, <2>2, <2>3, <2>4, <2>5 DEF Next
<1>3. Types /\ KillInv => KillBoundsSends
  BY AtFinite, Numbers DEF Types, KillInv, KillBoundsSends
<1> QED
  BY <1>1, <1>2, <1>3, TypesInvariant, SlotConservationHolds, PTL DEF Spec

-----------------------------------------------------------------------------
(* Gateway implements EgressBoundary.                                      *)

\* What a move of one call does to the abstract phases.
LEMMA PhaseMove ==
  ASSUME NEW c \in Calls, NEW l, Types, Goto(c, l)
  PROVE  [d \in Calls |-> Phase(pc[d])]' = [[d \in Calls |-> Phase(pc[d])] EXCEPT ![c] = Phase(l)]
BY DEF Types, Goto

\* The abstract module's own instance of FiniteSets counts like this one's.
LEMMA SameCardinality == \A S : Boundary!Cardinality(S) = Cardinality(S)
BY DEF Boundary!Cardinality, Cardinality

\* The threads on the abstract wire wait for an answer inside a slot.
LEMMA WireBound ==
  ASSUME NEW c \in Calls, Types, SlotConservation, pc[c] = "connect"
  PROVE  Boundary!Cardinality(Boundary!OnWire) < MaxConcurrent
<1>1. Boundary!OnWire = At({"await"})
  BY DEF Boundary!OnWire, At, Phase, Types, PC
<1>2. At({"await"}) \subseteq At(InSlot) /\ c \in At(InSlot) /\ c \notin At({"await"})
  BY DEF At, InSlot
<1>3. Cardinality(At({"await"})) < Cardinality(At(InSlot))
  BY <1>2, AtFinite, FS_Subset
<1> QED
  BY <1>1, <1>3, AtFinite, SameCardinality, Numbers DEF SlotConservation, Types

\* Every step of a thread maps to one step at the boundary or to none.
LEMMA CallStepImplements ==
  ASSUME NEW c \in Calls, Types, SlotConservation, ReceiptInv, PolicyInv, CallStep(c)
  PROVE  [Boundary!Next]_(Boundary!vars)
<1> USE DEF control, limiter, disk, observer
<1> DEFINE phase == [d \in Calls |-> Phase(pc[d])]
           log == {d \in Calls : receipts[d] = "ready"}
<1>1. CASE Start(c)
  <2>1. PICK l \in {"gates", "done"} : Goto(c, l)
    BY <1>1 DEF Start
  <2>2. Phase(l) \in {"asked", "closed"} /\ Boundary!Move(c, Phase(l))
    BY <2>1, PhaseMove DEF Boundary!Move, Phase
  <2>3. Boundary!Ask(c)
    BY <1>1, <2>2 DEF Start, Boundary!Ask, Phase
  <2> QED
    BY <2>3 DEF Boundary!Next
<1>2. CASE Gates(c) \/ BudgetExhausted(c) \/ Wake(c)
  <2>1. phase' = phase
    BY <1>2 DEF Gates, BudgetExhausted, Wake, Goto, Phase, Types
  <2> QED
    BY <1>2, <2>1 DEF Gates, BudgetExhausted, Wake, Boundary!vars
<1>3. CASE Pace(c)
  <2>1. phase' = phase \/ Boundary!Move(c, "closed")
    BY <1>3, PhaseMove DEF Pace, Goto, Phase, Types, Boundary!Move
  <2>2. UNCHANGED Boundary!vars \/ Boundary!Close(c)
    BY <1>3, <2>1 DEF Pace, Boundary!vars, Boundary!Close, Phase
  <2> QED
    BY <2>2 DEF Boundary!Next
<1>4. CASE Grant(c)
  <2>1. Boundary!Grant(c)
    BY <1>4, PhaseMove DEF Grant, Boundary!Grant, Boundary!Move, Phase
  <2> QED
    BY <2>1 DEF Boundary!Next
<1>5. CASE RecordReady(c)
  <2>1. log' = log \cup {c}
    BY <1>5 DEF RecordReady, Types
  <2>2. PICK l \in {"headers", "done"} : Goto(c, l)
    BY <1>5 DEF RecordReady
  <2>3. Phase(l) \in {"ready", "closed"} /\ Boundary!Move(c, Phase(l))
    BY <2>2, PhaseMove DEF Boundary!Move, Phase
  <2>4. Boundary!Log(c)
    BY <1>5, <2>1, <2>3 DEF RecordReady, Boundary!Log, Phase
  <2> QED
    BY <2>4 DEF Boundary!Next
<1>6. CASE RecordDenied(c)
  <2>1. log' = log
    BY <1>6 DEF RecordDenied, Types, ReceiptInv, Fresh
  <2>2. Boundary!Close(c)
    BY <1>6, <2>1, PhaseMove DEF RecordDenied, Boundary!Close, Boundary!Move, Phase
  <2> QED
    BY <2>2 DEF Boundary!Next
<1>7. CASE ReceiptFault(c)
  <2>1. Boundary!Close(c)
    BY <1>7, PhaseMove DEF ReceiptFault, Boundary!Close, Boundary!Move, Phase
  <2> QED
    BY <2>1 DEF Boundary!Next
<1>8. CASE EnterSlot(c) \/ SlotTimeout(c)
  <2>1. phase' = phase
    BY <1>8 DEF EnterSlot, SlotTimeout, Goto, Phase, Types
  <2> QED
    BY <1>8, <2>1 DEF EnterSlot, SlotTimeout, Boundary!vars
<1>9. CASE ResolveHeaders(c) \/ PollKill(c) \/ AssertLive(c)
  <2>1. phase' = phase \/ Boundary!Move(c, "closed")
    BY <1>9, PhaseMove DEF ResolveHeaders, PollKill, AssertLive, Goto, Phase, Types, Boundary!Move
  <2>2. UNCHANGED Boundary!vars \/ Boundary!Close(c)
    BY <1>9, <2>1 DEF ResolveHeaders, PollKill, AssertLive, Boundary!vars, Boundary!Close, Phase
  <2> QED
    BY <2>2 DEF Boundary!Next
<1>10. CASE NotSent(c) \/ Answer(c)
  <2>1. PICK l \in {"error", "done", "record"} : Goto(c, l)
    BY <1>10 DEF NotSent, Answer
  <2>2. Boundary!Close(c)
    BY <1>10, <2>1, PhaseMove DEF NotSent, Answer, Boundary!Close, Boundary!Move, Phase
  <2> QED
    BY <2>2 DEF Boundary!Next
<1>11. CASE Send(c)
  <2>1. req[c] \in AllowedRequests
    BY <1>11 DEF Send, PolicyInv, AllowedRequests, Logged, Granted, InSlot, Running, PC
  <2>2. c \in log
    BY <1>11 DEF Send, ReceiptInv, Logged, Granted, InSlot
  <2>3. Boundary!Send(c)
    BY <1>11, <2>1, <2>2, WireBound, PhaseMove DEF Send, Boundary!Send, Boundary!Move, Phase
  <2> QED
    BY <2>3 DEF Boundary!Next
<1>12. CASE RecordError(c) \/ RecordOk(c) \/ EvidenceFault(c) \/ Observe(c)
  <2>1. phase' = phase
    BY <1>12 DEF RecordError, RecordOk, EvidenceFault, Observe, Goto, Phase, Types
  <2> QED
    BY <1>12, <2>1 DEF RecordError, RecordOk, EvidenceFault, Observe, Boundary!vars
<1> QED
  BY <1>1, <1>2, <1>3, <1>4, <1>5, <1>6, <1>7, <1>8, <1>9, <1>10, <1>11, <1>12 DEF CallStep

\* Every behaviour of the threads, with its crashes and faults, is one of the
\* abstract boundary.
THEOREM ImplementsBoundaryHolds == Spec => ImplementsBoundary
<1>1. Init => Boundary!Init
  BY DEF Init, Boundary!Init, Phase
<1>2. Types /\ SlotConservation /\ ReceiptInv /\ PolicyInv /\ [Next]_vars
        => [Boundary!Next]_(Boundary!vars)
  <2> SUFFICES ASSUME Types, SlotConservation, ReceiptInv, PolicyInv, [Next]_vars
               PROVE  [Boundary!Next]_(Boundary!vars)
    OBVIOUS
  <2>1. CASE \E c \in Calls : CallStep(c)
    BY <2>1, CallStepImplements
  <2>2. CASE Tick \/ TripKill \/ ClearKill \/ UNCHANGED vars
    BY <2>2 DEF Tick, TripKill, ClearKill, vars, control, limiter, disk, Boundary!vars
  <2>3. CASE Crash
    <3>1. Boundary!Restart
      BY <2>3 DEF Crash, disk, Boundary!Restart, Phase, Running, PC, Types
    <3> QED
      BY <3>1 DEF Boundary!Next
  <2> QED
    BY <2>1, <2>2, <2>3 DEF Next
<1> QED
  BY <1>1, <1>2, TypesInvariant, SlotConservationHolds, ReceiptInvariant, PolicyInvariant, PTL
     DEF Spec, ImplementsBoundary, Boundary!Spec

-----------------------------------------------------------------------------
(* The proxy.  Whatever clients send and whenever they leave, its          *)
(* behaviours are behaviours of Gateway, so all that is proved above is    *)
(* true of it.  The promises of ProxyProps follow from that and from two   *)
(* invariants of the handlers.                                             *)

\* A step of the proxy is a step of the process it runs in, or none.
LEMMA ProxyStepIsGatewayStep ==
  ASSUME [ProxyNext]_proxyVars
  PROVE  [Next]_vars
<1>1. CASE \E c \in Calls : HandlerStep(c) \/ ClientGone(c)
  <2>1. PICK c \in Calls : HandlerStep(c) \/ ClientGone(c)
    BY <1>1
  <2>2. CASE Accept(c) \/ RefuseBody(c) \/ Reply(c) \/ ClientGone(c)
    BY <2>2 DEF Accept, RefuseBody, Reply, ClientGone
  <2>3. CASE Execute(c)
    BY <2>3 DEF Execute, Next, CallStep
  <2>4. CASE Forward(c)
    BY <2>4 DEF Forward, Next
  <2> QED
    BY <2>1, <2>2, <2>3, <2>4 DEF HandlerStep
<1>2. CASE (Tick \/ TripKill \/ ClearKill) /\ UNCHANGED client
  BY <1>2 DEF Next
<1>3. CASE Shutdown
  BY <1>3 DEF Shutdown, Next
<1>4. CASE UNCHANGED proxyVars
  BY <1>4 DEF proxyVars
<1> QED
  BY <1>1, <1>2, <1>3, <1>4 DEF ProxyNext

\* EgressProxyServer implements the process of module Gateway: no order of
\* connections, stalls, resets and restarts makes its threads run execute in a
\* way that module does not have.
THEOREM ProxyImplementsGateway == ProxySpec => Spec
<1>1. ProxyInit => Init
  BY DEF ProxyInit
<1>2. [ProxyNext]_proxyVars => [Next]_vars
  BY ProxyStepIsGatewayStep
<1> QED
  BY <1>1, <1>2, PTL DEF ProxySpec, Spec

\* Whatever leaves through the proxy was permitted by the engagement.
THEOREM ProxySendsWithinPolicy == ProxySpec => []SentWithinPolicy
BY ProxyImplementsGateway, SentWithinPolicyHolds, PTL

\* The proxy as a whole refines the abstract boundary of one gateway.
THEOREM ProxyImplementsBoundary == ProxySpec => ImplementsBoundary
BY ProxyImplementsGateway, ImplementsBoundaryHolds, PTL

-----------------------------------------------------------------------------
(* The handlers.                                                           *)

\* A handler that has not called execute has an idle call; a reply exists only
\* once the handler is writing it; a response of the application is answered
\* only for a call that ends after its evidence was recorded.
HandlerInv ==
  /\ msg \in [Calls -> Messages \cup {NoRequest}]
  /\ handler \in [Calls -> {"none", "reading", "forwarding", "replying", "over"}]
  /\ answer \in [Calls -> Answers]
  /\ gone \subseteq Calls
  /\ \A c \in Calls :
       /\ handler[c] \in {"none", "reading"} => pc[c] = "idle"
       /\ handler[c] = "forwarding" => pc[c] # "idle"
       /\ handler[c] # "none" => msg[c] \in Messages
       /\ answer[c] # "none" => handler[c] \in {"replying", "over"}
       /\ answer[c] = "upstream" => evidence[c] = "ok"
       /\ pc[c] = "observe" => evidence[c] = "ok"

\* A step of one call leaves the labels, requests and evidence of the others
\* alone; a request once taken up stays, and execute returns from the map update
\* only after its evidence was recorded.
LEMMA CallStepOwn ==
  ASSUME NEW c \in Calls, Types, CallStep(c)
  PROVE  /\ \A d \in Calls \ {c} :
              pc'[d] = pc[d] /\ evidence'[d] = evidence[d] /\ req'[d] = req[d]
         /\ pc'[c] # "idle"
         /\ pc[c] # "idle" => req' = req
         /\ pc'[c] = "observe" => evidence'[c] = "ok"
         /\ pc[c] = "observe" => evidence' = evidence
<1> USE DEF Types, Goto, control, limiter, disk, observer
<1>1. CASE Start(c)
  BY <1>1 DEF Start
<1>2. CASE Gates(c) \/ BudgetExhausted(c) \/ Pace(c) \/ Grant(c) \/ Wake(c)
  BY <1>2 DEF Gates, BudgetExhausted, Pace, Grant, Wake
<1>3. CASE RecordDenied(c) \/ RecordReady(c) \/ ReceiptFault(c) \/ ResolveHeaders(c)
  BY <1>3 DEF RecordDenied, RecordReady, ReceiptFault, ResolveHeaders
<1>4. CASE EnterSlot(c) \/ SlotTimeout(c) \/ PollKill(c) \/ AssertLive(c)
  BY <1>4 DEF EnterSlot, SlotTimeout, PollKill, AssertLive
<1>5. CASE NotSent(c) \/ Send(c) \/ Answer(c)
  BY <1>5 DEF NotSent, Send, Answer
<1>6. CASE RecordError(c) \/ RecordOk(c) \/ EvidenceFault(c) \/ Observe(c)
  BY <1>6 DEF RecordError, RecordOk, EvidenceFault, Observe
<1> QED
  BY <1>1, <1>2, <1>3, <1>4, <1>5, <1>6 DEF CallStep

\* Each step of a handler, of a client and of the process keeps the handlers'
\* labels in step with those of execute.
LEMMA HandlerStepKeeps ==
  ASSUME Types, HandlerInv, [ProxyNext]_proxyVars
  PROVE  HandlerInv'
<1> USE DEF HandlerInv, Answers, Replying
<1>1. ASSUME NEW c \in Calls, Accept(c) PROVE HandlerInv'
  BY <1>1 DEF Accept, vars
<1>2. ASSUME NEW c \in Calls, RefuseBody(c) PROVE HandlerInv'
  BY <1>2 DEF RefuseBody, vars
<1>3. ASSUME NEW c \in Calls, Execute(c) PROVE HandlerInv'
  <2>1. CallStep(c)
    BY <1>3 DEF Execute, CallStep
  <2>2. UNCHANGED evidence /\ handler[c] = "reading"
    BY <1>3 DEF Execute, Start, disk
  <2> QED
    BY <1>3, <2>1, <2>2, CallStepOwn DEF Execute
<1>4. ASSUME NEW c \in Calls, Forward(c) PROVE HandlerInv'
  <2>1. CallStep(c) /\ handler[c] = "forwarding" /\ UNCHANGED <<msg, gone>>
    BY <1>4 DEF Forward
  <2>2. CASE pc'[c] = "done"
    <3>1. PICK kind \in AnswersAt(pc[c]) : Replying(c, kind)
      BY <1>4, <2>2 DEF Forward
    <3>2. kind = "upstream" => evidence'[c] = "ok"
      BY <3>1, <2>1, CallStepOwn DEF AnswersAt
    <3>3. kind \in Answers
      BY <3>1 DEF AnswersAt
    <3> QED
      BY <2>1, <2>2, <3>1, <3>2, <3>3, CallStepOwn
  <2>3. CASE pc'[c] # "done"
    BY <1>4, <2>1, <2>3, CallStepOwn DEF Forward
  <2> QED
    BY <2>2, <2>3
<1>5. ASSUME NEW c \in Calls, Reply(c) PROVE HandlerInv'
  BY <1>5 DEF Reply, vars
<1>6. ASSUME NEW c \in Calls, ClientGone(c) PROVE HandlerInv'
  BY <1>6 DEF ClientGone, vars
<1>7. CASE (Tick \/ TripKill \/ ClearKill) /\ UNCHANGED client
  BY <1>7 DEF Tick, TripKill, ClearKill, client, control, disk
<1>8. CASE Shutdown
  BY <1>8 DEF Shutdown, Crash, Types, disk, Running, PC
<1>9. CASE UNCHANGED proxyVars
  BY <1>9 DEF proxyVars, vars
<1> QED
  BY <1>1, <1>2, <1>3, <1>4, <1>5, <1>6, <1>7, <1>8, <1>9 DEF ProxyNext, HandlerStep

\* So handler and call agree in every reachable state of the proxy.
LEMMA HandlerInvariant == ProxySpec => []HandlerInv
<1>1. ProxyInit => HandlerInv
  BY DEF ProxyInit, Init, HandlerInv, Answers
<1>2. ProxySpec => []Types
  BY ProxyImplementsGateway, TypesInvariant, PTL
<1> QED
  BY <1>1, <1>2, HandlerStepKeeps, PTL DEF ProxySpec

\* A client only ever sees a response the audit trail has.
THEOREM ReplyIsBackedHolds == ProxySpec => []ReplyIsBacked
<1>1. HandlerInv /\ SentHasEvidence /\ ReceiptBeforeSend => ReplyIsBacked
  BY DEF HandlerInv, SentHasEvidence, ReceiptBeforeSend, ReplyIsBacked
<1>2. ProxySpec => []SentHasEvidence /\ []ReceiptBeforeSend
  BY ProxyImplementsGateway, SentHasEvidenceHolds, ReceiptBeforeSendHolds, PTL
<1> QED
  BY <1>1, <1>2, HandlerInvariant, PTL

=============================================================================
