-------------------------- MODULE InvestigationProofs --------------------------
(***************************************************************************)
(* The verdict "verified" is sound, and Investigation is safe, for any     *)
(* number of runs, policies, answers and responses and any step limit the  *)
(* code accepts.                                                           *)
(***************************************************************************)
EXTENDS Investigation, FiniteSetTheorems, TLAPS

-----------------------------------------------------------------------------
(* The verdict (module Authorization).                                     *)

\* A reproduction that is stable shows every lasting field of the first answer
\* with its value: by equal bodies, or by equal normalised bodies.
LEMMA StableKeepsFields ==
  ASSUME NEW responses, WellFormedResponses(responses),
         NEW first \in responses, NEW again \in responses,
         Stable(first, again),
         NEW f \in DOMAIN first.object, f \notin VolatileFields
  PROVE  f \in DOMAIN again.object /\ again.object[f] = first.object[f]
<1>1. CASE first.bytes = again.bytes
  <2>1. first.object = again.object
    BY <1>1 DEF WellFormedResponses
  <2> QED BY <2>1
<1>2. CASE NormalizedHash(first) = NormalizedHash(again)
  <2> DEFINE Lasting(r) == [g \in DOMAIN r.object \ VolatileFields |-> r.object[g]]
  <2>1. Lasting(first) = Lasting(again)
    BY <1>2 DEF NormalizedHash
  <2>2. f \in DOMAIN Lasting(first) /\ Lasting(first)[f] = first.object[f]
    OBVIOUS
  <2>3. f \in DOMAIN Lasting(again) /\ Lasting(again)[f] = first.object[f]
    BY <2>1, <2>2
  <2> QED BY <2>3
<1> QED BY <1>1, <1>2 DEF Stable

\* Whatever four responses compare met: the verdict "verified" means that the
\* access was reproduced.
THEOREM VerdictSound ==
  ASSUME NEW responses, WellFormedResponses(responses),
         NEW rs \in [1..4 -> responses], NEW requested,
         Verdict(rs, requested) = "verified"
  PROVE  Reproduced(rs, requested)
<1> USE DEF Owner, Subject, OwnerAgain, SubjectAgain
<1>1. /\ rs[1] \in responses /\ rs[2] \in responses
      /\ rs[3] \in responses /\ rs[4] \in responses
  OBVIOUS
<1>2. /\ Success(rs[1]) /\ Success(rs[2])
      /\ ObjectIds(rs[1]) \cap ObjectIds(rs[2]) # {}
      /\ Stable(rs[2], rs[4]) /\ Stable(rs[1], rs[3])
      /\ ObservedImpact(rs[2], requested) # {}
  BY DEF Verdict
<1>3. \A i \in 1..4 : Success(rs[i])
  <2>1. rs[3].status = rs[1].status /\ rs[4].status = rs[2].status
    BY <1>2 DEF Stable
  <2>2. Success(rs[3]) /\ Success(rs[4])
    BY <1>2, <2>1 DEF Success
  <2> QED BY <1>2, <2>2
<1>4. PICK f \in IdFields : /\ f \in DOMAIN rs[1].object /\ f \in DOMAIN rs[2].object
                            /\ rs[1].object[f].text = rs[2].object[f].text
  <2>1. PICK id : id \in ObjectIds(rs[1]) /\ id \in ObjectIds(rs[2])
    BY <1>2
  <2>2. PICK f \in DOMAIN rs[1].object \cap IdFields : id = <<f, rs[1].object[f].text>>
    BY <2>1 DEF ObjectIds
  <2>3. PICK g \in DOMAIN rs[2].object \cap IdFields : id = <<g, rs[2].object[g].text>>
    BY <2>1 DEF ObjectIds
  <2>4. f = g /\ rs[1].object[f].text = rs[2].object[g].text
    BY <2>2, <2>3
  <2> QED BY <2>4
<1>5. f \notin VolatileFields
  BY <1>4, FieldsAssumption
<1>6. f \in DOMAIN rs[3].object /\ rs[3].object[f] = rs[1].object[f]
  BY <1>1, <1>2, <1>4, <1>5, StableKeepsFields
<1>7. f \in DOMAIN rs[4].object /\ rs[4].object[f] = rs[2].object[f]
  BY <1>1, <1>2, <1>4, <1>5, StableKeepsFields
<1>8. \A i \in 1..4 : f \in DOMAIN rs[i].object /\ rs[i].object[f].text = rs[1].object[f].text
  BY <1>4, <1>6, <1>7
<1>9. PICK g \in ObservedImpact(rs[2], requested) : TRUE
  BY <1>2
<1>10. g \in DOMAIN rs[4].object \/ g \in VolatileFields
  <2>1. g \in DOMAIN rs[2].object
    BY <1>9 DEF ObservedImpact
  <2> QED BY <1>1, <1>2, <2>1, StableKeepsFields
<1> QED BY <1>3, <1>4, <1>8, <1>9, <1>10 DEF Reproduced

-----------------------------------------------------------------------------
(* The runs.                                                               *)

Verdicts == {"verified", "candidate", "rejected"}
Statuses == Terminal \cup Verdicts \cup {"none"}
Records == [run : Runs, step : 0..MaxSteps - 1, status : Verdicts, reproduced : BOOLEAN]
StepRecords ==
  [index : Nat, run : Runs, step : Nat, key : Keys \cup {NoKey}, status : Statuses]
StateFiles == [hash : Hashes \cup {"none"}, steps : Seq(StepRecords)]

\* Types of all variables.
Types ==
  /\ pc \in [Runs -> PC]
  /\ hash \in [Runs -> Hashes]
  /\ distinct \in [Runs -> BOOLEAN]
  /\ proposal \in [Runs -> Keys \cup {NoKey}]
  /\ seen \in [Runs -> SUBSET Keys]
  /\ status \in [Runs -> Statuses]
  /\ steps \in [Runs -> Nat]
  /\ read \in [Runs -> StateFiles]
  /\ file \in StateFiles
  /\ log \in SUBSET Records
  /\ report \in SUBSET Records
  /\ compared \in [Runs -> Seq(Keys)]
  /\ sound \in [Runs -> BOOLEAN]

\* A run that has not ended may append one more step, and a verdict is in hand
\* when it is recorded.
StepsInv ==
  \A r \in Runs :
    /\ steps[r] \in 0..MaxSteps
    /\ pc[r] \in Running \cup {"idle"} => steps[r] < MaxSteps
    /\ pc[r] \in {"record", "report", "fill"} => status[r] \in Verdicts
    /\ pc[r] \in Running \ {"plan"} => proposal[r] \in Keys

\* The initial states are well typed.
LEMMA TypesInit == Init => Types /\ StepsInv
<1> SUFFICES ASSUME Init PROVE Types /\ StepsInv
  OBVIOUS
<1>1. NoFile \in StateFiles
  BY DEF NoFile, StateFiles
<1> QED
  BY <1>1, StepsAssumption
     DEF Init, Types, StepsInv, PC, Running, Statuses, Verdicts, Terminal

\* One step per action of a run.
LEMMA TypesStep == Types /\ StepsInv /\ [Next]_vars => Types' /\ StepsInv'
<1> SUFFICES ASSUME Types, StepsInv, [Next]_vars PROVE Types' /\ StepsInv'
  OBVIOUS
<1> USE StepsAssumption
<1> USE DEF Types, StepsInv, PC, Running, Goto, loop, profiles, stores, notes
<1>1. ASSUME NEW r \in Runs, Start(r) PROVE Types' /\ StepsInv'
  BY <1>1 DEF Start
<1>2. ASSUME NEW r \in Runs, Plan(r) PROVE Types' /\ StepsInv'
  <2>1. PICK a \in Answers :
          LET key == <<a.task_kind, a.target_ref>>
          IN  /\ proposal' = [proposal EXCEPT ![r] = key]
              /\ seen' = [seen EXCEPT ![r] = @ \cup {key}]
              /\ \/ /\ status' = [status EXCEPT ![r] = "planned"]
                    /\ Goto(r, "read")
                    /\ UNCHANGED compared
                 \/ /\ compared' = [compared EXCEPT ![r] = Append(@, key)]
                    /\ Goto(r, "compare")
                    /\ UNCHANGED status
    BY <1>2 DEF Plan
  <2> DEFINE key == <<a.task_kind, a.target_ref>>
  <2>2. key \in Keys
    BY DEF Keys
  <2> HIDE DEF key
  <2>3. /\ proposal' = [proposal EXCEPT ![r] = key]
        /\ seen' = [seen EXCEPT ![r] = @ \cup {key}]
        /\ \/ /\ status' = [status EXCEPT ![r] = "planned"]
              /\ Goto(r, "read")
              /\ UNCHANGED compared
           \/ /\ compared' = [compared EXCEPT ![r] = Append(compared[r], key)]
              /\ Goto(r, "compare")
              /\ UNCHANGED status
    BY <2>1 DEF key
  <2>4. Append(compared[r], key) \in Seq(Keys)
    BY <2>2
  <2>5. compared' \in [Runs -> Seq(Keys)]
    BY <2>3, <2>4
  <2>6. pc[r] = "plan" /\ UNCHANGED <<profiles, steps, read, stores, sound>>
    BY <1>2 DEF Plan
  <2>7. proposal' \in [Runs -> Keys \cup {NoKey}] /\ seen' \in [Runs -> SUBSET Keys]
    BY <2>2, <2>3
  <2>8. status' \in [Runs -> Statuses] /\ pc' \in [Runs -> PC]
    BY <2>3 DEF Statuses, Terminal
  <2>9. Types'
    BY <2>5, <2>6, <2>7, <2>8
  <2>10. ASSUME NEW q \in Runs
         PROVE  /\ steps'[q] \in 0..MaxSteps
                /\ pc'[q] \in Running \cup {"idle"} => steps'[q] < MaxSteps
                /\ pc'[q] \in {"record", "report", "fill"} => status'[q] \in Verdicts
                /\ pc'[q] \in Running \ {"plan"} => proposal'[q] \in Keys
    <3>1. CASE q = r
      BY <2>2, <2>3, <2>6, <3>1
    <3>2. CASE q # r
      BY <2>3, <2>6, <3>2
    <3> QED BY <3>1, <3>2
  <2> QED BY <2>9, <2>10
<1>3. ASSUME NEW r \in Runs, PlanRejected(r) PROVE Types' /\ StepsInv'
  BY <1>3 DEF PlanRejected
<1>4. ASSUME NEW r \in Runs, Compare(r) PROVE Types' /\ StepsInv'
  <2>1. PICK v \in Verdicts, b \in BOOLEAN :
          status' = [status EXCEPT ![r] = v] /\ sound' = [sound EXCEPT ![r] = b]
    <3>1. ASSUME NEW o \in Outcomes PROVE o.verdict \in Verdicts /\ o.reproduced \in BOOLEAN
      <4>1. PICK rs \in [1..4 -> Responses] :
              o = [verdict |-> Verdict(rs, Requested), reproduced |-> Reproduced(rs, Requested)]
        BY <3>1 DEF Outcomes
      <4>2. Verdict(rs, Requested) \in Verdicts
        BY DEF Verdict, Verdicts
      <4>3. Reproduced(rs, Requested) \in BOOLEAN
        BY DEF Reproduced
      <4> QED BY <4>1, <4>2, <4>3
    <3> QED BY <1>4, <3>1 DEF Compare, Verdicts
  <2> QED BY <1>4, <2>1 DEF Compare, Statuses
<1>5. ASSUME NEW r \in Runs, RecordValidation(r) PROVE Types' /\ StepsInv'
  <2>1. pc[r] = "record"
    BY <1>5 DEF RecordValidation
  <2>3. status[r] \in Verdicts /\ steps[r] < MaxSteps
    BY <2>1
  <2>4. steps[r] \in 0..MaxSteps - 1
    BY <2>3
  <2>2. Record(r) \in Records
    BY <2>3, <2>4 DEF Record, Records
  <2> QED BY <1>5, <2>2 DEF RecordValidation
<1>6. ASSUME NEW r \in Runs, OpenReport(r) PROVE Types' /\ StepsInv'
  BY <1>6 DEF OpenReport
<1>7. ASSUME NEW r \in Runs, FillReport(r) PROVE Types' /\ StepsInv'
  <2>1. pc[r] = "fill"
    BY <1>7 DEF FillReport
  <2>3. status[r] \in Verdicts /\ steps[r] < MaxSteps
    BY <2>1
  <2>4. steps[r] \in 0..MaxSteps - 1
    BY <2>3
  <2>2. Record(r) \in Records
    BY <2>3, <2>4 DEF Record, Records
  <2> QED BY <1>7, <2>2 DEF FillReport
<1>8. ASSUME NEW r \in Runs, ReadState(r) PROVE Types' /\ StepsInv'
  <2>1. Fresh(hash[r]) \in StateFiles
    BY DEF Fresh, StateFiles
  <2>2. PICK current \in StateFiles :
          \/ /\ read' = [read EXCEPT ![r] = current]
             /\ Goto(r, "replace")
          \/ /\ Goto(r, "failed")
             /\ UNCHANGED read
    BY <1>8, <2>1 DEF ReadState
  <2>3. pc[r] = "read" /\ UNCHANGED <<profiles, proposal, seen, status, steps, stores, notes>>
    BY <1>8 DEF ReadState
  <2>4. Types'
    BY <2>2, <2>3
  <2>5. ASSUME NEW q \in Runs
        PROVE  /\ pc'[q] \in Running \cup {"idle"} => pc[q] \in Running \cup {"idle"}
               /\ pc'[q] \in {"record", "report", "fill"} => pc'[q] = pc[q]
               /\ pc'[q] \in Running \ {"plan"} => pc[q] \in Running \ {"plan"}
    BY <2>2, <2>3
  <2> QED BY <2>3, <2>4, <2>5
<1>9. ASSUME NEW r \in Runs, ReplaceState(r) \/ ReplaceAndDie(r) PROVE Types' /\ StepsInv'
  <2>1. Step(r) \in StepRecords
    BY DEF Step, StepRecords, StateFiles
  <2>2. file' = [read[r] EXCEPT !.steps = Append(read[r].steps, Step(r))]
    BY <1>9 DEF ReplaceState, ReplaceAndDie, StateFiles
  <2>3. file' \in StateFiles
    <3>1. /\ read[r].hash \in Hashes \cup {"none"} /\ read[r].steps \in Seq(StepRecords)
          /\ read[r] = [hash |-> read[r].hash, steps |-> read[r].steps]
      BY DEF StateFiles
    <3>2. Append(read[r].steps, Step(r)) \in Seq(StepRecords)
      BY <2>1, <3>1
    <3>3. file' = [hash |-> read[r].hash, steps |-> Append(read[r].steps, Step(r))]
      BY <2>2, <3>1
    <3> QED BY <3>1, <3>2, <3>3 DEF StateFiles
  <2>4. NoFile \in StateFiles
    BY DEF NoFile, StateFiles
  <2>5. CASE ReplaceState(r)
    BY <2>3, <2>4, <2>5 DEF ReplaceState
  <2>6. CASE ReplaceAndDie(r)
    BY <2>3, <2>4, <2>6 DEF ReplaceAndDie
  <2> QED BY <1>9, <2>5, <2>6
<1>10. ASSUME NEW r \in Runs, Abort(r) PROVE Types' /\ StepsInv'
  <2>1. NoFile \in StateFiles
    BY DEF NoFile, StateFiles
  <2> QED BY <1>10, <2>1 DEF Abort
<1>11. CASE UNCHANGED vars
  BY <1>11 DEF vars
<1> QED
  BY <1>1, <1>2, <1>3, <1>4, <1>5, <1>6, <1>7, <1>8, <1>9, <1>10, <1>11
     DEF Next, RunStep

\* Every reachable state is well typed, and no run appends more than max_steps.
THEOREM TypesInvariant == Spec => [](Types /\ StepsInv)
<1>1. Init => Types /\ StepsInv
  BY TypesInit
<1>2. Types /\ StepsInv /\ [Next]_vars => (Types /\ StepsInv)'
  BY TypesStep
<1> QED BY <1>1, <1>2, PTL DEF Spec

-----------------------------------------------------------------------------
(* Verdicts, evidence records and reports.                                 *)

\* A verified verdict in hand was reproduced, and its report is written after
\* its evidence record.
EvidenceInv ==
  /\ \A r \in Runs :
       /\ pc[r] \in {"record", "report", "fill"} /\ status[r] = "verified" => sound[r]
       /\ pc[r] \in {"report", "fill"} => status[r] = "verified" /\ Record(r) \in log
  /\ VerifiedIsReproduced
  /\ ReportHasEvidence

\* The verdict of any four responses, by VerdictSound.
LEMMA OutcomesSound ==
  ASSUME NEW o \in Outcomes, o.verdict = "verified" PROVE o.reproduced
<1>1. PICK rs \in [1..4 -> Responses] :
        o = [verdict |-> Verdict(rs, Requested), reproduced |-> Reproduced(rs, Requested)]
  BY DEF Outcomes
<1>2. Verdict(rs, Requested) = "verified"
  BY <1>1
<1>3. Reproduced(rs, Requested)
  BY <1>2, ResponsesAssumption, VerdictSound
<1> QED BY <1>1, <1>3

\* A step of one run leaves the record that another one is reporting on.
LEMMA EvidenceStep ==
  Types /\ EvidenceInv /\ [Next]_vars => EvidenceInv'
<1> SUFFICES ASSUME Types, EvidenceInv, [Next]_vars PROVE EvidenceInv'
  OBVIOUS
<1> USE DEF Types, Running, Goto, loop, profiles, stores, notes
<1> USE DEF EvidenceInv, VerifiedIsReproduced, ReportHasEvidence, Record
<1>1. ASSUME NEW r \in Runs, Start(r) PROVE EvidenceInv'
  BY <1>1 DEF Start
<1>2. ASSUME NEW r \in Runs, Plan(r) PROVE EvidenceInv'
  <2>1. pc[r] = "plan" /\ UNCHANGED <<profiles, steps, read, stores, sound>>
    BY <1>2 DEF Plan
  <2>2. PICK l \in {"read", "compare"} : pc' = [pc EXCEPT ![r] = l]
    BY <1>2 DEF Plan
  <2>3. \A q \in Runs \ {r} : status'[q] = status[q]
    BY <1>2 DEF Plan
  <2> QED BY <2>1, <2>2, <2>3
<1>3. ASSUME NEW r \in Runs, PlanRejected(r) PROVE EvidenceInv'
  BY <1>3 DEF PlanRejected
<1>4. ASSUME NEW r \in Runs, Compare(r) PROVE EvidenceInv'
  <2>1. PICK v, b : /\ status' = [status EXCEPT ![r] = v]
                    /\ sound' = [sound EXCEPT ![r] = b]
                    /\ v = "verified" => b
    BY <1>4, OutcomesSound DEF Compare
  <2>2. /\ pc[r] = "compare" /\ pc' = [pc EXCEPT ![r] = "record"]
        /\ UNCHANGED <<steps, stores>>
    BY <1>4 DEF Compare
  <2> QED BY <2>1, <2>2
<1>5. ASSUME NEW r \in Runs, RecordValidation(r) PROVE EvidenceInv'
  <2>1. pc[r] = "record" /\ log' = log \cup {Record(r)}
    BY <1>5 DEF RecordValidation
  <2>2. Record(r).status = "verified" => Record(r).reproduced
    BY <2>1
  <2> HIDE DEF Record
  <2>3. VerifiedIsReproduced'
    BY <2>1, <2>2
  <2>4. ReportHasEvidence'
    BY <1>5, <2>1 DEF RecordValidation
  <2>5. \A q \in Runs : Record(q)' = Record(q)
    BY <1>5 DEF RecordValidation, Record
  <2> QED BY <1>5, <2>1, <2>3, <2>4, <2>5 DEF RecordValidation
<1>6. ASSUME NEW r \in Runs, OpenReport(r) PROVE EvidenceInv'
  BY <1>6 DEF OpenReport
<1>7. ASSUME NEW r \in Runs, FillReport(r) PROVE EvidenceInv'
  <2>1. pc[r] = "fill" /\ report' \subseteq {Record(r)}
    BY <1>7 DEF FillReport
  <2>2. Record(r).status = "verified" /\ Record(r) \in log
    BY <2>1
  <2> HIDE DEF Record
  <2>3. ReportHasEvidence'
    BY <1>7, <2>1, <2>2 DEF FillReport
  <2>4. \A q \in Runs : Record(q)' = Record(q)
    BY <1>7 DEF FillReport, Record
  <2> QED BY <1>7, <2>3, <2>4 DEF FillReport
<1>8. ASSUME NEW r \in Runs, ReadState(r) PROVE EvidenceInv'
  <2>1. PICK l \in {"replace", "failed"} : pc' = [pc EXCEPT ![r] = l]
    BY <1>8 DEF ReadState
  <2> QED BY <1>8, <2>1 DEF ReadState
<1>9. ASSUME NEW r \in Runs, ReplaceState(r) PROVE EvidenceInv'
  <2>1. PICK l \in {"done", "plan"} : pc' = [pc EXCEPT ![r] = l]
    BY <1>9 DEF ReplaceState
  <2>2. \A q \in Runs \ {r} : steps'[q] = steps[q]
    BY <1>9 DEF ReplaceState
  <2> QED BY <1>9, <2>1, <2>2 DEF ReplaceState
<1>10. ASSUME NEW r \in Runs, Abort(r) \/ ReplaceAndDie(r) PROVE EvidenceInv'
  BY <1>10 DEF Abort, ReplaceAndDie
<1>11. CASE UNCHANGED vars
  BY <1>11 DEF vars
<1> QED
  BY <1>1, <1>2, <1>3, <1>4, <1>5, <1>6, <1>7, <1>8, <1>9, <1>10, <1>11
     DEF Next, RunStep

\* So both hold in every reachable state.
LEMMA EvidenceInvariant == Spec => [](Types /\ EvidenceInv)
<1>1. Init => EvidenceInv
  BY DEF Init, EvidenceInv, VerifiedIsReproduced, ReportHasEvidence
<1>2. Types /\ EvidenceInv /\ [Next]_vars => EvidenceInv'
  BY EvidenceStep
<1> QED BY <1>1, <1>2, TypesInvariant, PTL DEF Spec

\* A comparison recorded as verified was reproduced, for all field sets, all
\* responses and all interleavings of the runs of an engagement.
THEOREM VerifiedIsReproducedHolds == Spec => []VerifiedIsReproduced
<1>1. EvidenceInv => VerifiedIsReproduced
  BY DEF EvidenceInv
<1> QED BY <1>1, EvidenceInvariant, PTL

\* A report that can be read in full has its evidence record, wherever its run
\* was interrupted and whichever run wrote over it.
THEOREM ReportHasEvidenceHolds == Spec => []ReportHasEvidence
<1>1. EvidenceInv => ReportHasEvidence
  BY DEF EvidenceInv
<1> QED BY <1>1, EvidenceInvariant, PTL

-----------------------------------------------------------------------------
(* The state file.                                                         *)

OnePolicy(f) ==
  \A i \in DOMAIN f.steps : hash[f.steps[i].run] = f.hash /\ f.steps[i].index = i - 1

\* What is in the file, and what any run has read and may put in its place.
PolicyInv ==
  /\ OnePolicy(file)
  /\ \A r \in Runs : OnePolicy(read[r]) /\ (pc[r] = "replace" => read[r].hash = hash[r])

\* A file without steps mixes no policies.
LEMMA EmptyIsOnePolicy ==
  ASSUME NEW h PROVE OnePolicy(Fresh(h)) /\ OnePolicy(NoFile)
BY DEF OnePolicy, Fresh, NoFile

\* Appending a step of a run under the file's own policy.
LEMMA AppendKeepsPolicy ==
  ASSUME Types, NEW r \in Runs, OnePolicy(read[r]), read[r].hash = hash[r]
  PROVE  OnePolicy([read[r] EXCEPT !.steps = Append(read[r].steps, Step(r))])
<1>1. read[r].steps \in Seq(StepRecords) /\ read[r] \in StateFiles
  BY DEF Types, StateFiles
<1> DEFINE new == Append(read[r].steps, Step(r))
<1>2. [read[r] EXCEPT !.steps = new] = [hash |-> read[r].hash, steps |-> new]
  <2>1. read[r] = [hash |-> read[r].hash, steps |-> read[r].steps]
    BY <1>1 DEF StateFiles
  <2> HIDE DEF new
  <2> QED BY <2>1
<1>3. ASSUME NEW i \in DOMAIN new
      PROVE  hash[new[i].run] = read[r].hash /\ new[i].index = i - 1
  <2>1. DOMAIN new = 1..Len(read[r].steps) + 1 /\ Len(read[r].steps) \in Nat
    BY <1>1
  <2>2. CASE i = Len(read[r].steps) + 1
    <3>1. new[i] = Step(r)
      BY <1>1, <2>2
    <3> QED BY <2>1, <2>2, <3>1 DEF Step
  <2>3. CASE i # Len(read[r].steps) + 1
    <3>1. new[i] = read[r].steps[i] /\ i \in DOMAIN read[r].steps
      BY <1>1, <2>1, <2>3
    <3> QED BY <3>1 DEF OnePolicy
  <2> QED BY <2>2, <2>3
<1> QED BY <1>2, <1>3 DEF OnePolicy

\* Only reading and replacing move the file's contents.
LEMMA PolicyStep == Types /\ PolicyInv /\ [Next]_vars => PolicyInv'
<1> SUFFICES ASSUME Types, PolicyInv, [Next]_vars PROVE PolicyInv'
  OBVIOUS
<1> USE DEF PolicyInv, Goto, loop, profiles, stores, notes
<1>1. hash' = hash
  BY DEF Next, RunStep, Start, Plan, PlanRejected, Compare, RecordValidation, OpenReport,
         FillReport, ReadState, ReplaceState, ReplaceAndDie, Abort, vars
<1>2. ASSUME UNCHANGED <<file, read>>, \A q \in Runs : pc'[q] = "replace" => pc[q] = "replace"
      PROVE  PolicyInv'
  BY <1>1, <1>2 DEF OnePolicy
<1>3. ASSUME NEW r \in Runs, ReadState(r) PROVE PolicyInv'
  <2>1. PICK current \in {file, Fresh(hash[r])} :
          \/ /\ current.hash = hash[r]
             /\ read' = [read EXCEPT ![r] = current]
             /\ Goto(r, "replace")
          \/ /\ Goto(r, "failed")
             /\ UNCHANGED read
    BY <1>3 DEF ReadState
  <2>2. OnePolicy(current)
    BY <2>1, EmptyIsOnePolicy
  <2>3. UNCHANGED file
    BY <1>3 DEF ReadState
  <2> QED BY <1>1, <2>1, <2>2, <2>3 DEF OnePolicy, Types
<1>4. ASSUME NEW r \in Runs, ReplaceState(r) \/ ReplaceAndDie(r) PROVE PolicyInv'
  <2>1. /\ file' = [read[r] EXCEPT !.steps = Append(read[r].steps, Step(r))]
        /\ read' = [read EXCEPT ![r] = NoFile]
        /\ pc[r] = "replace" /\ pc'[r] # "replace"
        /\ \A q \in Runs \ {r} : pc'[q] = pc[q]
    BY <1>4 DEF ReplaceState, ReplaceAndDie, Types, StateFiles
  <2>2. OnePolicy([read[r] EXCEPT !.steps = Append(read[r].steps, Step(r))])
    BY <2>1, AppendKeepsPolicy
  <2>3. OnePolicy(NoFile)
    BY EmptyIsOnePolicy
  <2> QED BY <1>1, <2>1, <2>2, <2>3 DEF OnePolicy, Types
<1>5. ASSUME NEW r \in Runs, Abort(r) PROVE PolicyInv'
  <2>1. OnePolicy(NoFile)
    BY EmptyIsOnePolicy
  <2> QED BY <1>1, <1>5, <2>1 DEF Abort, OnePolicy, Types
<1>6. ASSUME NEW r \in Runs,
             \/ Start(r) \/ Plan(r) \/ PlanRejected(r) \/ Compare(r)
             \/ RecordValidation(r) \/ OpenReport(r) \/ FillReport(r)
      PROVE  PolicyInv'
  <2>1. UNCHANGED <<file, read>>
    BY <1>6 DEF Start, Plan, PlanRejected, Compare, RecordValidation, OpenReport, FillReport
  <2>2. PICK l \in PC \ {"replace"} : pc' = [pc EXCEPT ![r] = l]
    BY <1>6 DEF Start, Plan, PlanRejected, Compare, RecordValidation, OpenReport, FillReport, PC
  <2> QED BY <1>2, <2>1, <2>2 DEF Types
<1>7. CASE UNCHANGED vars
  BY <1>2, <1>7 DEF vars
<1> QED BY <1>3, <1>4, <1>5, <1>6, <1>7 DEF Next, RunStep

\* The state file never mixes policies, and indexes are positions, for any
\* number of runs that replace the file under each other.
THEOREM OnePolicyPerFileHolds == Spec => []OnePolicyPerFile
<1>1. Init => PolicyInv
  BY EmptyIsOnePolicy DEF Init, PolicyInv
<1>2. Types /\ PolicyInv /\ [Next]_vars => PolicyInv'
  BY PolicyStep
<1>3. PolicyInv => OnePolicyPerFile
  BY DEF PolicyInv, OnePolicy, OnePolicyPerFile
<1> QED BY <1>1, <1>2, <1>3, TypesInvariant, PTL DEF Spec

-----------------------------------------------------------------------------
(* What a run asks the network for.                                        *)

Ended == {"report", "fill", "read", "replace", "done", "failed"}

\* The keys a run began comparisons for are among the ones it remembers, each
\* once; every step but a planned one, which ends the run, is a comparison.
Compared(r) ==
  /\ \A i \in 1..Len(compared[r]) : compared[r][i] \in seen[r]
  /\ \A i, j \in 1..Len(compared[r]) : compared[r][i] = compared[r][j] => i = j
  /\ \A i \in 1..Len(compared[r]) : compared[r][i][1] \in ExecutableTasks
  /\ Len(compared[r]) <= MaxSteps
Counted(r) ==
  /\ pc[r] \in {"idle", "plan"} => Len(compared[r]) = steps[r]
  /\ pc[r] \in {"compare", "record", "report", "fill"} => Len(compared[r]) = steps[r] + 1
  /\ pc[r] \in {"read", "replace"} /\ status[r] # "planned" => Len(compared[r]) = steps[r] + 1
Ends(r) ==
  \A v \in log : v.run = r /\ v.status # "candidate" =>
    /\ Len(compared[r]) = v.step + 1
    /\ pc[r] \in Ended
    /\ pc[r] \in {"report", "fill", "read", "replace"} => status[r] \in Terminal
NetworkInv == \A r \in Runs : Compared(r) /\ Counted(r) /\ Ends(r)

\* A run is not disturbed by a step that leaves its own variables and the
\* records of its own verdicts.
LEMMA OthersKeep ==
  ASSUME NEW q \in Runs, Compared(q), Counted(q), Ends(q),
         compared'[q] = compared[q], seen'[q] = seen[q], steps'[q] = steps[q],
         status'[q] = status[q], pc'[q] = pc[q],
         \A v \in log' : v.run = q => v \in log
  PROVE  Compared(q)' /\ Counted(q)' /\ Ends(q)'
BY DEF Compared, Counted, Ends

\* The taken-up proposal is new to the run when its comparison begins.
LEMMA PlanKeepsNetworkInv ==
  ASSUME Types, StepsInv, NetworkInv, NEW r \in Runs, Plan(r) PROVE NetworkInv'
<1> USE StepsAssumption DEF loop, profiles, stores, notes, Goto
<1>1. pc[r] = "plan" /\ UNCHANGED <<steps, stores>>
  BY DEF Plan
<1>2. Compared(r) /\ Counted(r) /\ Ends(r) /\ compared[r] \in Seq(Keys)
  BY DEF NetworkInv, Types
<1>3. Len(compared[r]) = steps[r] /\ steps[r] < MaxSteps /\ steps[r] \in Nat
  BY <1>1, <1>2 DEF Counted, StepsInv, Running, PC, Types
<1>4. \A v \in log : v.run = r => v.status = "candidate"
  BY <1>1, <1>2 DEF Ends, Ended
<1>5. \A q \in Runs \ {r} :
        /\ compared'[q] = compared[q] /\ seen'[q] = seen[q]
        /\ status'[q] = status[q] /\ pc'[q] = pc[q]
  BY DEF Plan, Types
<1>6. PICK a \in Answers :
        LET key == <<a.task_kind, a.target_ref>>
        IN  /\ seen' = [seen EXCEPT ![r] = @ \cup {key}]
            /\ \/ /\ status' = [status EXCEPT ![r] = "planned"]
                  /\ Goto(r, "read")
                  /\ UNCHANGED compared
               \/ /\ key \notin seen[r] /\ a.task_kind \in ExecutableTasks
                  /\ compared' = [compared EXCEPT ![r] = Append(@, key)]
                  /\ Goto(r, "compare")
                  /\ UNCHANGED status
  BY DEF Plan
<1> DEFINE key == <<a.task_kind, a.target_ref>>
<1>7. seen'[r] = seen[r] \cup {key}
  BY <1>6 DEF Types
<1>8. Compared(r)' /\ Counted(r)' /\ Ends(r)'
  <2>1. CASE status' = [status EXCEPT ![r] = "planned"] /\ Goto(r, "read") /\ UNCHANGED compared
    <3>1. Compared(r)'
      BY <1>2, <1>7, <2>1 DEF Compared
    <3>2. Counted(r)' /\ Ends(r)'
      BY <1>1, <1>4, <2>1 DEF Counted, Ends, Types
    <3> QED BY <3>1, <3>2
  <2>2. CASE /\ key \notin seen[r] /\ a.task_kind \in ExecutableTasks
             /\ compared' = [compared EXCEPT ![r] = Append(@, key)]
             /\ Goto(r, "compare")
             /\ UNCHANGED status
    <3>1. key[1] \in ExecutableTasks /\ key \notin seen[r] /\ key \in Keys
      BY <2>2 DEF Keys
    <3> HIDE DEF key
    <3>2. /\ compared'[r] = Append(compared[r], key) /\ Len(compared'[r]) = steps[r] + 1
          /\ compared'[r][steps[r] + 1] = key
          /\ \A i \in 1..steps[r] : compared'[r][i] = compared[r][i]
      BY <1>2, <1>3, <2>2, <3>1 DEF Types
    <3>3. \A i \in 1..Len(compared'[r]) : i = steps[r] + 1 \/ i \in 1..steps[r]
      BY <1>3, <3>2
    <3>4. Compared(r)'
      BY <1>2, <1>3, <1>7, <3>1, <3>2, <3>3 DEF Compared, Types
    <3>5. Counted(r)' /\ Ends(r)'
      BY <1>1, <1>3, <1>4, <2>2, <3>2 DEF Counted, Ends, Types
    <3> QED BY <3>4, <3>5
  <2> QED BY <1>6, <2>1, <2>2
<1>9. ASSUME NEW q \in Runs \ {r} PROVE Compared(q)' /\ Counted(q)' /\ Ends(q)'
  BY <1>1, <1>5, OthersKeep DEF NetworkInv
<1> QED BY <1>8, <1>9 DEF NetworkInv

\* A verdict is recorded at the step whose comparison is the run's last so far.
LEMMA RecordKeepsNetworkInv ==
  ASSUME Types, StepsInv, NetworkInv, NEW r \in Runs, RecordValidation(r) PROVE NetworkInv'
<1> USE DEF loop, profiles, stores, notes, Goto
<1>1. /\ pc[r] = "record" /\ log' = log \cup {Record(r)}
      /\ pc' = [pc EXCEPT ![r] = IF status[r] = "verified" THEN "report" ELSE "read"]
      /\ UNCHANGED <<seen, status, steps, compared>>
  BY DEF RecordValidation
<1>2. Compared(r) /\ Counted(r) /\ Ends(r)
  BY DEF NetworkInv
<1>3. Len(compared[r]) = steps[r] + 1 /\ status[r] \in Verdicts
  BY <1>1, <1>2 DEF Counted, StepsInv
<1>4. Record(r).run = r /\ Record(r).step = steps[r] /\ Record(r).status = status[r]
  BY DEF Record
<1>5. pc'[r] = IF status[r] = "verified" THEN "report" ELSE "read"
  BY <1>1 DEF Types
<1>6. Ends(r)'
  BY <1>1, <1>2, <1>3, <1>4, <1>5 DEF Ends, Ended, Verdicts, Terminal
<1>7. Compared(r)' /\ Counted(r)'
  BY <1>1, <1>2, <1>3, <1>5 DEF Compared, Counted
<1>8. ASSUME NEW q \in Runs \ {r} PROVE Compared(q)' /\ Counted(q)' /\ Ends(q)'
  <2>1. \A v \in log' : v.run = q => v \in log
    BY <1>1, <1>4
  <2> QED BY <1>1, <2>1, OthersKeep DEF NetworkInv, Types
<1> QED BY <1>6, <1>7, <1>8 DEF NetworkInv

\* A step that is not planned was a comparison; a terminal one ends the run.
LEMMA ReplaceKeepsNetworkInv ==
  ASSUME Types, StepsInv, NetworkInv, NEW r \in Runs, ReplaceState(r) PROVE NetworkInv'
<1> USE DEF loop, profiles, stores, notes, Goto
<1>1. /\ pc[r] = "replace" /\ steps' = [steps EXCEPT ![r] = @ + 1]
      /\ pc' = [pc EXCEPT ![r] = IF status[r] \in Terminal \/ steps[r] + 1 = MaxSteps
                                 THEN "done" ELSE "plan"]
      /\ UNCHANGED <<seen, status, compared, log>>
  BY DEF ReplaceState
<1>2. Compared(r) /\ Counted(r) /\ Ends(r)
  BY DEF NetworkInv
<1>3. steps'[r] = steps[r] + 1 /\ pc'[r] \in {"done", "plan"}
      /\ (pc'[r] = "plan" => status[r] \notin Terminal)
  BY <1>1 DEF Types
<1>4. Counted(r)' /\ Ends(r)'
  BY <1>1, <1>2, <1>3 DEF Counted, Ends, Ended, Terminal
<1>5. Compared(r)'
  BY <1>1, <1>2 DEF Compared
<1>6. ASSUME NEW q \in Runs \ {r} PROVE Compared(q)' /\ Counted(q)' /\ Ends(q)'
  BY <1>1, OthersKeep DEF NetworkInv, Types
<1> QED BY <1>4, <1>5, <1>6 DEF NetworkInv

\* One step per action of a run.
LEMMA NetworkStep == Types /\ StepsInv /\ NetworkInv /\ [Next]_vars => NetworkInv'
<1> SUFFICES ASSUME Types, StepsInv, NetworkInv, [Next]_vars PROVE NetworkInv'
  OBVIOUS
<1> USE DEF loop, profiles, stores, notes, Goto
<1>1. ASSUME NEW r \in Runs, Start(r) PROVE NetworkInv'
  <2>1. /\ pc[r] = "idle" /\ pc' = [pc EXCEPT ![r] = "plan"]
        /\ UNCHANGED <<seen, status, steps, compared, log>>
    BY <1>1 DEF Start
  <2>2. Compared(r)' /\ Counted(r)' /\ Ends(r)'
    BY <2>1 DEF NetworkInv, Types, Compared, Counted, Ends, Ended
  <2>3. ASSUME NEW q \in Runs \ {r} PROVE Compared(q)' /\ Counted(q)' /\ Ends(q)'
    BY <2>1, OthersKeep DEF NetworkInv, Types
  <2> QED BY <2>2, <2>3 DEF NetworkInv
<1>2. ASSUME NEW r \in Runs, Compare(r) PROVE NetworkInv'
  <2>1. /\ pc[r] = "compare" /\ pc' = [pc EXCEPT ![r] = "record"]
        /\ UNCHANGED <<seen, steps, compared, log>>
        /\ \A q \in Runs \ {r} : status'[q] = status[q]
    BY <1>2 DEF Compare, Types
  <2>2. Compared(r)' /\ Counted(r)' /\ Ends(r)'
    BY <2>1 DEF NetworkInv, Types, Compared, Counted, Ends, Ended
  <2>3. ASSUME NEW q \in Runs \ {r} PROVE Compared(q)' /\ Counted(q)' /\ Ends(q)'
    BY <2>1, OthersKeep DEF NetworkInv, Types
  <2> QED BY <2>2, <2>3 DEF NetworkInv
<1>3. ASSUME NEW r \in Runs, OpenReport(r) PROVE NetworkInv'
  BY <1>3 DEF OpenReport, NetworkInv, Types, Compared, Counted, Ends, Ended
<1>4. ASSUME NEW r \in Runs, FillReport(r) PROVE NetworkInv'
  BY <1>4 DEF FillReport, NetworkInv, Types, Compared, Counted, Ends, Ended
<1>5. ASSUME NEW r \in Runs, ReadState(r) PROVE NetworkInv'
  <2>1. PICK l \in {"replace", "failed"} : pc' = [pc EXCEPT ![r] = l]
    BY <1>5 DEF ReadState
  <2>2. pc[r] = "read" /\ UNCHANGED <<seen, status, steps, compared, log>>
    BY <1>5 DEF ReadState
  <2>3. Compared(r)' /\ Counted(r)' /\ Ends(r)'
    BY <2>1, <2>2 DEF NetworkInv, Types, Compared, Counted, Ends, Ended
  <2>4. ASSUME NEW q \in Runs \ {r} PROVE Compared(q)' /\ Counted(q)' /\ Ends(q)'
    BY <2>1, <2>2, OthersKeep DEF NetworkInv, Types
  <2> QED BY <2>3, <2>4 DEF NetworkInv
<1>6. ASSUME NEW r \in Runs, PlanRejected(r) \/ ReplaceAndDie(r) \/ Abort(r) PROVE NetworkInv'
  <2>1. /\ pc' = [pc EXCEPT ![r] = "failed"]
        /\ UNCHANGED <<seen, status, steps, compared, log>>
    BY <1>6 DEF PlanRejected, ReplaceAndDie, Abort
  <2> QED BY <2>1 DEF NetworkInv, Types, Compared, Counted, Ends, Ended
<1>7. CASE UNCHANGED vars
  BY <1>7 DEF vars, NetworkInv, Compared, Counted, Ends
<1> QED
  BY <1>1, <1>2, <1>3, <1>4, <1>5, <1>6, <1>7, PlanKeepsNetworkInv, RecordKeepsNetworkInv,
     ReplaceKeepsNetworkInv DEF Next, RunStep

\* So the comparisons of a run are counted by its steps in every reachable state.
LEMMA NetworkInvariant == Spec => [](Types /\ NetworkInv)
<1>1. Init => NetworkInv
  BY StepsAssumption DEF Init, NetworkInv, Compared, Counted, Ends
<1>2. Types /\ StepsInv /\ NetworkInv /\ [Next]_vars => NetworkInv'
  BY NetworkStep
<1> QED BY <1>1, <1>2, TypesInvariant, PTL DEF Spec

\* Whatever the model answers, a run begins at most max_steps comparisons, each
\* for an executable proposal of its own.
THEOREM ComparisonsBoundedHolds == Spec => []ComparisonsBounded
<1>1. Types /\ NetworkInv => ComparisonsBounded
  <2> SUFFICES ASSUME Types, NetworkInv, NEW r \in Runs
               PROVE  /\ Len(compared[r]) <= MaxSteps
                      /\ \A i, j \in DOMAIN compared[r] :
                           compared[r][i] = compared[r][j] => i = j
                      /\ \A i \in DOMAIN compared[r] : compared[r][i][1] \in ExecutableTasks
    BY DEF ComparisonsBounded
  <2>1. DOMAIN compared[r] = 1..Len(compared[r])
    BY DEF Types
  <2> QED BY <2>1 DEF NetworkInv, Compared
<1> QED BY <1>1, NetworkInvariant, PTL

\* A verified or rejected verdict is the last thing a run asks the network for.
THEOREM VerdictEndsRunHolds == Spec => []VerdictEndsRun
<1>1. Types /\ NetworkInv => VerdictEndsRun
  BY DEF VerdictEndsRun, NetworkInv, Ends, Types, Records
<1> QED BY <1>1, NetworkInvariant, PTL

-----------------------------------------------------------------------------
(* Runs that do not overlap.                                               *)

Positions(f, r) == {j \in DOMAIN f.steps : f.steps[j].run = r}

\* What the file has of the run r are its steps 0, 1, .. up to the last one
\* returned, each once, and that of an append it died in.
Kept(r) ==
  LET kept == Cardinality(Positions(file, r))
  IN  /\ {file.steps[i].step : i \in Positions(file, r)} = 0..kept - 1
      /\ kept = steps[r] \/ (pc[r] = "failed" /\ kept = steps[r] + 1)

\* As long as runs do not overlap, one of them is active, what it has read is
\* still the file, and runs of another policy than the file's have no steps.
SerialInv ==
  /\ overlapped \in BOOLEAN
  /\ ~overlapped =>
       /\ \A r, q \in ActiveRuns : r = q
       /\ \A r \in Runs : pc[r] = "replace" =>
            read[r] = IF file = NoFile THEN Fresh(hash[r]) ELSE file
       /\ \A r \in Runs : Kept(r)
       /\ file # NoFile => \A r \in Runs : hash[r] # file.hash => steps[r] = 0

\* A step that neither starts a run nor reads or replaces the file.
LEMMA QuietKeepsSerial ==
  ASSUME SerialInv, UNCHANGED <<file, steps, hash, overlapped>>,
         \A q \in Runs : pc'[q] \in Running => pc[q] \in Running,
         \A q \in Runs : pc[q] = "failed" => pc'[q] = "failed",
         \A q \in Runs : pc'[q] = "replace" => pc[q] = "replace" /\ read'[q] = read[q]
  PROVE  SerialInv'
<1>1. \A q \in Runs : Kept(q) => Kept(q)'
  BY DEF Kept, Positions
<1>2. ActiveRuns' \subseteq ActiveRuns
  BY DEF ActiveRuns
<1> QED
  BY <1>1, <1>2 DEF SerialInv

\* What os.replace does, whether append returns or not.
Replaces(r) == pc[r] = "replace" /\ file' = [read[r] EXCEPT !.steps = Append(@, Step(r))]

\* Without overlap, replacing the file appends to it under its own policy.
LEMMA ReplaceAppends ==
  ASSUME Types, PolicyInv, SerialInv, ~overlapped, NEW r \in Runs, Replaces(r)
  PROVE  /\ file'.hash = hash[r] /\ (file # NoFile => hash[r] = file.hash)
         /\ Len(file.steps) \in Nat
         /\ DOMAIN file.steps = 1..Len(file.steps)
         /\ DOMAIN file'.steps = 1..Len(file.steps) + 1
         /\ \A i \in 1..Len(file.steps) : file'.steps[i] = file.steps[i]
         /\ file'.steps[Len(file.steps) + 1] = Step(r)
<1>1. pc[r] = "replace" /\ file' = [read[r] EXCEPT !.steps = Append(@, Step(r))]
  BY DEF Replaces
<1>2. /\ read[r].hash = hash[r]
      /\ read[r] = IF file = NoFile THEN Fresh(hash[r]) ELSE file
  BY <1>1 DEF PolicyInv, SerialInv
<1>3. read[r].steps = file.steps /\ (file # NoFile => hash[r] = file.hash)
  BY <1>2 DEF Fresh, NoFile
<1>4. read[r] \in StateFiles /\ read[r].steps \in Seq(StepRecords)
  BY DEF Types, StateFiles
<1>5. file' = [hash |-> read[r].hash, steps |-> Append(read[r].steps, Step(r))]
  BY <1>1, <1>4 DEF StateFiles
<1>6. file'.hash = hash[r] /\ file'.steps = Append(file.steps, Step(r))
  BY <1>2, <1>3, <1>5
<1>7. file.steps \in Seq(StepRecords)
  BY <1>3, <1>4
<1> QED
  BY <1>3, <1>6, <1>7

\* Where the steps of each run are afterwards.
LEMMA ReplacePositions ==
  ASSUME Types, PolicyInv, SerialInv, ~overlapped, NEW r \in Runs, Replaces(r)
  PROVE  /\ \A q \in Runs \ {r} : Positions(file', q) = Positions(file, q)
         /\ Positions(file', r) = Positions(file, r) \cup {Len(file.steps) + 1}
         /\ Len(file.steps) + 1 \notin Positions(file, r)
         /\ \A q \in Runs : IsFiniteSet(Positions(file, q)) /\ Positions(file, q) \subseteq 1..Len(file.steps)
<1> DEFINE len == Len(file.steps)
<1>1. /\ len \in Nat /\ DOMAIN file.steps = 1..len /\ DOMAIN file'.steps = 1..len + 1
      /\ \A i \in 1..len : file'.steps[i] = file.steps[i]
      /\ file'.steps[len + 1] = Step(r)
  BY ReplaceAppends
<1>2. Step(r).run = r
  BY DEF Step
<1>3. IsFiniteSet(1..len)
  BY <1>1, FS_Interval
<1> HIDE DEF len
<1>4. \A i : i \in 1..len + 1 <=> i \in 1..len \/ i = len + 1
  BY <1>1
<1>5. len + 1 \notin 1..len
  BY <1>1
<1>6. \A q \in Runs : Positions(file, q) \subseteq 1..len
  BY <1>1 DEF Positions
<1>7. \A q \in Runs : IsFiniteSet(Positions(file, q))
  BY <1>3, <1>6, FS_Subset
<1>8. \A q \in Runs \ {r} : Positions(file', q) = Positions(file, q)
  BY <1>1, <1>2, <1>4 DEF Positions
<1>9. Positions(file', r) = Positions(file, r) \cup {len + 1}
  BY <1>1, <1>2, <1>4 DEF Positions
<1> QED
  BY <1>5, <1>6, <1>7, <1>8, <1>9 DEF len

\* A step of the only active run keeps the file it read and the steps of all others.
LEMMA SerialStep ==
  Types /\ StepsInv /\ PolicyInv /\ SerialInv /\ [Next]_vars => SerialInv'
<1> SUFFICES ASSUME Types, StepsInv, PolicyInv, SerialInv, [Next]_vars PROVE SerialInv'
  OBVIOUS
<1> USE DEF Goto, loop, profiles, stores, notes
<1>1. ASSUME NEW r \in Runs, Start(r) PROVE SerialInv'
  <2>1. /\ overlapped' = (overlapped \/ ActiveRuns # {})
        /\ pc' = [pc EXCEPT ![r] = "plan"]
        /\ UNCHANGED <<file, steps, hash, read>>
    BY <1>1 DEF Start
  <2>2. overlapped' \in BOOLEAN
    BY <2>1
  <2>3. ASSUME ~overlapped' PROVE ~overlapped /\ ActiveRuns = {}
    BY <2>1, <2>3
  <2>4. ASSUME ~overlapped', NEW p \in ActiveRuns', NEW q \in ActiveRuns' PROVE p = q
    BY <2>1, <2>3, <2>4 DEF ActiveRuns, Types
  <2>5. \A q \in Runs : pc'[q] = "replace" => pc[q] = "replace"
    BY <2>1 DEF Types
  <2>6. \A q \in Runs : pc[q] = "failed" => pc'[q] = "failed"
    BY <1>1, <2>1 DEF Start, Types
  <2> QED
    BY <2>1, <2>2, <2>3, <2>4, <2>5, <2>6 DEF SerialInv, Kept, Positions
<1>2. ASSUME NEW r \in Runs, ReadState(r) PROVE SerialInv'
  <2>1. /\ pc[r] = "read" /\ UNCHANGED <<file, steps, hash, overlapped>>
        /\ \/ /\ read' = [read EXCEPT ![r] = IF file = NoFile THEN Fresh(hash[r]) ELSE file]
              /\ pc' = [pc EXCEPT ![r] = "replace"]
           \/ /\ pc' = [pc EXCEPT ![r] = "failed"]
              /\ UNCHANGED read
    BY <1>2 DEF ReadState
  <2>2. \A q \in Runs : pc'[q] \in Running => pc[q] \in Running
    BY <2>1 DEF Types, Running, PC
  <2>3. \A q \in Runs : pc'[q] = "replace" =>
          \/ pc[q] = "replace" /\ read'[q] = read[q]
          \/ read'[q] = IF file = NoFile THEN Fresh(hash[q]) ELSE file
    BY <2>1 DEF Types
  <2>4. ActiveRuns' \subseteq ActiveRuns
    BY <2>2 DEF ActiveRuns
  <2>5. \A q \in Runs : Kept(q) => Kept(q)'
    <3>1. \A q \in Runs : pc[q] = "failed" => pc'[q] = "failed"
      BY <2>1 DEF Types
    <3> QED
      BY <2>1, <3>1 DEF Kept, Positions
  <2>6. ASSUME ~overlapped, NEW q \in Runs, pc'[q] = "replace"
        PROVE  read'[q] = IF file' = NoFile THEN Fresh(hash'[q]) ELSE file'
    BY <2>1, <2>3, <2>6 DEF SerialInv
  <2> QED
    BY <2>1, <2>4, <2>5, <2>6 DEF SerialInv
<1>3. ASSUME NEW r \in Runs, ReplaceState(r) \/ ReplaceAndDie(r) PROVE SerialInv'
  <2>0. Replaces(r)
    BY <1>3 DEF ReplaceState, ReplaceAndDie, Replaces
  <2>1. pc[r] = "replace" /\ UNCHANGED <<hash, overlapped>>
    BY <1>3 DEF ReplaceState, ReplaceAndDie
  <2>2. PICK l \in {"done", "plan", "failed"} :
          /\ pc' = [pc EXCEPT ![r] = l]
          /\ IF l = "failed" THEN UNCHANGED steps ELSE steps' = [steps EXCEPT ![r] = @ + 1]
    BY <1>3 DEF ReplaceState, ReplaceAndDie
  <2>3. CASE overlapped
    BY <2>1, <2>3 DEF SerialInv
  <2>4. CASE ~overlapped
    <3> DEFINE len == Len(file.steps)
    <3>1. /\ file'.hash = hash[r] /\ (file # NoFile => hash[r] = file.hash)
          /\ len \in Nat
          /\ \A i \in 1..len : file'.steps[i] = file.steps[i]
          /\ file'.steps[len + 1] = Step(r)
      BY <2>0, <2>4, ReplaceAppends
    <3>2. /\ \A q \in Runs \ {r} : Positions(file', q) = Positions(file, q)
          /\ Positions(file', r) = Positions(file, r) \cup {len + 1}
          /\ len + 1 \notin Positions(file, r)
          /\ \A q \in Runs : IsFiniteSet(Positions(file, q)) /\ Positions(file, q) \subseteq 1..len
      BY <2>0, <2>4, ReplacePositions
    <3> HIDE DEF len
    <3>3. r \in ActiveRuns /\ \A q \in ActiveRuns : q = r
      BY <2>1, <2>4 DEF SerialInv, ActiveRuns, Running, PC
    <3>4. \A q \in ActiveRuns' : q = r
      BY <2>2, <3>3 DEF ActiveRuns, Types
    <3>5. \A q \in Runs : pc'[q] # "replace"
      BY <2>2, <3>3 DEF ActiveRuns, Running, PC, Types
    <3>6. /\ steps[r] \in Nat /\ \A q \in Runs \ {r} : steps'[q] = steps[q] /\ pc'[q] = pc[q]
          /\ \/ steps'[r] = steps[r] + 1
             \/ steps'[r] = steps[r] /\ pc'[r] = "failed"
      BY <2>2 DEF Types
    <3>7. ASSUME NEW q \in Runs PROVE Kept(q)'
      <4>1. Kept(q)
        BY <2>4 DEF SerialInv
      <4>2. CASE q # r
        <5>1. \A i \in Positions(file, q) : file'.steps[i] = file.steps[i]
          BY <3>1, <3>2
        <5>2. {file'.steps[i].step : i \in Positions(file', q)}
                = {file.steps[i].step : i \in Positions(file, q)}
          BY <3>2, <4>2, <5>1
        <5> QED
          BY <3>2, <3>6, <4>1, <4>2, <5>2 DEF Kept
      <4>3. CASE q = r
        <5>1. Step(r).step = steps[r]
          BY DEF Step
        <5>2. {file'.steps[i].step : i \in Positions(file', r)}
                = {file.steps[i].step : i \in Positions(file, r)} \cup {steps[r]}
          BY <3>1, <3>2, <5>1
        <5>3. (0..steps[r] - 1) \cup {steps[r]} = 0..(steps[r] + 1) - 1
          BY <3>6
        <5>4. Cardinality(Positions(file', r)) = Cardinality(Positions(file, r)) + 1
          BY <3>2, FS_AddElement
        <5>5. /\ Cardinality(Positions(file, r)) = steps[r]
              /\ {file.steps[i].step : i \in Positions(file, r)} = 0..steps[r] - 1
          BY <2>1, <4>1, <4>3 DEF Kept
        <5>6. /\ Cardinality(Positions(file', r)) = steps[r] + 1
              /\ {file'.steps[i].step : i \in Positions(file', r)} = 0..(steps[r] + 1) - 1
          BY <5>2, <5>3, <5>4, <5>5
        <5> QED
          BY <3>6, <4>3, <5>6 DEF Kept
      <4> QED
        BY <4>2, <4>3
    <3>8. ASSUME NEW q \in Runs, hash'[q] # file'.hash PROVE steps'[q] = 0
      <4>1. q # r /\ hash[q] # hash[r]
        BY <2>1, <3>1, <3>8
      <4>2. CASE file = NoFile
        <5>1. Positions(file, q) = {} /\ Kept(q)
          BY <2>4, <4>2 DEF Positions, NoFile, SerialInv
        <5>2. steps[q] = 0
          BY <5>1, FS_EmptySet DEF Kept, Types
        <5> QED
          BY <3>6, <4>1, <5>2
      <4>3. CASE file # NoFile
        BY <2>4, <3>1, <3>6, <4>1, <4>3 DEF SerialInv
      <4> QED
        BY <4>2, <4>3
    <3> QED
      BY <2>1, <2>4, <3>4, <3>5, <3>7, <3>8 DEF SerialInv
  <2> QED
    BY <2>3, <2>4 DEF SerialInv
<1>4. ASSUME NEW r \in Runs,
             \/ Plan(r) \/ PlanRejected(r) \/ Compare(r) \/ RecordValidation(r)
             \/ OpenReport(r) \/ FillReport(r) \/ Abort(r)
      PROVE  SerialInv'
  <2>0. pc[r] # "failed"
    BY <1>4 DEF Plan, PlanRejected, Compare, RecordValidation, OpenReport, FillReport, Abort,
                Running
  <2>1. UNCHANGED <<file, steps, hash, overlapped>> /\ pc[r] \in Running
    BY <1>4 DEF Plan, PlanRejected, Compare, RecordValidation, OpenReport, FillReport, Abort,
                Running, PC
  <2>2. PICK l \in PC \ {"replace"} : pc' = [pc EXCEPT ![r] = l]
    BY <1>4 DEF Plan, PlanRejected, Compare, RecordValidation, OpenReport, FillReport, Abort, PC
  <2>3. \A q \in Runs \ {r} : read'[q] = read[q]
    BY <1>4 DEF Plan, PlanRejected, Compare, RecordValidation, OpenReport, FillReport, Abort, Types
  <2> QED
    BY <2>0, <2>1, <2>2, <2>3, QuietKeepsSerial DEF Types
<1>5. CASE UNCHANGED vars
  BY <1>5, QuietKeepsSerial DEF vars
<1> QED
  BY <1>1, <1>2, <1>3, <1>4, <1>5 DEF Next, RunStep

\* As long as runs do not overlap, the file has the steps that append returned,
\* each once, in every reachable state.
LEMMA SerialInvariant == Spec => [](Types /\ PolicyInv /\ SerialInv)
<1>1. Init => PolicyInv /\ SerialInv
  <2> SUFFICES ASSUME Init PROVE PolicyInv /\ SerialInv
    OBVIOUS
  <2>1. PolicyInv
    BY EmptyIsOnePolicy DEF Init, PolicyInv
  <2>2. \A r \in Runs : Positions(file, r) = {} /\ steps[r] = 0
    BY DEF Init, NoFile, Positions
  <2>3. \A r \in Runs : Kept(r)
    <3>1. Cardinality({}) = 0 /\ 0..0 - 1 = {}
      BY FS_EmptySet
    <3> QED
      BY <2>2, <3>1 DEF Kept
  <2> QED
    BY <2>1, <2>3 DEF Init, SerialInv, ActiveRuns, Running, PC
<1>2. Types /\ StepsInv /\ PolicyInv /\ SerialInv /\ [Next]_vars => PolicyInv' /\ SerialInv'
  BY PolicyStep, SerialStep
<1> QED
  BY <1>1, <1>2, TypesInvariant, PTL DEF Spec

\* Nothing append returned is missing from the file or in it twice, for any
\* number of runs one after the other, those that were aborted included; the
\* step a dying run did not return may be in it as well.
THEOREM StepsKeptHolds == Spec => []StepsKept
<1>1. SerialInv => StepsKept
  BY DEF SerialInv, Kept, Positions, StepsKept
<1> QED
  BY <1>1, SerialInvariant, PTL

\* A run begins a comparison no more often than it appends a step, but for the
\* last one.
ComparedInv == \A r \in Runs : Len(compared[r]) <= steps[r] + 1

\* A run begins its next comparison only after the step of the last one.
LEMMA ComparedStep ==
  Types /\ StepsInv /\ NetworkInv /\ ComparedInv /\ [Next]_vars => ComparedInv'
<1> SUFFICES ASSUME Types, StepsInv, NetworkInv, ComparedInv, [Next]_vars,
                    NEW q \in Runs
             PROVE  Len(compared'[q]) <= steps'[q] + 1
  BY DEF ComparedInv
<1> USE DEF Goto, loop, profiles, stores, notes
<1>1. ASSUME NEW r \in Runs, Plan(r) PROVE Len(compared'[q]) <= steps'[q] + 1
  <2>1. pc[r] = "plan" /\ UNCHANGED steps
    BY <1>1 DEF Plan
  <2>2. Len(compared[r]) = steps[r]
    BY <2>1 DEF NetworkInv, Counted
  <2>3. PICK key \in Keys : compared' \in {compared, [compared EXCEPT ![r] = Append(@, key)]}
    BY <1>1 DEF Plan, Keys
  <2>4. compared[r] \in Seq(Keys) /\ steps[r] \in Nat
    BY DEF Types
  <2>5. Len(compared'[r]) <= steps[r] + 1
    BY <2>2, <2>3, <2>4 DEF Types
  <2>6. q # r => compared'[q] = compared[q]
    BY <2>3 DEF Types
  <2> QED
    BY <2>1, <2>5, <2>6 DEF ComparedInv
<1>2. ASSUME NEW r \in Runs, ReplaceState(r) PROVE Len(compared'[q]) <= steps'[q] + 1
  <2>1. compared' = compared /\ steps'[q] \in {steps[q], steps[q] + 1}
    BY <1>2 DEF ReplaceState, Types
  <2>2. compared[q] \in Seq(Keys) /\ steps[q] \in Nat /\ Len(compared[q]) <= steps[q] + 1
    BY DEF Types, ComparedInv
  <2> QED
    BY <2>1, <2>2
<1>3. CASE UNCHANGED <<compared, steps>>
  BY <1>3 DEF ComparedInv
<1> QED
  BY <1>1, <1>2, <1>3
     DEF Next, RunStep, Start, PlanRejected, Compare, RecordValidation, OpenReport,
         FillReport, ReadState, ReplaceAndDie, Abort, vars

\* A run under an edited policy appends nothing to the file of the old one and
\* begins one comparison at most.
THEOREM StalePolicyStopsHolds == Spec => []StalePolicyStops
<1>1. Init => ComparedInv
  BY DEF Init, ComparedInv
<1>2. Types /\ StepsInv /\ NetworkInv /\ ComparedInv /\ [Next]_vars => ComparedInv'
  BY ComparedStep
<1>3. Types /\ SerialInv /\ ComparedInv => StalePolicyStops
  BY DEF Types, SerialInv, ComparedInv, StalePolicyStops
<1> QED
  BY <1>1, <1>2, <1>3, TypesInvariant, NetworkInvariant, SerialInvariant, PTL DEF Spec

-----------------------------------------------------------------------------
(* What an exit code of 0 stands for.                                      *)

FoundBy(r) == \E v \in log : v.run = r /\ v.status = "verified" /\ v.reproduced
ShownBy(r) ==
  \E i \in Positions(file, r) :
    file.steps[i].status = "verified" /\ file.steps[i].step = steps[r] - 1

\* A verified verdict on its way to the state file has its evidence record; one
\* that ended its run is that run's last step in the file.
BackedInv ==
  \A r \in Runs :
    /\ pc[r] \in {"read", "replace", "done"} /\ status[r] = "verified" => FoundBy(r)
    /\ pc[r] = "done" /\ status[r] = "verified" /\ ~overlapped => ShownBy(r)

\* A run keeps what it has found and shown while other runs take steps, and
\* while it takes one that does not end it.
LEMMA BackedKeeps ==
  ASSUME BackedInv, NEW q \in Runs, log \subseteq log', overlapped => overlapped',
         status'[q] = status[q], steps'[q] = steps[q],
         pc'[q] \in {"read", "replace", "done"} => pc[q] \in {"read", "replace", "done"},
         pc'[q] = "done" => pc[q] = "done",
         UNCHANGED file \/ (~overlapped' => \A i \in Positions(file, q) :
                              i \in Positions(file', q) /\ file'.steps[i] = file.steps[i])
  PROVE  /\ pc'[q] \in {"read", "replace", "done"} /\ status'[q] = "verified" => FoundBy(q)'
         /\ pc'[q] = "done" /\ status'[q] = "verified" /\ ~overlapped' => ShownBy(q)'
<1>1. FoundBy(q) => FoundBy(q)'
  BY DEF FoundBy
<1>2. ~overlapped' /\ ShownBy(q) => ShownBy(q)'
  BY DEF ShownBy, Positions
<1> QED
  BY <1>1, <1>2 DEF BackedInv

\* Every step carries a verified verdict on to the next place with its record.
LEMMA BackedStep ==
  Types /\ EvidenceInv /\ PolicyInv /\ SerialInv /\ BackedInv /\ [Next]_vars => BackedInv'
<1> SUFFICES ASSUME Types, EvidenceInv, PolicyInv, SerialInv, BackedInv, [Next]_vars,
                    NEW q \in Runs
             PROVE  /\ pc'[q] \in {"read", "replace", "done"} /\ status'[q] = "verified"
                         => FoundBy(q)'
                    /\ pc'[q] = "done" /\ status'[q] = "verified" /\ ~overlapped' => ShownBy(q)'
  BY DEF BackedInv
<1> DEFINE Goal == /\ pc'[q] \in {"read", "replace", "done"} /\ status'[q] = "verified"
                         => FoundBy(q)'
                   /\ pc'[q] = "done" /\ status'[q] = "verified" /\ ~overlapped' => ShownBy(q)'
<1> USE DEF Goto, loop, profiles, stores, notes
<1>1. ASSUME NEW r \in Runs, ReplaceState(r) \/ ReplaceAndDie(r) PROVE Goal
  <2>0. Replaces(r)
    BY <1>1 DEF ReplaceState, ReplaceAndDie, Replaces
  <2>1. pc[r] = "replace" /\ UNCHANGED <<status, log, overlapped>>
    BY <1>1 DEF ReplaceState, ReplaceAndDie
  <2>2. PICK l \in {"done", "plan", "failed"} :
          /\ pc' = [pc EXCEPT ![r] = l]
          /\ IF l = "failed" THEN UNCHANGED steps ELSE steps' = [steps EXCEPT ![r] = @ + 1]
    BY <1>1 DEF ReplaceState, ReplaceAndDie
  <2> DEFINE len == Len(file.steps)
  <2>3. ASSUME ~overlapped
        PROVE  /\ \A p \in Runs : Positions(file, p) \subseteq Positions(file', p) \cap 1..len
               /\ len + 1 \in Positions(file', r)
               /\ \A i \in 1..len : file'.steps[i] = file.steps[i]
               /\ file'.steps[len + 1] = Step(r)
    BY <2>0, <2>3, ReplaceAppends, ReplacePositions
  <2> HIDE DEF len
  <2>4. CASE q = r
    <3>1. status[r] = "verified" => FoundBy(r)
      BY <2>1 DEF BackedInv
    <3>2. status'[r] = "verified" => FoundBy(r)'
      BY <2>1, <3>1 DEF FoundBy
    <3>3. ASSUME ~overlapped, status[r] = "verified", pc'[r] = "done" PROVE ShownBy(r)'
      <4>1. Step(r).status = "verified" /\ Step(r).step = steps[r]
        BY <3>3 DEF Step
      <4>2. steps'[r] - 1 = steps[r]
        BY <2>2, <3>3 DEF Types
      <4> QED
        BY <2>3, <3>3, <4>1, <4>2 DEF ShownBy
    <3> QED
      BY <2>1, <2>4, <3>2, <3>3
  <2>5. CASE q # r
    <3>1. pc'[q] = pc[q] /\ steps'[q] = steps[q]
      BY <2>1, <2>2, <2>5 DEF Types
    <3>2. ~overlapped' => \A i \in Positions(file, q) :
            i \in Positions(file', q) /\ file'.steps[i] = file.steps[i]
      BY <2>1, <2>3
    <3> QED
      BY <2>1, <3>1, <3>2, BackedKeeps
  <2> QED
    BY <2>4, <2>5
<1>2. ASSUME NEW r \in Runs, FillReport(r) PROVE Goal
  <2>1. /\ pc[r] = "fill" /\ pc' = [pc EXCEPT ![r] = "read"]
        /\ UNCHANGED <<status, steps, log, file, overlapped>>
    BY <1>2 DEF FillReport
  <2>2. status[r] = "verified" /\ Record(r) \in log
    BY <2>1 DEF EvidenceInv
  <2>3. FoundBy(r)
    BY <2>2 DEF EvidenceInv, VerifiedIsReproduced, FoundBy, Record
  <2>4. CASE q = r
    BY <2>1, <2>3, <2>4 DEF FoundBy, Types
  <2>5. CASE q # r
    <3>1. pc'[q] = pc[q]
      BY <2>1, <2>5 DEF Types
    <3> QED
      BY <2>1, <3>1, BackedKeeps
  <2> QED
    BY <2>4, <2>5
<1>3. ASSUME NEW r \in Runs,
             \/ Start(r) \/ Plan(r) \/ PlanRejected(r) \/ Compare(r)
             \/ RecordValidation(r) \/ OpenReport(r) \/ ReadState(r) \/ Abort(r)
      PROVE  Goal
  <2>1. UNCHANGED <<file, steps>> /\ log \subseteq log'
    BY <1>3 DEF Start, Plan, PlanRejected, Compare, RecordValidation, OpenReport, ReadState, Abort
  <2>2. overlapped => overlapped'
    BY <1>3 DEF Start, Plan, PlanRejected, Compare, RecordValidation, OpenReport, ReadState, Abort
  <2>3. \A p \in Runs \ {r} : pc'[p] = pc[p]
    BY <1>3
       DEF Start, Plan, PlanRejected, Compare, RecordValidation, OpenReport, ReadState, Abort, Types
  <2>4. \A p \in Runs \ {r} : status'[p] = status[p]
    BY <1>3
       DEF Start, Plan, PlanRejected, Compare, RecordValidation, OpenReport, ReadState, Abort, Types
  <2>5. CASE q # r
    BY <2>1, <2>5, <2>2, <2>3, <2>4, BackedKeeps
  <2>6. CASE q = r /\ ~(status'[q] = "verified" /\ pc'[q] \in {"read", "replace", "done"})
    BY <2>6
  <2>7. CASE q = r /\ status'[q] = "verified" /\ pc'[q] \in {"read", "replace", "done"}
    <3>1. ReadState(r)
      BY <1>3, <2>7
         DEF Start, Plan, PlanRejected, Compare, RecordValidation, OpenReport, Abort, Types
    <3>2. pc[q] = "read" /\ pc'[q] = "replace" /\ status'[q] = status[q]
      BY <2>7, <3>1 DEF ReadState, Types
    <3> QED
      BY <2>1, <2>2, <3>2, BackedKeeps
  <2> QED
    BY <2>5, <2>6, <2>7
<1>4. CASE UNCHANGED vars
  BY <1>4, BackedKeeps DEF vars
<1> QED
  BY <1>1, <1>2, <1>3, <1>4 DEF Next, RunStep

\* A command that exits with 0 has a verified and reproduced comparison in the
\* evidence log and, unless another run was active at the same time, as its
\* last step in the state file.
THEOREM SuccessIsBackedHolds == Spec => []SuccessIsBacked
<1>1. Init => BackedInv
  BY DEF Init, BackedInv
<1>2. Types /\ EvidenceInv /\ PolicyInv /\ SerialInv /\ BackedInv /\ [Next]_vars => BackedInv'
  BY BackedStep
<1>3. BackedInv => SuccessIsBacked
  <2> SUFFICES ASSUME BackedInv, NEW r \in Runs,
                      pc[r] \in {"done", "failed"}, 0 \in ExitCode(r)
               PROVE  FoundBy(r) /\ (~overlapped => ShownBy(r))
    BY DEF SuccessIsBacked, FoundBy, ShownBy, Positions
  <2>1. pc[r] = "done" /\ status[r] = "verified"
    BY DEF ExitCode, ErrorCodes
  <2> QED
    BY <2>1 DEF BackedInv
<1> QED
  BY <1>1, <1>2, <1>3, EvidenceInvariant, SerialInvariant, PTL DEF Spec
=============================================================================
