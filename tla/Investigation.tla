---------------------------- MODULE Investigation ----------------------------
(***************************************************************************)
(* ReasoningLoop.run_many with its validator and its state file.  Each     *)
(* element of Runs is one "investigate" command, a process of its own;     *)
(* the runs of an engagement share the investigation state file, the       *)
(* evidence log and the report file, none of them locked.  Network access  *)
(* goes through HttpExecutor (module Gateway); here a comparison answers   *)
(* with four responses, or an error of any of its parts ends the run.      *)
(***************************************************************************)
EXTENDS Authorization, Sequences, FiniteSets

CONSTANTS Runs,          \* investigate commands, in any order or at once
          Hashes,        \* policy hashes of the engagement file over time
          Answers,       \* JSON objects the local model may answer with
          Responses,     \* responses of the application, see Authorization
          Requested,     \* --impact-field
          MaxSteps,      \* --max-steps
          MaxActive      \* bound: runs at a time

ASSUME StepsAssumption == MaxSteps \in 1..10
ASSUME ResponsesAssumption == WellFormedResponses(Responses)

VARIABLES
  pc,         \* [Runs -> PC]
  hash,       \* [Runs -> Hashes]: policy hash of the configuration it loaded
  distinct,   \* [Runs -> BOOLEAN]: the two profiles have different credentials
  proposal,   \* [Runs -> key of the proposal in hand]
  seen,       \* [Runs -> set of keys]
  status,     \* [Runs -> status of last_result]
  steps,      \* [Runs -> Nat]: steps appended and returned so far
  read,       \* [Runs -> what append read from the state file]
  file,       \* the investigation state file, or NoFile
  log,        \* authorization_validation records in the evidence log
  report      \* the record authorization-validation.md is whole of, if any: a set

VARIABLES     \* observer's notes
  compared,   \* [Runs -> sequence of the keys whose comparison began]
  sound,      \* [Runs -> BOOLEAN]: the last comparison was Reproduced
  overlapped  \* two runs were active at the same time

loop == <<proposal, seen, status, steps, read>>
profiles == <<hash, distinct>>
stores == <<file, log, report>>
notes == <<compared, sound, overlapped>>
vars == <<pc, hash, distinct, proposal, seen, status, steps, read, file, log, report,
          compared, sound, overlapped>>

PC == {"idle", "plan", "compare", "record", "report", "fill", "read", "replace",
       "done", "failed"}
Running == PC \ {"idle", "done", "failed"}
ActiveRuns == {r \in Runs : pc[r] \in Running}
Goto(r, label) == pc' = [pc EXCEPT ![r] = label]

NoFile == [hash |-> "none", steps |-> <<>>]
Fresh(h) == [hash |-> h, steps |-> <<>>]
NoKey == <<"none", "none">>
Terminal == {"verified", "rejected", "planned"}
ExecutableTasks == {"compare_authorization", "validate_candidate"}
TaskKinds == ExecutableTasks \cup
  {"map_application", "analyze_authentication", "inspect_api", "test_business_logic",
   "collect_evidence", "prepare_report"}
Keys == {<<a.task_kind, a.target_ref>> : a \in Answers}

\* TaskProposal.from_dict: a known task, an opaque reference, and no
\* state-changing task that forgoes approval; anything else is a PlannerError.
Acceptable(a) ==
  /\ a.task_kind \in TaskKinds
  /\ a.opaque
  /\ a.risk = "read_only" \/ a.approval_required

Record(r) == [run |-> r, step |-> steps[r], status |-> status[r], reproduced |-> sound[r]]

Init ==
  /\ pc = [r \in Runs |-> "idle"]
  /\ hash \in [Runs -> Hashes]
  /\ distinct \in [Runs -> BOOLEAN]
  /\ proposal = [r \in Runs |-> NoKey]
  /\ seen = [r \in Runs |-> {}]
  /\ status = [r \in Runs |-> "none"]
  /\ steps = [r \in Runs |-> 0]
  /\ read = [r \in Runs |-> NoFile]
  /\ file = NoFile
  /\ log = {}
  /\ report = {}
  /\ compared = [r \in Runs |-> <<>>]
  /\ sound = [r \in Runs |-> FALSE]
  /\ overlapped = FALSE

-----------------------------------------------------------------------------
(* run_many                                                                *)

Start(r) ==
  /\ pc[r] = "idle"
  /\ Cardinality(ActiveRuns) < MaxActive
  /\ Goto(r, "plan")
  /\ overlapped' = (overlapped \/ ActiveRuns # {})
  /\ UNCHANGED <<profiles, loop, stores, compared, sound>>

\* Mutant: the proposals already seen are not remembered.
PlanForgets(r) ==
  /\ pc[r] = "plan"
  /\ \E a \in Answers :
       LET key == <<a.task_kind, a.target_ref>>
       IN  /\ Acceptable(a)
           /\ proposal' = [proposal EXCEPT ![r] = key]
           /\ \/ /\ a.task_kind \notin ExecutableTasks
                 /\ status' = [status EXCEPT ![r] = "planned"]
                 /\ Goto(r, "read")
                 /\ UNCHANGED compared
              \/ /\ a.task_kind \in ExecutableTasks
                 /\ compared' = [compared EXCEPT ![r] = Append(@, key)]
                 /\ Goto(r, "compare")
                 /\ UNCHANGED status
  /\ UNCHANGED <<profiles, seen, steps, read, stores, sound, overlapped>>

\* The model answers and the proposal is taken up: a repeated one and one
\* without an adapter become "planned", the others start a comparison.
Plan(r) ==
  /\ pc[r] = "plan"
  /\ \E a \in Answers :
       LET key == <<a.task_kind, a.target_ref>>
       IN  /\ Acceptable(a)
           /\ proposal' = [proposal EXCEPT ![r] = key]
           /\ seen' = [seen EXCEPT ![r] = @ \cup {key}]
           /\ \/ /\ key \in seen[r] \/ a.task_kind \notin ExecutableTasks
                 /\ status' = [status EXCEPT ![r] = "planned"]
                 /\ Goto(r, "read")
                 /\ UNCHANGED compared
              \/ /\ key \notin seen[r] /\ a.task_kind \in ExecutableTasks
                 /\ compared' = [compared EXCEPT ![r] = Append(@, key)]
                 /\ Goto(r, "compare")
                 /\ UNCHANGED status
  /\ UNCHANGED <<profiles, steps, read, stores, sound, overlapped>>

\* PlannerError: the answer is no acceptable proposal.
PlanRejected(r) ==
  /\ pc[r] = "plan"
  /\ \E a \in Answers : ~Acceptable(a)
  /\ Goto(r, "failed")
  /\ UNCHANGED <<profiles, loop, stores, notes>>

-----------------------------------------------------------------------------
(* AuthorizationValidator.compare                                          *)

\* What four responses may come to: the verdict, and whether they reproduced.
Outcomes ==
  {[verdict |-> Verdict(rs, Requested), reproduced |-> Reproduced(rs, Requested)] :
     rs \in [1..4 -> Responses]}

\* Four requests and the verdict, or no request at all when both profiles
\* resolve to one credential.
Compare(r) ==
  /\ pc[r] = "compare"
  /\ \/ /\ ~distinct[r]
        /\ status' = [status EXCEPT ![r] = "rejected"]
        /\ sound' = [sound EXCEPT ![r] = FALSE]
     \/ /\ distinct[r]
        /\ \E o \in Outcomes :
             /\ status' = [status EXCEPT ![r] = o.verdict]
             /\ sound' = [sound EXCEPT ![r] = o.reproduced]
  /\ Goto(r, "record")
  /\ UNCHANGED <<profiles, proposal, seen, steps, read, stores, compared, overlapped>>

\* Mutant: a verified comparison gets its report but no evidence record.
RecordUnverified(r) ==
  /\ pc[r] = "record"
  /\ log' = IF status[r] = "verified" THEN log ELSE log \cup {Record(r)}
  /\ Goto(r, IF status[r] = "verified" THEN "report" ELSE "read")
  /\ UNCHANGED <<profiles, loop, file, report, notes>>

\* _finish: the evidence record first, then the report of a verified one.
RecordValidation(r) ==
  /\ pc[r] = "record"
  /\ log' = log \cup {Record(r)}
  /\ Goto(r, IF status[r] = "verified" THEN "report" ELSE "read")
  /\ UNCHANGED <<profiles, loop, file, report, notes>>

\* path.write_text empties the one report file of the engagement ...
OpenReport(r) ==
  /\ pc[r] = "report"
  /\ report' = {}
  /\ Goto(r, "fill")
  /\ UNCHANGED <<profiles, loop, file, log, notes>>

\* ... and fills it from its start; over another run's longer text the tail of
\* that text stays.
FillReport(r) ==
  /\ pc[r] = "fill"
  /\ \/ report' = {Record(r)}
     \/ report # {} /\ report' = {}
  /\ Goto(r, "read")
  /\ UNCHANGED <<profiles, loop, file, log, notes>>

-----------------------------------------------------------------------------
(* InvestigationStateStore.append                                          *)

\* Mutant: the policy hash of the file is not compared.
ReadStateUnchecked(r) ==
  /\ pc[r] = "read"
  /\ LET current == IF file = NoFile THEN Fresh(hash[r]) ELSE file
     IN  read' = [read EXCEPT ![r] = current]
  /\ Goto(r, "replace")
  /\ UNCHANGED <<profiles, proposal, seen, status, steps, stores, notes>>

\* Mutant: a file of another policy is started over.
ReadStateStartsOver(r) ==
  /\ pc[r] = "read"
  /\ read' = [read EXCEPT ![r] = IF file.hash = hash[r] THEN file ELSE Fresh(hash[r])]
  /\ Goto(r, "replace")
  /\ UNCHANGED <<profiles, proposal, seen, status, steps, stores, notes>>

\* _read: a file of another policy ends the run with ConfigError.
ReadState(r) ==
  /\ pc[r] = "read"
  /\ LET current == IF file = NoFile THEN Fresh(hash[r]) ELSE file
     IN  \/ /\ current.hash = hash[r]
            /\ read' = [read EXCEPT ![r] = current]
            /\ Goto(r, "replace")
         \/ /\ current.hash # hash[r]
            /\ Goto(r, "failed")
            /\ UNCHANGED read
  /\ UNCHANGED <<profiles, proposal, seen, status, steps, stores, notes>>

Step(r) == [index |-> Len(read[r].steps), run |-> r, step |-> steps[r],
            key |-> proposal[r], status |-> status[r]]

\* Mutant: the new step replaces the last one of the file.
ReplaceStateLast(r) ==
  /\ pc[r] = "replace"
  /\ LET old == read[r].steps
     IN  file' = [read[r] EXCEPT !.steps =
                    Append(SubSeq(old, 1, IF old = <<>> THEN 0 ELSE Len(old) - 1), Step(r))]
  /\ steps' = [steps EXCEPT ![r] = @ + 1]
  /\ Goto(r, IF status[r] \in Terminal \/ steps[r] + 1 = MaxSteps THEN "done" ELSE "plan")
  /\ read' = [read EXCEPT ![r] = NoFile]
  /\ UNCHANGED <<profiles, proposal, seen, status, log, report, notes>>

\* Mutant: a verified verdict does not end the loop.
ReplaceStateGoesOn(r) ==
  /\ pc[r] = "replace"
  /\ file' = [read[r] EXCEPT !.steps = Append(@, Step(r))]
  /\ steps' = [steps EXCEPT ![r] = @ + 1]
  /\ Goto(r, IF status[r] = "planned" \/ steps[r] + 1 = MaxSteps THEN "done" ELSE "plan")
  /\ read' = [read EXCEPT ![r] = NoFile]
  /\ UNCHANGED <<profiles, proposal, seen, status, log, report, notes>>

\* os.replace puts the file read, one step longer, in the place of whatever is
\* there now; then run_many goes on or ends.
ReplaceState(r) ==
  /\ pc[r] = "replace"
  /\ file' = [read[r] EXCEPT !.steps = Append(@, Step(r))]
  /\ steps' = [steps EXCEPT ![r] = @ + 1]
  /\ Goto(r, IF status[r] \in Terminal \/ steps[r] + 1 = MaxSteps THEN "done" ELSE "plan")
  /\ read' = [read EXCEPT ![r] = NoFile]
  /\ UNCHANGED <<profiles, proposal, seen, status, log, report, notes>>

\* The process dies with the file replaced, before append returns and the step
\* counts.
ReplaceAndDie(r) ==
  /\ pc[r] = "replace"
  /\ file' = [read[r] EXCEPT !.steps = Append(@, Step(r))]
  /\ Goto(r, "failed")
  /\ read' = [read EXCEPT ![r] = NoFile]
  /\ UNCHANGED <<profiles, proposal, seen, status, steps, log, report, notes>>

\* The model does not answer, a request is blocked or fails, the evidence log,
\* the report or the state file cannot be written, or the process dies.
Abort(r) ==
  /\ pc[r] \in Running
  /\ Goto(r, "failed")
  /\ read' = [read EXCEPT ![r] = NoFile]
  /\ UNCHANGED <<profiles, proposal, seen, status, steps, stores, notes>>

-----------------------------------------------------------------------------
\* Mutant: the verdict that came last is what the command exits with.
ExitCodeOfVerdict(r) ==
  IF status[r] = "verified" THEN {0} ELSE IF status[r] = "rejected" THEN {2} ELSE {1}

\* main turns most errors into 2; a PlannerError and any other ValueError are
\* not caught and end the interpreter with 1.  A killed process has no such code.
ErrorCodes == {1, 2}

\* What the investigate command exits with.
ExitCode(r) ==
  IF pc[r] = "failed" THEN ErrorCodes
  ELSE CASE status[r] = "verified" -> {0}
         [] status[r] = "rejected" -> {2}
         [] OTHER -> {1}

RunStep(r) ==
  \/ Start(r) \/ Plan(r) \/ PlanRejected(r)
  \/ Compare(r) \/ RecordValidation(r) \/ OpenReport(r) \/ FillReport(r)
  \/ ReadState(r) \/ ReplaceState(r) \/ ReplaceAndDie(r) \/ Abort(r)

Finished == \A r \in Runs : pc[r] \in {"done", "failed"}

Next ==
  \/ \E r \in Runs : RunStep(r)
  \/ Finished /\ UNCHANGED vars

Spec == Init /\ [][Next]_vars

-----------------------------------------------------------------------------
(* Properties.                                                             *)

IsRecord(v) ==
  /\ v.run \in Runs /\ v.step \in 0..MaxSteps - 1
  /\ v.status \in {"verified", "candidate", "rejected"} /\ v.reproduced \in BOOLEAN

IsState(f) ==
  /\ f.hash \in Hashes \cup {"none"}
  /\ \A i \in DOMAIN f.steps : f.steps[i].run \in Runs /\ f.steps[i].key \in Keys

\* Type invariant of the runs and of the files they share; a run appends at
\* most max_steps steps.
TypeOK ==
  /\ pc \in [Runs -> PC]
  /\ proposal \in [Runs -> Keys \cup {NoKey}]
  /\ seen \in [Runs -> SUBSET Keys]
  /\ status \in [Runs -> Terminal \cup {"none", "candidate"}]
  /\ steps \in [Runs -> 0..MaxSteps]
  /\ IsState(file) /\ \A r \in Runs : IsState(read[r])
  /\ \A v \in log \cup report : IsRecord(v)

\* "The model can choose a task kind, but the maximum step count and executable
\* adapters remain operator-controlled": whatever the model answers, a run
\* begins at most max_steps comparisons, each for a proposal of its own, and
\* none for a task without an adapter.
ComparisonsBounded ==
  \A r \in Runs :
    /\ Len(compared[r]) <= MaxSteps
    /\ \A i, j \in DOMAIN compared[r] : compared[r][i] = compared[r][j] => i = j
    /\ \A i \in DOMAIN compared[r] : compared[r][i][1] \in ExecutableTasks

\* A verified or rejected verdict is the last thing a run asks the network for.
VerdictEndsRun ==
  \A v \in log : v.status # "candidate" => Len(compared[v.run]) = v.step + 1

\* "Require independent, repeatable evidence": a comparison recorded as
\* verified had four successful answers with one identifier in all of them and
\* an impact field in both answers to the subject, although the code compares
\* hashes of normalised bodies and looks at two of the four statuses only.
VerifiedIsReproduced == \A v \in log : v.status = "verified" => v.reproduced

\* A report that can be read in full is that of a verified comparison whose
\* evidence record exists, wherever its run was interrupted and whichever run
\* wrote over it.
ReportHasEvidence == report \subseteq {v \in log : v.status = "verified"}

\* The state file never mixes policies, and a step's index is its position,
\* even when runs under different policies replace the file under each other.
OnePolicyPerFile ==
  \A i \in DOMAIN file.steps :
    /\ hash[file.steps[i].run] = file.hash
    /\ file.steps[i].index = i - 1

\* A command that succeeds has found something: it exits with 0 only if the
\* evidence log has a verified and reproduced comparison of this run and, unless
\* another run wrote at the same time, the state file shows it as its last step.
\* The codes 1 and 2 mean a verdict or an error.
SuccessIsBacked ==
  \A r \in Runs : pc[r] \in {"done", "failed"} /\ 0 \in ExitCode(r) =>
    /\ \E v \in log : v.run = r /\ v.status = "verified" /\ v.reproduced
    /\ ~overlapped => \E i \in DOMAIN file.steps :
         /\ file.steps[i].run = r /\ file.steps[i].status = "verified"
         /\ file.steps[i].step = steps[r] - 1

\* As long as runs do not overlap, the file has every step that append returned,
\* those of aborted and of earlier runs included, once each, and besides them
\* only the step a run that died was about to return.
StepsKept ==
  ~overlapped =>
    \A r \in Runs :
      LET mine == {i \in DOMAIN file.steps : file.steps[i].run = r}
          kept == Cardinality(mine)
      IN  /\ {file.steps[i].step : i \in mine} = 0..kept - 1
          /\ kept = steps[r] \/ (pc[r] = "failed" /\ kept = steps[r] + 1)

\* A run under an edited policy leaves the file of the old one alone; the hash
\* is checked after the first comparison, so one comparison it may make.
StalePolicyStops ==
  ~overlapped /\ file # NoFile =>
    \A r \in Runs : hash[r] # file.hash => steps[r] = 0 /\ Len(compared[r]) <= 1
=============================================================================
