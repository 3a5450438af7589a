# Nighwatch: formal models, checks and proofs

Nighwatch (package `agentsec`, `src/src/agentsec`) tests web applications inside a
declared engagement. Every request it makes, whether from the command line, from a
payload list, from a local model's proposal, from a browser or from an external
tool behind its proxy, has to pass one boundary: scope, active-testing switch,
approval, budget, pacing, kill switch, concurrency, receipt, evidence. This
directory holds TLA+ models of that boundary and of the components around it, the
TLC runs that check them, and TLAPS proofs of the most important properties.
Paths below such as `gateway.py` are under `src/src/agentsec/`.

## Running it

    tlc -workers 2 -config MCGateway_threads.cfg MCGateway.tla     # a run
    tlapm GatewayProofs.tla                                        # a proof module

Every `MC*.cfg` belongs to the module whose name it begins with. `PROJECT.json`
lists runs, theorems, the map from definitions to source lines, the mutants that
show each property can fail, findings and hazards.

## Inventory of the system

| Component | State it keeps | Operations | What is hard | What makes it correct |
|---|---|---|---|---|
| Policy kernel (`models.py`, `security.py` ScopeGuard, ActionApprover) | none after loading; the engagement | `from_dict`, `check_url`, `allows`, `evaluate` | odd JSON values and defaults, origin order, ports, dotted hosts, path prefixes | nothing outside the file passes, nothing inside is refused, approvals never widen policy, what is left out opens nothing |
| Gateway, rate limiter, kill switch (`gateway.py`, `security.py`) | request counter, last grant, semaphore; kill switch file | `authorize`, `execution_slot`, `assert_live`, `record_decision`, `dry_run` | threads racing for budget, grant and slot; the switch tripped between two looks | budget and rate hold, slots are conserved, a receipt precedes every send |
| HTTP executor (`http_executor.py`) | none of its own | `execute` | long sequence of steps, each of which may fail; retry after pacing | what was sent was permitted, has a receipt before and evidence after |
| Receipt and evidence logs (`security.py`, `evidence.py`) | append-only files | `append`, `write` | crash or full disk in an append, several processes, loss of power | what append returned stays, tearing stays bounded, nothing synced changes |
| Application map (`mapping.py`) | map in memory and its JSON file | `observe`, `_save`, `_load` | threads share it without a lock, processes replace each other's file; crash while saving | returned observations are saved unless a stale or overlapping save follows, nothing is invented |
| Egress proxy (`proxy.py`) | handler threads | one handler per connection | threads share gateway, executor, map; clients leave, bodies end early, shutdown | it adds no way around the gateway, replies are backed by evidence, a stalled client holds up nobody |
| Active probe engine (`active.py`) | locals of one run | `run` | limits checked at different times, failures in the middle | cases are a checked prefix, results are complete |
| Tool runner (`tools.py`) | one child process | `run` | tool exits, switch, timeout, signals, interrupts in any order | started only with a receipt; observation true; tool stopped |
| Authorization validator (`findings.py`) | evidence records, one report | `compare`, `_finish` | verdict from hashes and two of four statuses; stop between record and report | "verified" means reproduced; a report has its record |
| Reasoning loop and state file (`reasoning.py`, `state.py`) | seen proposals; JSON state file | `run_many`, `append` | a model that may propose anything, file replaced without a lock, edited policy | network use bounded, one policy per file, steps kept |
| Planner and LLM client (`planner.py`, `llm.py`) | none | `propose` | answers of any shape | only acceptable proposals come out |
| Browser inspector (`browser.py`) | a browser context, record lists | `inspect`, route and response handlers | coroutines asleep while the page closes, capped lists, redirects | every request passes the gateway, is answered and accounted for |
| Command line, templates (`cli.py`, `config.py`) | none | argument parsing, printing, exit codes | the exit code after a partial failure | 0 means a verified finding |
| Vendored Strix text, knowledge base, documents | none | none of `agentsec` uses them | | |

How they interact: one command builds one `ToolGateway` with one rate limiter, one
semaphore and one receipt logger. `HttpExecutor.execute` is called directly (CLI,
active probe, validator) or from the proxy's handler threads; it asks the gateway,
writes the receipt, takes a slot, sends, appends evidence and updates the
application map. The tool runner asks the gateway once and starts a process whose
own requests come back through the proxy. The reasoning loop calls the validator,
which calls the executor four times. Commands share files (receipts, evidence,
map, state, report, kill switch) and nothing else.

## Modules and their code

**`Policy`** is the policy kernel as pure operators: `CheckUrl` (`check_url`),
`PathMatches`, `EffectivePort`, `RiskForMethod`, `Evaluate` (`ActionApprover`),
`Malformed` (what `execute` refuses first), `ProfileResolves`. A host is a name with
or without its final dot; a path is the sequence of its segments; an exact list of
header spellings is abstracted to the strongest kind of header present.
**`Engagement`** is `EngagementConfig.from_dict` with the loaders of its sections: which
files are accepted (`Accepted`) and what an accepted one becomes (`ConfigOf`), field by
field for values that are absent, null, of a wrong type, true or false, fractions, texts of
numbers, NaN and infinite: `IntOf` is what `int` makes of a port or a limit, `HostOf` what
`normalize_host(str(...))` makes of a host.
**`PolicyDecision`** loads one file and decides one request per behaviour
and compares the outcome with an independent reading of the file (`Covers`, `Says`),
which shares only the form of a JSON value with the loader. That reading takes whole
numbers for ports; `ScopeSound` and `ScopeComplete` speak of files that list nothing else
(`PlainOrigins`); what the code makes of the others is among the observations below. **`PolicyDecisionProofs`** holds the proofs.

**`Gateway`** is one process. Each element of `Calls` is a call of `execute` or
`dry_run` in its own thread; `pc[c]` is the statement it runs next, and a step is
a stretch of code between two points where another thread, the switch file, a
storage fault, the peer or a crash can intervene:

| Actions | Code |
|---|---|
| `Start`, `Gates` | `execute` up to `authorize`; scope, kill switch, active testing, approval |
| `BudgetExhausted`, `Pace`, `Grant`, `Wake` | `RateLimiter.acquire` under its lock, and the sleep loop of `execute` |
| `RecordDenied`, `RecordReady`, `ReceiptFault` | `record_decision` |
| `ResolveHeaders` | `resolve_auth_headers`, after the grant and the receipt |
| `EnterSlot`, `SlotTimeout`, `PollKill`, `AssertLive` | `execution_slot` and the look at the switch inside it |
| `NotSent`, `Send`, `Answer` | the request: refused before any byte, sent, answered or broken off |
| `RecordError`, `RecordOk`, `EvidenceFault`, `Observe` | evidence, map |
| `Tick`, `TripKill`, `ClearKill`, `Crash` | clock, operator, restart (budget and pacing are in memory only) |

`count`, `since`, `sleep`, `slots` are the limiter and the semaphore; `receipts` and
`evidence` the disk. `granted`, `sent`, `sentKilled`, `faults` and `clock` are an
observer's notes that no step of the code reads. **`GatewayProps`** holds the
properties. **`EgressBoundary`** is the abstract specification: a request on the
wire is allowed, logged, paid for from the budget, one of at most
`MaxConcurrent`. `ImplementsBoundary` states that `Gateway` refines it under
`Phase`. **`GatewayProofs`** proves it.

**`Proxy`** is the handler of `proxy.py` around `Gateway`: it extends `GatewayProps`, its
`Execute` contains `Start` and its `Forward` contains the other steps of `execute`, so
the composed state is that of the gateway and four variables more.

| Actions | Code |
|---|---|
| `Accept` | the connection, `do_*`, the first checks of `_forward` |
| `RefuseBody`, `Arrived`, `Execute` | `_read_body` and `_forward_headers`, up to the call of `execute` |
| `Forward`, `AnswersAt` | `execute`, and which of its endings the `except` clause turns into a 502 |
| `Reply`, `ClientGone`, `Shutdown` | the reply; the client; daemon threads that end with the command |

A target without any netloc is answered 400; one with a port or a dot but no host goes on to
the policy, which refuses it with a receipt. **`ProxyProps`** holds what it promises its
clients; the last part of **`GatewayProofs`** the proofs.

**`Browser`** is `PlaywrightBrowserExecutor.inspect`. It is one event loop, so a handler
is only left at an `await`: an action runs from one `await` to the next, or to the next
place where a fault can come in, and `Idle` keeps others out in between. `Launch`,
`Leave`, `Close`, `Record` are the coroutine that owns the page; `Intercept`,
`Authorize`, `RecordReady`, `RecordDenied`, `ReceiptFault`, `Continue`, `GiveUp` are
`handle_route`, `Respond` is `handle_response`, and `Follow` is the browser following a
redirect by itself, without a call of the route handler. `PageKeepsBoundary` states that
what comes to the handler keeps to the `EgressBoundary` of the gateway: what may leave is
what the gateway's own policy permits without an approval id (`PolicyAllows`). It has three
named exceptions: a DELETE and an OPTIONS are judged as a POST (`JudgedAsPost`), the limit of
concurrent requests never binds, because the browser does not use `execution_slot`, and
the requests of `Follow` are outside it.
**`BrowserProofs`** proves it.

**`ApplicationMap`** is `observe` list by list (`ReadField`, `WriteField`: the code
builds a set from the list and stores a sorted list back), then `_save` endpoint by
endpoint into a temporary file and `os.replace`. Each call belongs to a process
(`ProcessOf`), which loaded its map when it started and shares it between its threads.
`stale`, `overlap` and `exposed` are an observer's notes: processes whose map lacks
what another one saved, processes that ran two calls at once, and finished calls that
a save of such a process may have taken back. What a response adds is a constant (`Adds`);
path templating and JSON field extraction are left out. **`ApplicationMapProofs`** holds
the proofs.

**`EvidenceLog`** is `EvidenceStore.append` on one file by threads of several processes.
A record is two pieces, the second of which ends the line, so that a short write, a full
disk, a dying process and a second writer can come in between. `synced` is how much
of the file survives a loss of power. **`EvidenceLogProofs`** holds its proofs.

**`Authorization`** is the verdict of `AuthorizationValidator.compare` as an
operator on four responses, and `Reproduced`, what the README asks of a verified
comparison; an identifier is compared as the text the code makes of it. **`Investigation`**
is `run_many` with that validator, its evidence record and report, and
`InvestigationStateStore.append` as a read and a replace, after which the process may die
before the step counts (`ReplaceAndDie`).
Each element of `Runs` is one `investigate` command, a process of its own;
`hash` is the policy hash of the configuration it loaded. `Abort` stands for every
error and for the death of the process, between any two steps. `ExitCode` is what the
`investigate` command returns to the shell.
**`InvestigationProofs`** holds the proofs of both modules.

**`ToolRunner`** is `DeterministicToolRunner.run` with the tool's process, its
process group's strongest signal, the deadline, the switch, `OSError` and
interrupts; `ended` notes how the tool ended and whether the loop could see it.
**`ToolRunnerProofs`** holds its proofs. **`ActiveProbe`** is `ActiveProbeEngine.run`
payload by payload, **`ActiveProbeProofs`** its proofs.

## The runs

| Run | Instance | Shows |
|---|---|---|
| `policy_decision` | files with 6 origin lists (overlapping in both orders, disjoint, with several trailing slashes), 8 odd lists of ports, every value of the action flags, 16 kinds of value in each limit, 2 files with nulls, 9 malformed files; 15 URLs, 3 methods, 3 approval ids: 204,390 states | `ScopeSound`, `ScopeComplete`, `NothingByDefault`, `LoadedLimitsBind` |
| `gateway_threads` | 4 threads, budget 2, 1 slot, pacing 1 tick, 1 restart, dry runs | `ReceiptBeforeSend`, `BudgetCovers`, `LongRunRate`, `SentHasEvidence`, `SlotConservation`, `KillBoundsSends` |
| `gateway_unlogged` | interval longer than the accepted wait | expected violation of `EveryDecisionLogged` (finding 1) |
| `proxy` | 2 connections, eight kinds of message, clients that leave, 1 restart | `SentWithinPolicy`, `ReplyIsBacked`, refinement of `EgressBoundary` |
| `proxy_live` | 2 connections, 1 slot, clients and peers that may stall for ever, fair scheduling | `EveryCallEnds`, `WaitersHeedKill`, `StalledClientsHarmless` |
| `browser` | 3 requests of the page (GET, DELETE, out of scope), redirects, state changes unapproved, budget 2, lists of 2, slow rate, fair event loop | `RecordAccounts`, `PageKeepsBoundary`, `RoutesAnswered` |
| `map_shared` | 2 threads of the proxy and a command, failed saves, 2 restarts | `ReturnedIsSaved`, `NothingInvented`, `OwnEndpointKept`, `FileOnlyGrows` |
| `map_lost_update` | 3 threads of the proxy | expected violation of `EveryReturnIsSaved` (finding 2) |
| `investigation` | 2 runs, 2 policy hashes, 4 kinds of answer, every four of 7 responses, 2 steps | `VerifiedIsReproduced`, `ComparisonsBounded`, `VerdictEndsRun`, `ReportHasEvidence`, `OnePolicyPerFile`, `StepsKept`, `StalePolicyStops`, `SuccessIsBacked` |
| `tool_runner` | one command, tools permitted or not, everything that may happen to it | `StartedWithReceipt`, `ObservationIsFinal`, `RunEnds`, `ToolEnds` |
| `active_probe` | every list of up to 4 payloads that fit, fill, exceed the limit or are no text; 3 cases; budget 2 | `SentIsCheckedPrefix`, `ResultIsComplete` |
| `evidence_log` | 3 threads of one process and 1 of another, 1 loss of power | `ReturnedIsKept`, `DamageBounded`, `AppendOnly` |

**Bounds and why they are enough.** Each limit is exceeded by what competes for it:
four threads for a budget of two and one slot; three page requests for a budget of two
and lists of two; four payloads for three cases and a budget of two. So the last unit,
the last slot and the refusal behind it all occur, as do two threads that sleep for one
grant. One restart is enough for a budget that starts afresh beside receipts of the old
process. Two connections are the fewest of which one can stall and the other want
the slot, the pacing or the budget. The promises of `Gateway` that need fairness are checked
of the same two connections, so that the calls they are about are made by handlers whose
clients stall. In `map_shared`, two threads of one process are
at different endpoints and the command is at the endpoint of one of them, the fewest
that show both kinds of interference; two restarts let each process be replaced,
or one of them twice. Three threads and a second writer are the fewest in which a
record cut off, the record appended to it and a third are told apart. The values of
`policy_decision` sit at and around the boundaries the loader tests. Two runs with two hashes are the fewest that replace a file of another
policy. Seven responses are the ones the verdict tells apart: the resource, the same
with a volatile field changed, without its impact field, without a scalar
identifier, a refusal, and two texts. Calls and runs are symmetric where a run
declares symmetry; runs with liveness declare none. Counters that grow (`clock`,
`crashes`) stop at named bounds (`Horizon`, `MaxCrashes`), and `clock` only counts
where `LongRunRate` can still tell a difference. The safety proofs need none of these
bounds.

**Fairness.** `Proxy!FairProxySpec` is weak fairness of the clock and of each handler's own
next step inside `execute`, which is what the operating system gives a runnable thread.
Whatever waits for a client is owed to nobody, and `StalledClientsHarmless` takes the
promptness of the one client it serves as a premise. Two more things are not owed. A caller need not start a call, and a peer need not answer: the socket
timeout limits each read, not the whole answer. `EveryCallEnds` therefore carries
the premise that no call stays in `await` for ever, while `WaitersHeedKill` does
without it: a peer that holds the only slot for ever cannot keep the threads behind
it from obeying the switch. The semaphore gives no order, yet weak fairness is
enough because the waiters poll it with a timeout and the budget is finite, so
only finitely many others can come first. `ToolRunner!FairSpec` assumes that the
command's steps are taken, that the deadline passes, and that a process sent SIGKILL
ends at some time, though not before the two-second wait is over; a tool that ends of
itself is not assumed.
`Browser!FairSpec` is weak fairness of the pacing interval
and of each handler: the event loop runs every coroutine that is due. Nothing is owed by the
page, the peer or the operator; `RoutesAnswered` concerns only what the handlers do.
The other modules are checked for safety only: each of their operations is a
straight line whose end is reached by running it.

## Findings

1. `gateway_unlogged` (documentation and code differ). `http_executor.py:251`
   raises when the pacing wait exceeds 60 s and records no decision, while
   `src/README.md:302` says every request passes the receipt logger. The gateway
   was asked and answered, and no receipt shows it.
2. `map_lost_update` (code). `mapping.py:110` reads, merges and stores each list
   without a lock although the proxy's handler threads share the store. Two
   observations of one endpoint at once can leave one of them in neither memory nor
   file, where `src/tests/test_http_executor.py:125` expects both.
   `map_shared` shows what survives: interference stays within one endpoint, invents
   nothing, and takes nothing back unless the saving process was stale or ran two calls
   at once.

**Observations** made while modelling, each shown by the form of the model or
provided for in it, without a run of its own:
- `models.py:88` takes `int(port)` of whatever the list has: `[80.9]` opens port 80 and
  `[true]` port 1, where `src/README.md:90` says that targets outside the declared port must
  be refused. `ScopeSound` excepts such files and shows that nothing else in loading and
  `check_url` widens the scope; without `PlainOrigins` TLC refutes it.
- `src/README.md:412` says that the browser aborts state-changing methods. The handler
  continues them when active testing is on, `state_mutation` is true and
  `require_state_change_approval` false, and judges a DELETE like a POST (`browser.py:168`),
  which `execute` and `src/README.md:304` call destructive. It presents no approval id, so what
  needs one is refused.
- `src/README.md:413` says that no redirect outside the declared scope is followed. The scope
  is asked in the route handler (`browser.py:268`), and Playwright calls that for the first
  URL of a chain of redirects only. How Playwright treats redirects is taken from its
  documentation (`Follow` is external).
- The browser does not take an execution slot.
- A tool that ends by itself after `poll` and before the look at the switch is recorded with
  `kill_switch_terminated` true if the switch is tripped by then, and likewise with
  `timed_out` (`tools.py:321-330`). `ObservationIsFinal` names this window and shows that
  there is no wider one.
- A client that ends its side in the middle of its body has what arrived forwarded, if the
  policy permits it (`proxy.py:161`).
- A full record list of the browser keeps out later requests, as a page that answers much
  can make it be (`browser.py:223`); `RecordAccounts` excepts full lists.
- A body preview with an unpaired surrogate cannot be encoded (`evidence.py:91`): the
  request was sent and its call ends without a record (`Refuse`; `SentHasEvidence`
  excepts such faults, the proxy's `AnswersAt` has them as "dropped").
- A record cut off has no end of line, and the next record is appended to it
  (`evidence.py:94`): that one cannot be parsed although `append` returned it.
  `DamageBounded` is how far this goes.
- NaN and infinity pass as `requests_per_second` (`models.py:134`) and pacing is then off;
  an infinite integer, port or limit, raises an uncaught OverflowError; `"engagement_id": null` is
  read as the id "None" and `"host": null` as the host "none".
- Exit codes 1 and 2 of `investigate` mean a verdict or an error; only 0 is unambiguous
  (`SuccessIsBacked`).
- Every verified comparison writes the same report file (`findings.py:230`).

## Proofs

Every safety property of a passing run is proved, and so are the refinements of
`EgressBoundary` by the gateway, the proxy and the browser's route handler. All constants are arbitrary
within the named assumptions of the modules, which say no more than the code ensures:
- `Gateway`: any finite set of calls, any requests and engagement, limits the loader
  accepts (`LimitsAssumption`, `TimeAssumption`). `Proxy`: a default approval id is among
  the approved ones, as the constructor ensures, and lengths are natural numbers.
- `Browser`: any finite set of requests, limits of at least one.
- `PolicyDecision`: any files, URLs, methods and approval ids whose values have
  the form the models use (`DecisionAssumption`): a list of origins is a list, paths and
  prefixes are lists of segments, a flag that is no error is true or false.
- `ApplicationMap`: any calls, processes and additions; a list of field names that is not
  empty. `EvidenceLog`: any calls and processes.
- `Investigation`: any runs, answers and responses (`StepsAssumption`: `max_steps` is 1 to
  10; `ResponsesAssumption`: equal bodies decode alike and only an object has
  fields; `FieldsAssumption`: no identifier field is volatile, true of the code's
  two sets).
- `ActiveProbe`: limits the loader accepts, payloads are finite lists.

In each module types come first (`Types`); what follows is the part of the inductive
invariant that carries the property.

`PolicyDecisionProofs`
- Paths: the code compares with `prefix.rstrip("/")`, the reading of the file
  (`StartsWith`) lets trailing slashes match anything or nothing. `PrefixMatches` shows
  that these agree for lists of any length. Where the last segment that is not empty
  lies rests on `Largest`: a non-empty set of numbers below a bound has a largest one,
  because `<` is well-founded on their distances from it.
- Origins: `OriginCovers` shows that the record made of an accepted origin with plain
  ports and a host (`IsPlainOrigin`) admits what the origin covers, defaults and ports included. From it `ScopeIsCovered` and, for
  a file whose origins are disjoint, `CoveredIsInScope`: the first origin that names
  scheme, host and port is then the only one.
- `DecisionInv` (a verdict is given under the record of the accepted file and says which
  tests were passed) carries this to `ScopeSound` and `ScopeComplete`.
  `NothingByDefault` follows because a flag loaded as other than its default
  was given (`FlagIsSaid`), `LoadedLimitsBind` because defaults and accepted numbers
  lie within the same maxima.

`GatewayProofs`
- The semaphore is only known to be a natural number in `Types`, because that it
  stays between 0 and the limit is `SlotConservation`: every exit of the slot
  gives back one unit and removes one thread from `InSlot`. With it `TypeOK`
  (`TypeCorrect`) follows.
- `ReceiptBeforeSend` is not inductive: a thread about to send must already have its
  receipt. The strengthening says so for every label between the receipt and the
  evidence. `SentWithinPolicy` needs in the same way that a thread past the gates asked
  for a permitted request, and `SentHasEvidence` which records a thread at each label has.
- `BudgetCovers`: the counter is the size of `granted`, threads past the limiter are
  in it, threads before it are not.
- `LongRunRate` is inductive as it stands: a grant needs a full interval since the
  last one, a tick moves both clocks.
- `KillBoundsSends`: while the switch is tripped, the requests sent since then and the
  threads at `connect`, which have passed the last look at it, never exceed
  `MaxConcurrent` together; a step into `connect` needs the switch clear.
- `ImplementsBoundary`: initial states map to initial states, each action to one
  abstract step or a stutter; the abstract limit on the wire is `SlotConservation`.
- The proxy: each of its steps is a step of the gateway or leaves its variables
  alone, so `ProxySpec` implements `Gateway!Spec` (`ProxyImplementsGateway`) and the
  theorems about `Gateway` hold of it, among them `SentWithinPolicy` and the refinement of
  `EgressBoundary`. `HandlerInv` ties the handler to the program counter of its call:
  it forwards only while the call runs and replies with a response only at its end. It
  gives `ReplyIsBacked`.

`BrowserProofs`: `GateInv` says that a handler past the gate has a permitted request and,
past the receipt, one in the log, and that no handler is left when the inspection is over.
With it each step maps to a step of `EgressBoundary` or a stutter (`PageKeepsBoundary`);
`PermittedIsAllowed` compares the handler's notion of risk with the gateway's, and
`FollowStutters` shows that a redirect is no step of the boundary;
the abstract wire has room for every request of the page (`WireBound`). `ListInv` says the same of the lists while requests
come and go as `RecordAccounts` does of the observation once it is written; a list only
grows while it has room, so one that was full stays full.

`ApplicationMapProofs`: `KnownInv` is `NothingInvented` with the set a thread is about to
store. `OwnInv` says that a call alone at its endpoint has merged the fields before the
current one, and that two calls at once mark their process (`OwnEndpointKept`). `CopyInv`
says that the file being written is a copy of a memory nobody else changes meanwhile;
`FreshInv`, that the memory of a process neither stale nor overlapping has all that the
file has. Together they give `ReturnedIsSaved` and `FileOnlyGrows`.

`InvestigationProofs`
- `VerdictSound`. The code compares hashes of normalised bodies and reads the status of
  two of four responses. Stability carries both to the reproductions: status by equality,
  identifier because no identifier field is volatile, impact field unless the operator
  asked for a volatile one.
- `EvidenceInv` (a verified verdict in hand was reproduced, a report is
  only written by a run whose record is in the log) gives `VerifiedIsReproduced`
  and `ReportHasEvidence`; `PolicyInv` (the same of every copy of the file a run
  holds, and the hash was compared by a run about to replace it) gives
  `OnePolicyPerFile`; `NetworkInv` (compared keys are remembered keys; comparisons
  count the steps) gives `ComparisonsBounded` and `VerdictEndsRun`.
- `SerialInv`: as long as runs do not overlap one of them is active and what it read is
  still the file, so the file has the steps of each run once, in order, and at most one more
  of a run that died (`StepsKept`).
  With `ComparedInv`, which lets a run be one comparison ahead of its steps, it gives
  `StalePolicyStops`; with `BackedInv`, which follows a verified verdict from the evidence
  log to the last step of the file, `SuccessIsBacked`.

`EvidenceLogProofs`
- `AppendOnly` follows from the types, as each action appends or cuts off behind `synced`.
- `ReturnedIsKept`: `KeptInv` says that of each call exactly the pieces that are no
  longer left are in the file, once and in order (`Shape`), and that a returned call's are
  within `synced`; `PutAt` says where a write puts them. A call that was cut off is
  exempt, as a loss of power may take its pieces.
- `DamageBounded` is a count. `TearInv` says that between the pieces of a record there are only
  pieces of other processes. So a returned record that cannot be read was written
  into by another process or follows one that was cut off or written into
  (`TornFollows`), and no two of them follow the same one.

`ToolRunnerProofs`: types, `StartInv` and `EndInv` are inductive together: before the
process starts nothing has been signalled, what was decided stays decided,
the loop is left unsignalled only when the tool is gone, and a tool whose end `poll` could
see is never signalled. They give
`StartedWithReceipt` and `ObservationIsFinal`.

`ActiveProbeProofs`: `ProbeInv` says what the list of values and the list of sent payloads
are at each label, element by element; both theorems follow.

**Only model-checked:** liveness (`EveryCallEnds`, `WaitersHeedKill`, `RunEnds`,
`ToolEnds`, `StalledClientsHarmless`, `RoutesAnswered`), which the prover cannot treat. The
properties expected to be violated have counterexamples, so there is nothing to prove.

## What the models leave out

- Time is in ticks and the limiter's floating-point arithmetic exact.
  `_last_request_at is None` is a full interval since the last grant, which the code
  treats alike.
- Hosts, paths, ports, methods and profiles are small sets; header names are matched
  by kind. DNS answers, sockets and HTTP framing are outcomes of `NotSent`, `Send`
  and `Answer`. A `ValueError` of the HTTP library leaves `execute` like any
  refused request.
- In `Gateway` a written record is on disk. `EvidenceLog` adds short writes and loss of
  power for the evidence; for receipts, which are not synced (`security.py:233`), it is left
  out. A sector written in part and a disk that lies about `fsync` are not modelled.
- Descendants of a tool are not modelled, only the process itself.
- Field names stand for all their spellings, and `user_id` counts as an identifier as
  in the code, so two objects of one user share one.
- In `Engagement` case, surrounding blanks and the syntax of JSON are left out; a host is
  a name with or without its final dot.
- What a page shows and its cookies are left out of `Browser`; a redirect is a request that
  leaves without a handler, and a chain of them is bounded by `Routes`.
- Not modelled: argument parsing and printing of the command line, the template files, the
  redaction of texts, the call to the language model beyond its answer or failure,
  vendored files. They keep no state another component reads, except for the files
  the operator edits.

## Plan

Done in this order: `Policy` and `Gateway` with its boundary and proofs, as
everything else rests on them; `ApplicationMap`; `Authorization` and
`Investigation` with proofs; `ToolRunner` with proofs; `ActiveProbe`; then
`Engagement`, `Proxy` with proofs, `Browser`, `EvidenceLog` with proofs, several
processes in `ApplicationMap`, and the proofs of `ActiveProbe`; then the proofs of
`Browser`, `ApplicationMap` and `PolicyDecision` and those `Investigation` and `EvidenceLog`
still lacked.

Next to model: the receipt log in `EvidenceLog`, which differs by its missing lock
and sync.

Next to prove: an abstract specification of the evidence log (a list of records that
only grows) and that `EvidenceLog` refines it for the threads of one process; and, across
modules, that whatever `Gateway`, `Proxy` and `Browser` send under the record of an
accepted file is covered by that file as `PolicyDecision` reads it.
