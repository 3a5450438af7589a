------------------------------- MODULE Gateway -------------------------------
(***************************************************************************)
(* One Nighwatch process: a ToolGateway (scope, kill switch, approval,     *)
(* rate limiter, concurrency semaphore, receipt logger) shared by the      *)
(* threads that call HttpExecutor.execute (the egress proxy starts one     *)
(* thread per client connection) and ToolGateway.dry_run.  Each element of *)
(* Calls is one such call with the action id it draws; pc says which       *)
(* statement of the call runs next.  A step is a stretch of code between   *)
(* two points at which another thread, the operator's kill switch file, a  *)
(* storage fault, the peer or a crash can come in between.                 *)
(***************************************************************************)
EXTENDS Policy

CONSTANTS Calls,          \* calls made over the life of the deployment
          Requests,       \* the requests callers may make, see Policy
          Config,         \* the engagement, see Policy
          ApprovedIds,    \* approval ids the operator passed to this run
          LoadedProfiles, \* auth profiles with a secret in the environment
          MaxRequests,    \* limits.max_requests
          MaxConcurrent,  \* limits.max_concurrent_requests
          Interval,       \* 1 / limits.requests_per_second, in ticks
          MaxWait,        \* the 60 seconds of the unsafe-wait check, in ticks
          MaxCrashes      \* bound: process crashes explored

ASSUME CallsAssumption == IsFiniteSet(Calls)
ASSUME RequestsAssumption == \A r \in Requests : r.mode \in {"execute", "dry_run"}
ASSUME LimitsAssumption == LimitsAccepted(MaxRequests, MaxConcurrent)
ASSUME TimeAssumption == Interval \in Nat /\ MaxWait \in Nat /\ MaxCrashes \in Nat

VARIABLES
  pc,         \* [Calls -> PC]: where the call is
  req,        \* [Calls -> Requests]: its request once started, else NoRequest
  count,      \* RateLimiter._request_count
  since,      \* ticks since _last_request_at, up to Interval (None: Interval)
  sleep,      \* [Calls -> Nat]: ticks left in time.sleep
  slots,      \* value of the concurrency semaphore
  kill,       \* KillSwitch.tripped()
  crashes,    \* process crashes so far
  receipts,   \* [Calls -> {"none", "ready", "denied"}]: the action's receipt on disk
  evidence    \* [Calls -> {"none", "ok", "error"}]: its evidence record on disk

\* What an observer of the process sees or notes; no step of the code reads it.
VARIABLES
  granted,    \* calls the rate limiter let through in this process
  sent,       \* calls whose request bytes reached the network
  sentKilled, \* requests sent since the kill switch was last tripped
  faults,     \* calls that met a storage fault: a record was not written
  clock       \* ticks this process has run, up to Interval * MaxRequests

control == <<pc, req>>
limiter == <<count, since, sleep>>
disk == <<receipts, evidence>>
observer == <<granted, sent, sentKilled, faults, clock>>
vars == <<pc, req, count, since, sleep, slots, kill, crashes, receipts, evidence,
          granted, sent, sentKilled, faults, clock>>

NoRequest == [mode |-> "none"]

PC == {"idle", "gates", "acquire", "sleep", "deny", "receipt", "headers",
       "slot", "timedout", "live", "connect", "await", "error", "record",
       "observe", "done", "dead"}

InSlot == {"live", "connect", "await"}   \* inside execution_slot
Granted == {"receipt", "headers", "slot", "timedout", "error", "record", "observe"} \cup InSlot
Running == PC \ {"idle", "done", "dead"}

At(labels) == {c \in Calls : pc[c] \in labels}
Goto(c, label) == pc' = [pc EXCEPT ![c] = label]

Init ==
  /\ pc = [c \in Calls |-> "idle"]
  /\ req = [c \in Calls |-> NoRequest]
  /\ count = 0
  /\ since = Interval
  /\ sleep = [c \in Calls |-> 0]
  /\ slots = MaxConcurrent
  /\ kill \in BOOLEAN
  /\ crashes = 0
  /\ receipts = [c \in Calls |-> "none"]
  /\ evidence = [c \in Calls |-> "none"]
  /\ granted = {}
  /\ sent = {}
  /\ sentKilled = 0
  /\ faults = {}
  /\ clock = 0

-----------------------------------------------------------------------------
(* Entry and the gates of ToolGateway.authorize.                           *)

\* execute: the request is validated before an action id is drawn; a
\* malformed one raises and leaves no trace.  dry_run validates nothing.
Start(c) ==
  /\ pc[c] = "idle"
  /\ \E r \in Requests :
       /\ req' = [req EXCEPT ![c] = r]
       /\ Goto(c, IF r.mode = "execute" /\ Malformed(Config, r) THEN "done" ELSE "gates")
  /\ UNCHANGED <<limiter, slots, kill, crashes, disk, observer>>

\* Mutant: the approval gate is skipped for every request in scope.
GatesNoApproval(c) ==
  /\ pc[c] = "gates"
  /\ Goto(c, IF InScope(Config, req[c]) /\ ~kill /\ ActiveAllowed(Config, req[c])
             THEN "acquire" ELSE "deny")
  /\ UNCHANGED <<req, limiter, slots, kill, crashes, disk, observer>>

\* authorize up to the rate limiter: scope, kill switch, active testing, approval.
Gates(c) ==
  /\ pc[c] = "gates"
  /\ Goto(c, IF Permitted(Config, ApprovedIds, req[c]) /\ ~kill THEN "acquire" ELSE "deny")
  /\ UNCHANGED <<req, limiter, slots, kill, crashes, disk, observer>>

\* RateLimiter.acquire, one critical section, and what the caller does with
\* each answer: budget exhausted, ...
BudgetExhausted(c) ==
  /\ pc[c] = "acquire"
  /\ count >= MaxRequests
  /\ Goto(c, "deny")
  /\ UNCHANGED <<req, limiter, slots, kill, crashes, disk, observer>>

\* Mutant: the answer "wait" already takes a request from the budget.
PaceConsumes(c) ==
  /\ pc[c] = "acquire"
  /\ count < MaxRequests
  /\ since < Interval
  /\ count' = count + 1
  /\ \/ /\ req[c].mode = "dry_run"
        /\ Goto(c, "deny") /\ UNCHANGED sleep
     \/ /\ req[c].mode = "execute" /\ Interval - since <= MaxWait
        /\ sleep' = [sleep EXCEPT ![c] = Interval - since]
        /\ Goto(c, "sleep")
     \/ /\ req[c].mode = "execute" /\ Interval - since > MaxWait
        /\ Goto(c, "done") /\ UNCHANGED sleep
  /\ UNCHANGED <<req, since, slots, kill, crashes, disk, observer>>

\* ... too early: execute sleeps and asks again, or raises when the wait is
\* unsafe, without a receipt; dry_run records a decision that is not ready, ...
Pace(c) ==
  /\ pc[c] = "acquire"
  /\ count < MaxRequests
  /\ since < Interval
  /\ \/ /\ req[c].mode = "dry_run"
        /\ Goto(c, "deny") /\ UNCHANGED sleep
     \/ /\ req[c].mode = "execute" /\ Interval - since <= MaxWait
        /\ sleep' = [sleep EXCEPT ![c] = Interval - since]
        /\ Goto(c, "sleep")
     \/ /\ req[c].mode = "execute" /\ Interval - since > MaxWait
        /\ Goto(c, "done") /\ UNCHANGED sleep
  /\ UNCHANGED <<req, count, since, slots, kill, crashes, disk, observer>>

\* Mutant: a grant forgets to restart the pacing interval.
GrantUnpaced(c) ==
  /\ pc[c] = "acquire"
  /\ count < MaxRequests
  /\ since >= Interval
  /\ count' = count + 1
  /\ granted' = granted \cup {c}
  /\ Goto(c, "receipt")
  /\ UNCHANGED <<req, since, sleep, slots, kill, crashes, disk, sent, sentKilled, faults, clock>>

\* ... or permitted: one request leaves the budget.
Grant(c) ==
  /\ pc[c] = "acquire"
  /\ count < MaxRequests
  /\ since >= Interval
  /\ count' = count + 1
  /\ since' = 0
  /\ granted' = granted \cup {c}
  /\ Goto(c, "receipt")
  /\ UNCHANGED <<req, sleep, slots, kill, crashes, disk, sent, sentKilled, faults, clock>>

\* time.sleep returns and the loop asks every gate again.
Wake(c) ==
  /\ pc[c] = "sleep"
  /\ sleep[c] = 0
  /\ Goto(c, "gates")
  /\ UNCHANGED <<req, limiter, slots, kill, crashes, disk, observer>>

-----------------------------------------------------------------------------
(* The receipt, written before anything touches the network.               *)

\* A denied decision is recorded, then GatewayBlocked ends the call.
RecordDenied(c) ==
  /\ pc[c] = "deny"
  /\ receipts' = [receipts EXCEPT ![c] = "denied"]
  /\ Goto(c, "done")
  /\ UNCHANGED <<req, limiter, slots, kill, crashes, evidence, observer>>

RecordReady(c) ==
  /\ pc[c] = "receipt"
  /\ receipts' = [receipts EXCEPT ![c] = "ready"]
  /\ Goto(c, IF req[c].mode = "dry_run" THEN "done" ELSE "headers")
  /\ UNCHANGED <<req, limiter, slots, kill, crashes, evidence, observer>>

\* Mutant: a receipt that cannot be written is passed over.
ReceiptFaultIgnored(c) ==
  /\ pc[c] \in {"deny", "receipt"}
  /\ Goto(c, IF pc[c] = "receipt" /\ req[c].mode = "execute" THEN "headers" ELSE "done")
  /\ faults' = faults \cup {c}
  /\ UNCHANGED <<req, limiter, slots, kill, crashes, disk, granted, sent, sentKilled, clock>>

\* ReceiptLogger.write raises OSError: the call ends there.
ReceiptFault(c) ==
  /\ pc[c] \in {"deny", "receipt"}
  /\ Goto(c, "done")
  /\ faults' = faults \cup {c}
  /\ UNCHANGED <<req, limiter, slots, kill, crashes, disk, granted, sent, sentKilled, clock>>

\* resolve_auth_headers raises ConfigError for an unusable profile, after the
\* budget was spent and the ready receipt written.
ResolveHeaders(c) ==
  /\ pc[c] = "headers"
  /\ Goto(c, IF ProfileResolves(Config, LoadedProfiles, req[c]) THEN "slot" ELSE "done")
  /\ UNCHANGED <<req, limiter, slots, kill, crashes, disk, observer>>

-----------------------------------------------------------------------------
(* execution_slot, assert_live and _request.                               *)

\* Mutant: the semaphore is taken without looking at its value.
EnterSlotUnbounded(c) ==
  /\ pc[c] = "slot"
  /\ slots' = slots - 1
  /\ Goto(c, "live")
  /\ UNCHANGED <<req, limiter, kill, crashes, disk, observer>>

EnterSlot(c) ==
  /\ pc[c] = "slot"
  /\ slots > 0
  /\ slots' = slots - 1
  /\ Goto(c, "live")
  /\ UNCHANGED <<req, limiter, kill, crashes, disk, observer>>

\* acquire(timeout=0.25) gives up ...
SlotTimeout(c) ==
  /\ pc[c] = "slot"
  /\ slots = 0
  /\ Goto(c, "timedout")
  /\ UNCHANGED <<req, limiter, slots, kill, crashes, disk, observer>>

\* Mutant: the wait for a slot never looks at the kill switch.
PollNothing(c) ==
  /\ pc[c] = "timedout"
  /\ Goto(c, "slot")
  /\ UNCHANGED <<req, limiter, slots, kill, crashes, disk, observer>>

\* ... and the kill switch is polled before the next try.  KillSwitchTripped
\* is a PermissionError, so execute records it as a failed request.
PollKill(c) ==
  /\ pc[c] = "timedout"
  /\ Goto(c, IF kill THEN "error" ELSE "slot")
  /\ UNCHANGED <<req, limiter, slots, kill, crashes, disk, observer>>

\* Mutant: the slot is not given back when the switch is found tripped.
AssertLiveLeaks(c) ==
  /\ pc[c] = "live"
  /\ Goto(c, IF kill THEN "error" ELSE "connect")
  /\ UNCHANGED <<req, limiter, slots, kill, crashes, disk, observer>>

\* Mutant: the switch is not looked at again once the slot is held.
AssertLiveSkipped(c) ==
  /\ pc[c] = "live"
  /\ Goto(c, "connect")
  /\ UNCHANGED <<req, limiter, slots, kill, crashes, disk, observer>>

\* The switch is read once more with the slot held; leaving the with block
\* releases the slot.
AssertLive(c) ==
  /\ pc[c] = "live"
  /\ Goto(c, IF kill THEN "error" ELSE "connect")
  /\ slots' = IF kill THEN slots + 1 ELSE slots
  /\ UNCHANGED <<req, limiter, kill, crashes, disk, observer>>

\* _request before any byte left: no permitted address or no connection (an
\* error execute records), or http.client refuses to encode a header, a
\* ValueError that no handler of execute catches.
NotSent(c) ==
  /\ pc[c] = "connect"
  /\ \E next \in {"error", "done"} : Goto(c, next)
  /\ slots' = slots + 1
  /\ UNCHANGED <<req, limiter, kill, crashes, disk, observer>>

Send(c) ==
  /\ pc[c] = "connect"
  /\ sent' = sent \cup {c}
  /\ sentKilled' = IF kill THEN sentKilled + 1 ELSE 0
  /\ Goto(c, "await")
  /\ UNCHANGED <<req, limiter, slots, kill, crashes, disk, granted, faults, clock>>

\* Mutant: a timeout is raised to the caller without an evidence record.
AnswerSilentTimeout(c) ==
  /\ pc[c] = "await"
  /\ \E next \in {"record", "done"} : Goto(c, next)
  /\ slots' = slots + 1
  /\ UNCHANGED <<req, limiter, kill, crashes, disk, observer>>

\* The response was read, or the wait for it timed out or broke off.
Answer(c) ==
  /\ pc[c] = "await"
  /\ \E next \in {"record", "error"} : Goto(c, next)
  /\ slots' = slots + 1
  /\ UNCHANGED <<req, limiter, kill, crashes, disk, observer>>

-----------------------------------------------------------------------------
(* Evidence and the application map.                                       *)

RecordError(c) ==
  /\ pc[c] = "error"
  /\ evidence' = [evidence EXCEPT ![c] = "error"]
  /\ Goto(c, "done")
  /\ UNCHANGED <<req, limiter, slots, kill, crashes, receipts, observer>>

RecordOk(c) ==
  /\ pc[c] = "record"
  /\ evidence' = [evidence EXCEPT ![c] = "ok"]
  /\ Goto(c, "observe")
  /\ UNCHANGED <<req, limiter, slots, kill, crashes, receipts, observer>>

\* EvidenceStore.append raises and the call ends there: an OSError, or a
\* UnicodeEncodeError when the captured body cannot be encoded as UTF-8.
EvidenceFault(c) ==
  /\ pc[c] \in {"error", "record"}
  /\ Goto(c, "done")
  /\ faults' = faults \cup {c}
  /\ UNCHANGED <<req, limiter, slots, kill, crashes, disk, granted, sent, sentKilled, clock>>

\* ApplicationMapStore.observe returns or raises; either way the call is over.
\* What it does to the map is the subject of module ApplicationMap.
Observe(c) ==
  /\ pc[c] = "observe"
  /\ Goto(c, "done")
  /\ UNCHANGED <<req, limiter, slots, kill, crashes, disk, observer>>

-----------------------------------------------------------------------------
(* The world around the threads.                                           *)

Horizon == Interval * MaxRequests

\* Time passes as long as some timer still tells the difference.
Tick ==
  /\ since < Interval \/ clock < Horizon \/ \E c \in Calls : sleep[c] > 0
  /\ since' = IF since < Interval THEN since + 1 ELSE since
  /\ clock' = IF clock < Horizon THEN clock + 1 ELSE clock
  /\ sleep' = [c \in Calls |-> IF sleep[c] > 0 THEN sleep[c] - 1 ELSE 0]
  /\ UNCHANGED <<control, count, slots, kill, crashes, disk, granted, sent, sentKilled, faults>>

\* The operator creates or removes the kill switch file.
TripKill ==
  /\ ~kill
  /\ kill' = TRUE
  /\ UNCHANGED <<control, limiter, slots, crashes, disk, observer>>

ClearKill ==
  /\ kill
  /\ kill' = FALSE
  /\ sentKilled' = 0
  /\ UNCHANGED <<control, limiter, slots, crashes, disk, granted, sent, faults, clock>>

\* The process dies and is started again: its threads are gone and the new
\* process starts with ToolGateway.__init__.  Disk and kill switch file stay.
Crash ==
  /\ crashes < MaxCrashes
  /\ crashes' = crashes + 1
  /\ pc' = [c \in Calls |-> IF pc[c] \in Running THEN "dead" ELSE pc[c]]
  /\ count' = 0
  /\ since' = Interval
  /\ sleep' = [c \in Calls |-> 0]
  /\ slots' = MaxConcurrent
  /\ granted' = {}
  /\ clock' = 0
  /\ UNCHANGED <<req, kill, disk, sent, sentKilled, faults>>

-----------------------------------------------------------------------------
CallStep(c) ==
  \/ Start(c) \/ Gates(c)
  \/ BudgetExhausted(c) \/ Pace(c) \/ Grant(c) \/ Wake(c)
  \/ RecordDenied(c) \/ RecordReady(c) \/ ReceiptFault(c) \/ ResolveHeaders(c)
  \/ EnterSlot(c) \/ SlotTimeout(c) \/ PollKill(c) \/ AssertLive(c)
  \/ NotSent(c) \/ Send(c) \/ Answer(c)
  \/ RecordError(c) \/ RecordOk(c) \/ EvidenceFault(c) \/ Observe(c)

Next ==
  \/ \E c \in Calls : CallStep(c)
  \/ Tick \/ TripKill \/ ClearKill \/ Crash

Spec == Init /\ [][Next]_vars
=============================================================================
