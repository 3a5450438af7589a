----------------------------- MODULE GatewayProps -----------------------------
(***************************************************************************)
(* What the egress boundary modelled by Gateway promises.                  *)
(***************************************************************************)
EXTENDS Gateway

\* Type invariant of the process state: the counters stay within the limits
\* of the engagement whatever the threads, the operator and crashes do.
TypeOK ==
  /\ pc \in [Calls -> PC]
  /\ req \in [Calls -> Requests \cup {NoRequest}]
  /\ count \in 0..MaxRequests
  /\ since \in 0..Interval
  /\ sleep \in [Calls -> 0..Interval]
  /\ slots \in 0..MaxConcurrent
  /\ kill \in BOOLEAN
  /\ crashes \in 0..MaxCrashes
  /\ receipts \in [Calls -> {"none", "ready", "denied"}]
  /\ evidence \in [Calls -> {"none", "ok", "error"}]
  /\ granted \in SUBSET Calls
  /\ sent \in SUBSET Calls
  /\ sentKilled \in Nat
  /\ faults \in SUBSET Calls
  /\ clock \in 0..Horizon

\* No request reaches the network unless its "ready" receipt is already on
\* disk, whatever storage faults and crashes happen in between: execute calls
\* record_decision before _request and lets its failure end the call.
ReceiptBeforeSend == \A c \in sent : receipts[c] = "ready"

\* No request reaches the network unless scope, active-testing and approval
\* policy all permit that very request and it was well formed; the gates ran
\* many steps earlier, possibly several times, and another thread's decision
\* must not leak into this one.
SentWithinPolicy ==
  \A c \in sent : /\ req[c].mode = "execute"
                  /\ ~Malformed(Config, req[c])
                  /\ Permitted(Config, ApprovedIds, req[c])

\* The budget counts exactly the calls the limiter let through, never more
\* than max_requests in a process, and no thread is past the limiter without
\* having been counted: a denied decision never consumes budget and racing
\* threads neither share nor lose a unit.
BudgetCovers ==
  /\ count <= MaxRequests
  /\ count = Cardinality(granted)
  /\ At(Granted) \subseteq granted

\* Over any prefix of the process's life the permitted requests keep to the
\* configured rate: the n-th grant cannot come before (n - 1) intervals.  The
\* threads that slept for the same deadline all wake at once; only one gets in.
LongRunRate == count > 0 => Interval * (count - 1) + since <= clock

\* The semaphore's value and the threads inside execution_slot always add up
\* to max_concurrent_requests: no error path leaks a slot or frees it twice.
SlotConservation == slots + Cardinality(At(InSlot)) = MaxConcurrent

\* While the kill switch stays tripped at most max_concurrent_requests
\* requests still leave: those whose thread had passed assert_live before.
KillBoundsSends == sentKilled <= MaxConcurrent

\* A finished call whose request reached the network left an evidence record,
\* unless writing the record failed; and no evidence exists without a ready receipt.
\* A crash may lose the record: such a call is "dead", not "done".
SentHasEvidence ==
  /\ \A c \in sent : pc[c] = "done" => evidence[c] # "none" \/ c \in faults
  /\ \A c \in Calls : evidence[c] # "none" => receipts[c] = "ready"
  /\ \A c \in Calls : evidence[c] = "ok" => c \in sent

\* If no peer holds its connection open for ever, every call that got past its
\* entry ends: no thread waits for ever for pacing, for a slot another thread
\* holds, or on a lost wake-up.  The premise is what the socket timeout of at
\* most 60 s gives for peers that do not trickle bytes.
EveryCallEnds ==
  (\A c \in Calls : []<>(pc[c] # "await"))
    => \A c \in Calls : pc[c] \in Running ~> pc[c] \in {"done", "dead"}

\* "Hold a concurrency slot while remaining responsive to the kill switch":
\* even if a peer never answers and its thread keeps the slot for ever, once
\* the switch is tripped for good every thread asleep in pacing or queued for
\* that slot ends; only those already waiting for an answer may stay.
WaitersHeedKill ==
  (<>[]kill) => \A c \in Calls : <>[](pc[c] \in {"idle", "await", "done", "dead"})

\* Gateway implements EgressBoundary: the intermediate states of execute are
\* hidden, the limiter's counter is the spent budget, ready receipts the log.
Phase(label) ==
  IF label = "idle" THEN "new"
  ELSE IF label \in {"gates", "acquire", "sleep", "deny"} THEN "asked"
  ELSE IF label = "receipt" THEN "granted"
  ELSE IF label \in {"headers", "slot", "timedout", "live", "connect"} THEN "ready"
  ELSE IF label = "await" THEN "onwire"
  ELSE "closed"

AllowedRequests ==
  {r \in Requests : /\ r.mode = "execute"
                    /\ ~Malformed(Config, r)
                    /\ Permitted(Config, ApprovedIds, r)}

Boundary == INSTANCE EgressBoundary WITH
  Allowed <- AllowedRequests,
  phase <- [c \in Calls |-> Phase(pc[c])],
  asked <- req,
  spent <- count,
  log <- {c \in Calls : receipts[c] = "ready"}

\* Every behaviour of the threads is a behaviour of the abstract boundary.
ImplementsBoundary == Boundary!Spec

\* The README: "Every request passes through the declared scope, action policy,
\* rate limiter, ..., receipt logger, and evidence store".  A well-formed call
\* that ended without a storage fault has a receipt, ready or denied.
EveryDecisionLogged ==
  \A c \in Calls :
    pc[c] = "done" /\ c \notin faults /\ ~Malformed(Config, req[c])
      => receipts[c] # "none"
=============================================================================
