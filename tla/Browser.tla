-------------------------------- MODULE Browser --------------------------------
(***************************************************************************)
(* PlaywrightBrowserExecutor.inspect: one page is opened, read and closed  *)
(* while a route handler runs for every request the page makes, each asking*)
(* the gateway of the process.  All of it is one event loop: a handler is  *)
(* only left at an await, so the gate, the receipt and the lists of one    *)
(* request are a synchronous section.  Each element of Routes is one       *)
(* request of the page; the route handler is called for each but those the *)
(* browser makes by itself to follow a redirect.                           *)
(***************************************************************************)
EXTENDS Policy

CONSTANTS Routes,      \* requests the page may make
          PageRequests,\* [url, method]: what they may be
          Target,      \* the URL the operator gave
          Profile,     \* the auth profile, "" for none
          Config,      \* the engagement, see Policy
          LoadedProfiles,
          MaxRequests, \* limits.max_requests
          MaxRecords,  \* max_network_records
          SlowRate     \* whether a pacing wait can exceed 60 seconds

ASSUME BrowserAssumption ==
  /\ IsFiniteSet(Routes)
  /\ MaxRequests \in Nat \ {0} /\ MaxRecords \in Nat \ {0}
  /\ SlowRate \in BOOLEAN

VARIABLES
  page,      \* {"start", "open", "closing", "closed", "over"}
  at,        \* [Routes -> At]: where the handler of the request is
  asked,     \* [Routes -> PageRequests] once intercepted, else NoRequest
  count,     \* RateLimiter._request_count
  paced,     \* the last grant is less than one interval ago
  kill,      \* KillSwitch.tripped()
  log,       \* requests with a ready receipt on disk
  listed,    \* requests with an entry in request_records
  answered,  \* requests whose response, or redirect, arrived
  shown,     \* those of them with a response entry in request_records
  blocked,   \* requests in blocked_records
  evidence,  \* the browser_observation record on disk, or NoRecord
  faults     \* requests whose receipt could not be written

lists == <<listed, answered, shown, blocked>>
vars == <<page, at, asked, count, paced, kill, log, listed, answered, shown,
          blocked, evidence, faults>>

NoRequest == [method |-> "none"]
NoRecord == [counted |-> {}, listed |-> {}, blocked |-> {}, written |-> FALSE]

\* "granted" and "denied" end at record_decision, "headers" at all_headers; the
\* handler of an "unanswered" request raised, that of a "lost" one was cancelled,
\* and a "followed" one left without a handler.
At == {"none", "asked", "granted", "denied", "asleep", "due", "headers",
       "sent", "aborted", "unanswered", "lost", "followed"}
Busy == {"asked", "granted", "denied"}
Open == {"asked", "granted", "denied", "asleep", "due", "headers"}

Goto(r, label) == at' = [at EXCEPT ![r] = label]
Idle == \A r \in Routes : at[r] \notin Busy
Begun == {r \in Routes : at[r] \notin {"none", "followed"}}   \* action_ids
Full == Cardinality(listed) + Cardinality(shown) >= MaxRecords

\* The handler's own notion of risk, and no approval id: an action that needs
\* approval is always refused.
BrowserRisk(method) == IF method \in {"GET", "HEAD"} THEN "read_only" ELSE "state_change"

BrowserPermitted(r) ==
  /\ InScope(Config, r)
  /\ BrowserRisk(r.method) = "read_only" \/ Config.active
  /\ Evaluate(Config.actions, {}, BrowserRisk(r.method), "")

Init ==
  /\ page = "start"
  /\ at = [r \in Routes |-> "none"]
  /\ asked = [r \in Routes |-> NoRequest]
  /\ count = 0
  /\ paced = FALSE
  /\ kill \in BOOLEAN
  /\ log = {}
  /\ listed = {} /\ answered = {} /\ shown = {} /\ blocked = {}
  /\ evidence = NoRecord
  /\ faults = {}

-----------------------------------------------------------------------------
(* inspect.                                                                *)

\* validate_target, resolve_auth_headers or the import raises: nothing is done.
Refuse ==
  /\ page = "start"
  /\ page' = "over"
  /\ UNCHANGED <<at, asked, count, paced, kill, log, lists, evidence, faults>>

Launch ==
  /\ page = "start"
  /\ CheckUrl(Config, Target, "GET")
  /\ ProfileResolves(Config, LoadedProfiles, [profile |-> Profile])
  /\ page' = "open"
  /\ UNCHANGED <<at, asked, count, paced, kill, log, lists, evidence, faults>>

\* The page was read, or launching, navigating or reading it raised or timed
\* out: the error is kept and the resources are closed one after the other.
Leave ==
  /\ page = "open" /\ Idle
  /\ page' = "closing"
  /\ UNCHANGED <<at, asked, count, paced, kill, log, lists, evidence, faults>>

Close ==
  /\ page = "closing" /\ Idle
  /\ page' = "closed"
  /\ UNCHANGED <<at, asked, count, paced, kill, log, lists, evidence, faults>>

\* What the record says; the code cuts blocked after MaxRecords entries.
Snapshot == [counted |-> Begun, listed |-> listed, blocked |-> blocked, written |-> TRUE]

\* Mutant: the evidence is recorded before the page is closed.
RecordEarly ==
  /\ page = "closing" /\ Idle /\ ~evidence.written
  /\ evidence' = Snapshot
  /\ UNCHANGED <<page, at, asked, count, paced, kill, log, lists, faults>>

\* The command is over: what handlers are left are gone, and so is its budget.
End ==
  /\ page' = "over"
  /\ at' = [r \in Routes |-> IF at[r] \in Open THEN "lost" ELSE at[r]]
  /\ count' = 0

\* The evidence is appended, or appending it raises, and the map is updated as
\* module ApplicationMap says.  No await follows: what handlers are left are
\* cancelled with the loop.
Record ==
  /\ page = "closed" /\ Idle
  /\ \E written \in BOOLEAN : evidence' = IF written THEN Snapshot ELSE evidence
  /\ End
  /\ UNCHANGED <<asked, paced, kill, log, lists, faults>>

-----------------------------------------------------------------------------
(* handle_route and handle_response.                                       *)

\* The page makes a request, until it is closed.
Intercept(r) ==
  /\ page \in {"open", "closing"} /\ Idle
  /\ at[r] = "none"
  /\ \E p \in PageRequests : asked' = [asked EXCEPT ![r] = p]
  /\ Goto(r, "asked")
  /\ UNCHANGED <<page, count, paced, kill, log, lists, evidence, faults>>

\* Mutant: the handler does not ask again after its sleep.
AuthorizeOnce(r) ==
  /\ at[r] = "asked"
  /\ IF BrowserPermitted(asked[r]) /\ ~kill /\ count < MaxRequests /\ ~paced
     THEN Goto(r, "granted") /\ count' = count + 1 /\ paced' = TRUE
     ELSE Goto(r, IF paced THEN "unanswered" ELSE "denied") /\ UNCHANGED <<count, paced>>
  /\ UNCHANGED <<page, asked, kill, log, lists, evidence, faults>>

\* ToolGateway.authorize, at the start and after each sleep.
Authorize(r) ==
  /\ \/ at[r] = "asked"
     \/ at[r] = "due" /\ Idle
  /\ IF BrowserPermitted(asked[r]) /\ ~kill /\ count < MaxRequests
     THEN \/ ~paced /\ Goto(r, "granted") /\ count' = count + 1 /\ paced' = TRUE
          \/ paced /\ Goto(r, "asleep") /\ UNCHANGED <<count, paced>>
          \/ paced /\ SlowRate /\ Goto(r, "denied") /\ UNCHANGED <<count, paced>>
     ELSE Goto(r, "denied") /\ UNCHANGED <<count, paced>>
  /\ UNCHANGED <<page, asked, kill, log, lists, evidence, faults>>

RecordReady(r) ==
  /\ at[r] = "granted"
  /\ log' = log \cup {r}
  /\ Goto(r, "headers")
  /\ UNCHANGED <<page, asked, count, paced, kill, lists, evidence, faults>>

\* The denial is recorded and listed, and the request is aborted.
RecordDenied(r) ==
  /\ at[r] = "denied"
  /\ blocked' = blocked \cup {r}
  /\ Goto(r, "aborted")
  /\ UNCHANGED <<page, asked, count, paced, kill, log, listed, answered, shown, evidence, faults>>

\* Mutant: a receipt that cannot be written is passed over.
ReceiptFaultIgnored(r) ==
  /\ at[r] \in {"granted", "denied"}
  /\ Goto(r, IF at[r] = "granted" THEN "headers" ELSE "aborted")
  /\ faults' = faults \cup {r}
  /\ UNCHANGED <<page, asked, count, paced, kill, log, lists, evidence>>

\* ReceiptLogger.write raises out of the handler: the request is neither
\* continued nor aborted and waits until the page is closed.  Only a request
\* denied for an unsafe wait is already listed as blocked.
ReceiptFault(r) ==
  /\ at[r] \in {"granted", "denied"}
  /\ Goto(r, "unanswered")
  /\ faults' = faults \cup {r}
  /\ \/ UNCHANGED blocked
     \/ at[r] = "denied" /\ SlowRate /\ blocked' = blocked \cup {r}
  /\ UNCHANGED <<page, asked, count, paced, kill, log, listed, answered, shown, evidence>>

\* The headers are there and the address is permitted: the request is listed,
\* room permitting, and leaves.
Continue(r) ==
  /\ at[r] = "headers" /\ Idle
  /\ page \in {"open", "closing"}
  /\ listed' = IF Full THEN listed ELSE listed \cup {r}
  /\ Goto(r, "sent")
  /\ UNCHANGED <<page, asked, count, paced, kill, log, answered, shown, blocked, evidence, faults>>

\* all_headers raises or the address is not permitted, before the request is
\* listed, or continue_ raises since the page is closing, after it is.
GiveUp(r) ==
  /\ at[r] = "headers" /\ Idle
  /\ listed' \in {listed, IF Full THEN listed ELSE listed \cup {r}}
  /\ blocked' = IF Cardinality(blocked) < MaxRecords THEN blocked \cup {r} ELSE blocked
  /\ Goto(r, "aborted")
  /\ UNCHANGED <<page, asked, count, paced, kill, log, answered, shown, evidence, faults>>

\* handle_response, of a response or a redirect.
Answered(r) ==
  /\ at[r] \in {"sent", "followed"} /\ r \notin answered /\ Idle
  /\ page \in {"open", "closing"}
  /\ answered' = answered \cup {r}
  /\ shown' = IF Full THEN shown ELSE shown \cup {r}

Respond(r) ==
  /\ Answered(r)
  /\ UNCHANGED <<page, at, asked, count, paced, kill, log, listed, blocked, evidence, faults>>

\* Request r is redirected.  Playwright calls the route handler only for the
\* first URL of a chain of redirects: the browser makes the next request q, with
\* the same method or as a GET, and nothing of Nighwatch runs before it leaves.
Follow(r, q) ==
  /\ Answered(r)
  /\ at[q] = "none"
  /\ \E p \in PageRequests :
       /\ p.method \in {asked[r].method, "GET"}
       /\ asked' = [asked EXCEPT ![q] = p]
  /\ Goto(q, "followed")
  /\ UNCHANGED <<page, count, paced, kill, log, listed, blocked, evidence, faults>>

-----------------------------------------------------------------------------
(* The world around the loop.                                              *)

\* One pacing interval is over since the last grant; the sleeps end with it.
Elapse ==
  /\ paced /\ page # "over"
  /\ paced' = FALSE
  /\ at' = [r \in Routes |-> IF at[r] = "asleep" THEN "due" ELSE at[r]]
  /\ UNCHANGED <<page, asked, count, kill, log, lists, evidence, faults>>

FlipKill ==
  /\ kill' = ~kill
  /\ UNCHANGED <<page, at, asked, count, paced, log, lists, evidence, faults>>

\* The command dies; the receipts on disk stay.
Crash ==
  /\ page # "over"
  /\ End
  /\ UNCHANGED <<asked, paced, kill, log, lists, evidence, faults>>

-----------------------------------------------------------------------------
HandlerStep(r) ==
  \/ Authorize(r) \/ RecordReady(r) \/ RecordDenied(r) \/ ReceiptFault(r)
  \/ Continue(r) \/ GiveUp(r)

Next ==
  \/ Refuse \/ Launch \/ Leave \/ Close \/ Record
  \/ \E r \in Routes : Intercept(r) \/ HandlerStep(r) \/ Respond(r)
  \/ \E r, q \in Routes : Follow(r, q)
  \/ Elapse \/ FlipKill \/ Crash

Spec == Init /\ [][Next]_vars

\* The loop runs every handler that can run and time passes.  Nothing is owed
\* by the page: reading it may take for ever.
FairSpec ==
  /\ Spec
  /\ WF_vars(Elapse)
  /\ \A r \in Routes : WF_vars(HandlerStep(r))

-----------------------------------------------------------------------------
(* Properties.                                                             *)

\* The boundary below is that of the route handler: the request a redirect makes
\* does not come to it.
AtBoundary == [r \in Routes |-> IF at[r] = "followed" THEN NoRequest ELSE asked[r]]

Phase(label) ==
  IF label \in {"none", "followed"} THEN "new"
  ELSE IF page = "over" THEN "closed"
  ELSE CASE label \in {"asked", "denied", "asleep", "due"} -> "asked"
         [] label = "granted" -> "granted"
         [] label = "headers" -> "ready"
         [] label = "sent" -> "onwire"
         [] OTHER -> "closed"

\* What the gateway allows execute, if no approval id is given.
PolicyAllows(p) ==
  Permitted(Config, {}, [url |-> p.url, method |-> p.method, approval |-> ""])

\* Where the handler's risk is not the gateway's: a DELETE, destructive for
\* execute, and an OPTIONS, which only reads, are both judged as a POST is.
JudgedAsPost(p) ==
  /\ p.method \in {"DELETE", "OPTIONS"}
  /\ InScope(Config, p) /\ Config.active
  /\ Evaluate(Config.actions, {}, "state_change", "")

Boundary == INSTANCE EgressBoundary WITH
  Calls <- Routes,
  Requests <- PageRequests,
  Allowed <- {p \in PageRequests : PolicyAllows(p) \/ JudgedAsPost(p)},
  MaxConcurrent <- Cardinality(Routes),
  phase <- [r \in Routes |-> Phase(at[r])],
  asked <- AtBoundary,
  spent <- count

\* Whatever a page does, a request leaves the route handler only if the policy
\* allows it as it allows execute without an approval id, with a unit of the
\* budget and after its ready receipt.  Three exceptions to the boundary of
\* execute: a DELETE and an OPTIONS are judged as a POST, see JudgedAsPost; the
\* limit of concurrent requests is not used; and the requests by which the
\* browser follows a redirect do not come to the handler.
PageKeepsBoundary == Boundary!Spec

\* The observation accounts for every request that came to the route handler:
\* all that left are counted and listed and all that were aborted are listed as
\* blocked, as far as the lists have room, and none leaves after the observation
\* was recorded.
RecordAccounts ==
  evidence.written =>
    \A r \in Routes :
      /\ at[r] \in {"sent", "aborted"} => r \in evidence.counted
      /\ at[r] = "sent" => r \in evidence.listed \/ Full
      /\ at[r] = "aborted" => r \in evidence.blocked \/ Cardinality(evidence.blocked) >= MaxRecords

\* Every intercepted request is answered, however long it slept for the rate
\* limiter: continued or aborted, unless its receipt cannot be written or the
\* inspection ends.  An unanswered request would keep the page loading.
RoutesAnswered ==
  \A r \in Routes :
    at[r] \in Open ~> at[r] \in {"sent", "aborted"} \/ r \in faults \/ page = "over"
=============================================================================
