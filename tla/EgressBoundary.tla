---------------------------- MODULE EgressBoundary ----------------------------
(***************************************************************************)
(* What the egress boundary promises, without threads, gates, timers,      *)
(* locks or disks: a request that goes onto the wire is an allowed one, it *)
(* took one unit of the budget of the running process, it is in the log    *)
(* before it leaves, and at most MaxConcurrent are on the wire.            *)
(***************************************************************************)
EXTENDS Integers, FiniteSets

CONSTANTS Calls,         \* calls made over the life of the deployment
          Requests,      \* what callers may ask for
          Allowed,       \* the requests that may go onto the wire
          MaxRequests,   \* budget of one process
          MaxConcurrent, \* requests on the wire at a time
          NoRequest      \* what a call that has not asked yet asks for

VARIABLES phase, asked, spent, log
vars == <<phase, asked, spent, log>>

Phases == {"new", "asked", "granted", "ready", "onwire", "closed"}
OnWire == {c \in Calls : phase[c] = "onwire"}
Move(c, next) == phase' = [phase EXCEPT ![c] = next]

Init ==
  /\ phase = [c \in Calls |-> "new"]
  /\ asked = [c \in Calls |-> NoRequest]
  /\ spent = 0
  /\ log = {}

\* A request is taken up, or turned away at the door.
Ask(c) ==
  /\ phase[c] = "new"
  /\ \E r \in Requests : asked' = [asked EXCEPT ![c] = r]
  /\ \E next \in {"asked", "closed"} : Move(c, next)
  /\ UNCHANGED <<spent, log>>

Grant(c) ==
  /\ phase[c] = "asked"
  /\ spent < MaxRequests
  /\ spent' = spent + 1
  /\ Move(c, "granted")
  /\ UNCHANGED <<asked, log>>

\* Only what was granted enters the log; a rehearsal ends here.
Log(c) ==
  /\ phase[c] = "granted"
  /\ log' = log \cup {c}
  /\ \E next \in {"ready", "closed"} : Move(c, next)
  /\ UNCHANGED <<asked, spent>>

Send(c) ==
  /\ phase[c] = "ready"
  /\ c \in log
  /\ asked[c] \in Allowed
  /\ Cardinality(OnWire) < MaxConcurrent
  /\ Move(c, "onwire")
  /\ UNCHANGED <<asked, spent, log>>

\* Answered, refused or failed: at any point after it was taken up.
Close(c) ==
  /\ phase[c] \in {"asked", "granted", "ready", "onwire"}
  /\ Move(c, "closed")
  /\ UNCHANGED <<asked, spent, log>>

\* The process is replaced: open calls are lost, the budget is new.
Restart ==
  /\ phase' = [c \in Calls |-> IF phase[c] = "new" THEN "new" ELSE "closed"]
  /\ spent' = 0
  /\ UNCHANGED <<asked, log>>

Next ==
  \/ \E c \in Calls : Ask(c) \/ Grant(c) \/ Log(c) \/ Send(c) \/ Close(c)
  \/ Restart

Spec == Init /\ [][Next]_vars
=============================================================================
