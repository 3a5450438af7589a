------------------------------- MODULE ProxyProps -------------------------------
(***************************************************************************)
(* What the proxy as a whole promises its operator and its clients.  The   *)
(* promises of GatewayProps are about the same state and are checked of    *)
(* the proxy's behaviours too.                                             *)
(***************************************************************************)
EXTENDS Proxy

\* A client only ever sees a response of the application that the audit trail
\* has: with the ready receipt and the evidence record on disk, although disk
\* faults, the kill switch and other handlers come in between.
ReplyIsBacked ==
  \A c \in Calls : answer[c] = "upstream" =>
    c \in sent /\ receipts[c] = "ready" /\ evidence[c] = "ok"

\* A client that sends its message and reads its reply, or goes away.
Prompt(c) == WF_proxyVars(RefuseBody(c) \/ Execute(c) \/ Reply(c))

PeersAnswer == \A c \in Calls : []<>(pc[c] # "await")

\* A prompt client is served, although the others stall for ever in the middle
\* of their bodies or of reading their replies, while it competes with them for
\* the slot, the pacing and the budget: no handler holds anything of the gateway
\* while it waits for its client.  Applications that hold back their answers are
\* the one excuse.
StalledClientsHarmless ==
  \A c \in Calls :
    PeersAnswer /\ Prompt(c) => (handler[c] = "reading" ~> handler[c] = "over")
=============================================================================
