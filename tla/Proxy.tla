--------------------------------- MODULE Proxy ---------------------------------
(***************************************************************************)
(* EgressProxyServer: one handler thread per client connection reads one   *)
(* request, hands it to HttpExecutor.execute, which module Gateway models, *)
(* and writes one reply.  All handlers share one gateway.  Clients may     *)
(* stall or go away at any point; nothing in the handler times out on them.*)
(* Each element of Calls is one connection.                                *)
(***************************************************************************)
EXTENDS GatewayProps

CONSTANTS Messages,        \* what clients send, see RequestOf
          DefaultApproval, \* default_approval_id, "" for none
          DefaultProfile   \* default_auth_profile, "" for none

\* EgressProxyServer.__init__ adds the default approval id to the approved ones.
ASSUME DefaultAssumption == DefaultApproval # "" => DefaultApproval \in ApprovedIds

\* A length that is no number, or a negative one, counts as another framing.
ASSUME LengthAssumption == \A m \in Messages : m.length \in Nat

VARIABLES
  msg,     \* [Calls -> Messages]: the message once the head is read, else NoRequest
  handler, \* [Calls -> {"none", "reading", "forwarding", "replying", "over"}]
  answer,  \* [Calls -> Answers]: the reply being written, or that was written
  gone     \* connections whose client has closed its side

client == <<msg, handler, answer, gone>>
proxyVars == <<vars, msg, handler, answer, gone>>

\* "rejected" is a 400 or 501, "refused" a 502; "dropped" is no reply at all.
Answers == {"none", "rejected", "refused", "upstream", "dropped"}

\* What _forward makes of a message m of which n body bytes arrived.  m has the
\* fields of a request, where profile and approval come from control headers,
\* and framing and length.  A header "folded" is a forwarded one whose value
\* spans two lines; any other kind of header is left out.
Or(given, default) == IF given # "" THEN given ELSE default
Profile(m) == Or(m.profile, DefaultProfile)

\* _forward_headers drops the client's own credentials if a profile is used.
ForwardHeaders(m) == IF m.header = "auth" /\ Profile(m) = "" THEN "auth" ELSE "none"

RequestOf(m, n) ==
  [mode |-> "execute", url |-> m.url, method |-> m.method, body |-> n,
   header |-> ForwardHeaders(m), profile |-> Profile(m),
   approval |-> Or(m.approval, DefaultApproval)]

\* _read_body raises EgressProxyError, or _forward_headers does after it.
Unreadable(m) == m.framing # "length" \/ m.length > Config.maxPayload
Foldable(m) == m.header = "folded"

\* The netloc of the target is empty: a netloc with a port, user information or
\* only a dot but no host name is not, and is left to the policy to refuse.
NoNetloc(url) ==
  url.host.name = "" /\ ~url.host.dotted /\ url.port = 0 /\ ~url.userinfo

\* No handler method for CONNECT and unknown methods, and no absolute target.
Rejected(m) ==
  \/ m.method \notin SupportedMethods
  \/ m.url.valid /\ (m.url.scheme \notin {"http", "https"} \/ NoNetloc(m.url))
  \/ m.url.valid /\ m.url.fragment

ProxyInit ==
  /\ Init
  /\ msg = [c \in Calls |-> NoRequest]
  /\ handler = [c \in Calls |-> "none"]
  /\ answer = [c \in Calls |-> "none"]
  /\ gone = {}

Replying(c, kind) ==
  /\ handler' = [handler EXCEPT ![c] = "replying"]
  /\ answer' = [answer EXCEPT ![c] = kind]

-----------------------------------------------------------------------------
\* A connection is accepted and its head parsed.  urlsplit may raise for a
\* broken target, outside the try block: the thread ends without a reply.
Accept(c) ==
  /\ handler[c] = "none"
  /\ \E m \in Messages :
       /\ msg' = [msg EXCEPT ![c] = m]
       /\ \/ Rejected(m) /\ Replying(c, "rejected")
          \/ ~Rejected(m) /\ ~m.url.valid /\ Replying(c, "dropped")
          \/ ~Rejected(m) /\ handler' = [handler EXCEPT ![c] = "reading"] /\ UNCHANGED answer
  /\ UNCHANGED <<vars, gone>>

\* The body cannot be read, or a header cannot be forwarded, or the client
\* reset the connection: a 502 before execute is called.
RefuseBody(c) ==
  /\ handler[c] = "reading"
  /\ Unreadable(msg[c]) \/ Foldable(msg[c]) \/ c \in gone
  /\ Replying(c, "refused")
  /\ UNCHANGED <<vars, msg, gone>>

\* rfile.read(length) returns less than length only at the end of the stream.
Arrived(c) == IF c \in gone THEN 0..msg[c].length ELSE {msg[c].length}

\* Mutant: one lock is held from the call of execute to the end of the reply.
ExecuteLocked(c) ==
  /\ handler[c] = "reading"
  /\ ~Unreadable(msg[c]) /\ ~Foldable(msg[c])
  /\ \A d \in Calls : handler[d] \notin {"forwarding", "replying"}
  /\ Start(c)
  /\ \E n \in Arrived(c) : req'[c] = RequestOf(msg[c], n)
  /\ IF pc'[c] = "done" THEN Replying(c, "refused")
     ELSE handler' = [handler EXCEPT ![c] = "forwarding"] /\ UNCHANGED answer
  /\ UNCHANGED <<msg, gone>>

\* The body is read and execute is called with what arrived.
Execute(c) ==
  /\ handler[c] = "reading"
  /\ ~Unreadable(msg[c]) /\ ~Foldable(msg[c])
  /\ Start(c)
  /\ \E n \in Arrived(c) : req'[c] = RequestOf(msg[c], n)
  /\ IF pc'[c] = "done" THEN Replying(c, "refused")
     ELSE handler' = [handler EXCEPT ![c] = "forwarding"] /\ UNCHANGED answer
  /\ UNCHANGED <<msg, gone>>

\* Mutant: a response without evidence is passed on.
AnswersUnrecorded(label) ==
  CASE label = "connect" -> {"dropped"}
    [] label = "record"  -> {"upstream", "dropped"}
    [] label = "observe" -> {"upstream", "refused", "dropped"}
    [] OTHER             -> {"refused"}

\* How execute ends at each of its statements: by one of the exceptions that
\* _forward turns into a 502, by a ValueError it does not catch (a header or a
\* record that has no encoding), or by returning the response.
AnswersAt(label) ==
  CASE label = "connect" -> {"dropped"}
    [] label = "record"  -> {"refused", "dropped"}
    [] label = "observe" -> {"upstream", "refused", "dropped"}
    [] OTHER             -> {"refused"}

\* A step of execute.
Forward(c) ==
  /\ handler[c] = "forwarding"
  /\ CallStep(c)
  /\ IF pc'[c] = "done" THEN \E kind \in AnswersAt(pc[c]) : Replying(c, kind)
     ELSE UNCHANGED <<handler, answer>>
  /\ UNCHANGED <<msg, gone>>

\* The reply is written, or writing it raises and the thread ends.
Reply(c) ==
  /\ handler[c] = "replying"
  /\ handler' = [handler EXCEPT ![c] = "over"]
  /\ answer' = [answer EXCEPT ![c] = IF c \in gone THEN "dropped" ELSE @]
  /\ UNCHANGED <<vars, msg, gone>>

\* Leaving while execute runs shows only when the reply is written.
ClientGone(c) ==
  /\ handler[c] \in {"reading", "replying"}
  /\ c \notin gone
  /\ gone' = gone \cup {c}
  /\ UNCHANGED <<vars, msg, handler, answer>>

\* The operator ends the command or it dies: handlers are daemon threads and
\* go with it.  Connections not yet made are served by the next process.
Shutdown ==
  /\ Crash
  /\ LET open == {c \in Calls : handler[c] \notin {"none", "over"}}
     IN  /\ handler' = [c \in Calls |-> IF c \in open THEN "over" ELSE handler[c]]
         /\ answer' = [c \in Calls |-> IF c \in open THEN "dropped" ELSE answer[c]]
  /\ UNCHANGED <<msg, gone>>

-----------------------------------------------------------------------------
HandlerStep(c) == Accept(c) \/ RefuseBody(c) \/ Execute(c) \/ Forward(c) \/ Reply(c)

ProxyNext ==
  \/ \E c \in Calls : HandlerStep(c) \/ ClientGone(c)
  \/ (Tick \/ TripKill \/ ClearKill) /\ UNCHANGED client
  \/ Shutdown

ProxySpec == ProxyInit /\ [][ProxyNext]_proxyVars

\* A handler inside execute is run and time passes.  An answer is not owed: a
\* peer that sends a byte now and then may hold a connection open for ever.
\* Whatever waits for a client is owed to nobody either: rfile.read and
\* wfile.write have no timeout.
FairProxySpec ==
  /\ ProxySpec
  /\ WF_proxyVars(Tick /\ UNCHANGED client)
  /\ \A c \in Calls : WF_proxyVars(pc[c] # "await" /\ Forward(c))
=============================================================================
