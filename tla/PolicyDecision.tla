---------------------------- MODULE PolicyDecision ----------------------------
(***************************************************************************)
(* An engagement file is loaded and one request is decided under it.  What *)
(* is decided is compared with what an operator who reads the file, not    *)
(* the program, expects.                                                   *)
(***************************************************************************)
EXTENDS Engagement

CONSTANTS Documents,   \* engagement files, see Engagement
          Urls,        \* URLs callers may ask for
          Methods,     \* methods callers may use
          Approvals,   \* approval ids callers may present, "" for none
          ApprovedIds  \* those the operator passed

\* A JSON list is a sequence or, where order does not matter, a set; a flag
\* that the code would accept is true or false; a path is a list of segments.
FlagShape(val) == IsValue(val) => val \in {Just(TRUE), Just(FALSE)}

DocumentShape(d) ==
  /\ IsValue(d.allowed_origins) =>
       /\ DOMAIN d.allowed_origins.v = 1..Len(d.allowed_origins.v)
       /\ \A i \in DOMAIN d.allowed_origins.v :
            LET prefixes == d.allowed_origins.v[i].path_prefixes
            IN  IsValue(prefixes) => prefixes.v \subseteq Seq(STRING)
  /\ \A f \in Flags : FlagShape(Field(d.actions, f))
  /\ FlagShape(Field(d.active_testing, "enabled"))

ASSUME DecisionAssumption ==
  /\ \A d \in Documents : DocumentShape(d)
  /\ \A url \in Urls : url.path \in Seq(STRING)

VARIABLES doc, cfg, request, verdict
vars == <<doc, cfg, request, verdict>>

NoConfig == [origins |-> <<>>]

Init ==
  /\ doc \in Documents
  /\ cfg = NoConfig
  /\ request \in [url : Urls, method : Methods, approval : Approvals]
  /\ verdict = "unread"

Load ==
  /\ verdict = "unread"
  /\ IF Accepted(doc) THEN cfg' = ConfigOf(doc) /\ verdict' = "pending"
     ELSE verdict' = "refused" /\ UNCHANGED cfg
  /\ UNCHANGED <<doc, request>>

\* ScopeGuard.check, the active-testing switch and ActionApprover.evaluate, in
\* the order of ToolGateway.authorize.
Decide ==
  /\ verdict = "pending"
  /\ verdict' = IF ~InScope(cfg, request) THEN "out_of_scope"
                ELSE IF ~ActiveAllowed(cfg, request) THEN "inactive"
                ELSE IF ~IsApproved(cfg, ApprovedIds, request) THEN "unapproved"
                ELSE "permitted"
  /\ UNCHANGED <<doc, cfg, request>>

Next == Load \/ Decide \/ (verdict \notin {"unread", "pending"} /\ UNCHANGED vars)
Spec == Init /\ [][Next]_vars

-----------------------------------------------------------------------------
\* The path begins with the segments of the prefix, whatever slashes end it.
StartsWith(path, prefix) ==
  \E n \in 0..Len(path) :
    /\ n <= Len(prefix) /\ SubSeq(path, 1, n) = SubSeq(prefix, 1, n)
    /\ \A i \in n+1..Len(prefix) : prefix[i] = ""

\* The ports an origin of the file lists: its whole numbers, quoted or not.
IsPlainPort(val) == val.kind \in {"number", "quoted"} /\ ~val.half
Listed(o) == {val.n : val \in {port \in o.ports.v : IsPlainPort(port)}}

\* The origin names a host and lists nothing that is no port.
IsPlainOrigin(o) == IsValue(o.host) /\ \A port \in o.ports.v : IsPlainPort(port)

\* The reading of the engagement file: some origin covers the request whole.
Covers(o, url, method) ==
  /\ o.scheme = url.scheme
  /\ IsValue(o.host) /\ o.host.v.name = url.host.name
  /\ \/ url.port \in Listed(o)
     \/ url.port = 0 /\ (IF url.scheme = "https" THEN 443 ELSE 80) \in Listed(o)
  /\ IF o.methods = Absent THEN method = "GET" ELSE method \in o.methods.v
  /\ \/ ~IsValue(o.path_prefixes) \/ o.path_prefixes.v = {}
     \/ \E p \in o.path_prefixes.v : StartsWith(url.path, p)

Excluded(d, url) ==
  d.excluded_hosts # Absent /\ \E host \in d.excluded_hosts.v : host.name = url.host.name

CoveredByFile(d, r) ==
  /\ ~Excluded(d, r.url)
  /\ \E i \in DOMAIN d.allowed_origins.v : Covers(d.allowed_origins.v[i], r.url, r.method)

\* No two origins of the file share a scheme, a host and a port.
DisjointOrigins(d) ==
  \A i, j \in DOMAIN d.allowed_origins.v :
    LET o == d.allowed_origins.v[i]
        p == d.allowed_origins.v[j]
    IN  i # j => o.scheme # p.scheme \/ o.host.v.name # p.host.v.name \/ Listed(o) \cap Listed(p) = {}

\* Every origin of the file names a host and lists whole numbers as its ports.
PlainOrigins(d) == \A i \in DOMAIN d.allowed_origins.v : IsPlainOrigin(d.allowed_origins.v[i])

PlainUrl(url) ==
  url.valid /\ ~url.userinfo /\ ~url.fragment /\ url.scheme \in {"http", "https"}

Decided == verdict \notin {"unread", "refused", "pending"}

\* Of a file whose hosts are given and whose ports are whole numbers, loading
\* and check_url together let nothing through that no origin of the file covers
\* as a whole or whose host is excluded under any spelling; the method of one
\* origin never combines with the path of another.
ScopeSound ==
  Decided /\ verdict # "out_of_scope" /\ PlainOrigins(doc) => CoveredByFile(doc, request)

\* check_url refuses nothing such a file covers, as long as no two origins share
\* a scheme, a host and a port.  Where they do the first one decides alone.
ScopeComplete ==
  verdict = "out_of_scope" /\ PlainUrl(request.url) /\ PlainOrigins(doc) /\ DisjointOrigins(doc)
    => ~CoveredByFile(doc, request)

Says(section, f, b) == IsValue(section) /\ section.v[f] = Just(b)

\* A request that changes state passes only if the file itself says, in so many
\* words, that active testing is on and its risk allowed, and that no approval
\* is needed unless the operator gave that very id: nothing the file leaves
\* out or leaves null, and no default, ever opens it.
NothingByDefault ==
  verdict = "permitted" /\ request.method \notin ReadMethods =>
    LET risk == IF request.method = "DELETE" THEN "destructive" ELSE "state_mutation"
        approval == IF request.method = "DELETE" THEN "require_destructive_approval"
                    ELSE "require_state_change_approval"
    IN  /\ Says(doc.active_testing, "enabled", TRUE)
        /\ Says(doc.actions, risk, TRUE)
        /\ Says(doc.actions, approval, FALSE) \/ request.approval \in ApprovedIds

\* Whatever numbers an accepted file holds, fractions, NaN and infinity
\* included, the budget, the slots and the case and payload limits it loads are
\* positive integers within the code's maxima: what the gateway and the probe
\* engine assume of them.  The pacing rate has no such guarantee.
LoadedLimitsBind ==
  Decided => /\ LimitsAccepted(cfg.maxRequests, cfg.maxConcurrent)
             /\ cfg.maxPayload \in 1..MaxPayloadBytes
             /\ cfg.maxCases \in 1..MaxCases
=============================================================================
