------------------------------- MODULE Policy -------------------------------
(***************************************************************************)
(* The policy kernel: what an engagement file allows.  Pure operators over *)
(* an engagement record cfg,                                               *)
(*                                                                         *)
(*   cfg.origins    sequence of [scheme, host, ports, prefixes, methods]   *)
(*   cfg.excluded   set of normalised host names                           *)
(*   cfg.actions    [read_only, state_mutation, destructive,               *)
(*                   require_state_change_approval,                        *)
(*                   require_destructive_approval]                         *)
(*   cfg.active     active_testing.enabled                                 *)
(*   cfg.maxPayload active_testing.max_payload_bytes                       *)
(*   cfg.profiles   the declared auth profiles                             *)
(*                                                                         *)
(* and a request r = [url, method, body, header, profile, approval].  A    *)
(* URL is what urlsplit makes of it: [valid, scheme, host, port, userinfo, *)
(* fragment, path].  A host is a spelling [name, dotted]: the name with or *)
(* without the final dot that normalize_host strips.  A path is the        *)
(* sequence of its segments, so "/a/" is <<"a", "">>, "/" is <<"">> and no *)
(* path at all is <<>>.                                                    *)
(***************************************************************************)
EXTENDS Integers, Sequences, FiniteSets

Risks == {"read_only", "state_change", "destructive"}

ReadMethods == {"GET", "HEAD", "OPTIONS"}
SupportedMethods == ReadMethods \cup {"POST", "PUT", "PATCH", "DELETE"}

\* RateLimits.from_dict accepts a budget and a concurrency of at least one.
LimitsAccepted(maxRequests, maxConcurrent) ==
  /\ maxRequests \in Nat \ {0}
  /\ maxConcurrent \in Nat \ {0}

\* Mutant: every scheme defaults to port 80.
EffectivePort80(url) == IF url.port # 0 THEN url.port ELSE 80

\* A missing port and port 0 are both falsy: the scheme's default is used.
EffectivePort(url) ==
  IF url.port # 0 THEN url.port ELSE IF url.scheme = "https" THEN 443 ELSE 80

\* "" is the host urlsplit did not find; "." normalises to it as well.
NormalizeHost(host) == host.name

-----------------------------------------------------------------------------
\* prefix.rstrip("/"): the segments up to the last non-empty one.
RStrip(prefix) ==
  LET filled == {i \in DOMAIN prefix : prefix[i] # ""}
  IN  SubSeq(prefix, 1, CHOOSE n \in filled \cup {0} : \A i \in filled : i <= n)

PathMatches(path, prefixes) ==
  \/ prefixes = {}
  \/ \E p \in prefixes : LET q == RStrip(p)
                         IN  Len(q) <= Len(path) /\ SubSeq(path, 1, Len(q)) = q

\* The origins of the engagement that name the URL's scheme, host and port.
OriginsFor(cfg, url) ==
  {i \in DOMAIN cfg.origins : LET o == cfg.origins[i]
                              IN  /\ o.scheme = url.scheme
                                  /\ o.host = NormalizeHost(url.host)
                                  /\ EffectivePort(url) \in o.ports}

\* Only the first of them is consulted: its verdict on the method and on the
\* path is final, later origins with the same scheme, host and port are not.
FirstOriginAllows(cfg, url, method) ==
  \E i \in OriginsFor(cfg, url) :
    /\ \A j \in OriginsFor(cfg, url) : i <= j
    /\ method \in cfg.origins[i].methods
    /\ PathMatches(IF url.path = <<>> THEN <<"">> ELSE url.path, cfg.origins[i].prefixes)

\* Mutant: the exclusion list is consulted with the spelling of the URL.
CheckUrlRawHost(cfg, url, method) ==
  /\ url.valid
  /\ NormalizeHost(url.host) # ""
  /\ url.scheme \in {"http", "https"}
  /\ ~url.userinfo /\ ~url.fragment
  /\ url.host.dotted \/ NormalizeHost(url.host) \notin cfg.excluded
  /\ FirstOriginAllows(cfg, url, method)

CheckUrl(cfg, url, method) ==
  /\ url.valid
  /\ NormalizeHost(url.host) # ""
  /\ url.scheme \in {"http", "https"}
  /\ ~url.userinfo /\ ~url.fragment
  /\ NormalizeHost(url.host) \notin cfg.excluded
  /\ FirstOriginAllows(cfg, url, method)

-----------------------------------------------------------------------------
RiskForMethod(method) ==
  CASE method \in ReadMethods -> "read_only"
    [] method = "DELETE" -> "destructive"
    [] OTHER -> "state_change"

Allows(actions, risk) ==
  \/ risk = "read_only" /\ actions.read_only
  \/ risk = "state_change" /\ actions.state_mutation
  \/ risk = "destructive" /\ actions.destructive

Evaluate(actions, approvedIds, risk, approval) ==
  /\ Allows(actions, risk)
  /\ \/ risk = "read_only"
     \/ risk = "state_change" /\ ~actions.require_state_change_approval
     \/ risk = "destructive" /\ ~actions.require_destructive_approval
     \/ approval # "" /\ approval \in approvedIds

-----------------------------------------------------------------------------
\* What HttpExecutor.execute refuses before it asks the gateway.  r.header is
\* the strongest kind of header the caller passed: "none" (or only accept,
\* content-type and user-agent), "auth" or "forbidden".
Malformed(cfg, r) ==
  \/ r.method \notin SupportedMethods
  \/ r.body > 0 /\ r.method \in ReadMethods
  \/ r.body > cfg.maxPayload
  \/ r.header = "forbidden"
  \/ r.profile # "" /\ r.header = "auth"

\* resolve_auth_headers: the profile is declared and a secret for it is loaded.
ProfileResolves(cfg, loaded, r) ==
  r.profile = "" \/ r.profile \in cfg.profiles \cap loaded

\* The three answers of ToolGateway.authorize that do not depend on its state.
InScope(cfg, r) == CheckUrl(cfg, r.url, r.method)
ActiveAllowed(cfg, r) == RiskForMethod(r.method) = "read_only" \/ cfg.active
IsApproved(cfg, approvedIds, r) ==
  Evaluate(cfg.actions, approvedIds, RiskForMethod(r.method), r.approval)

Permitted(cfg, approvedIds, r) ==
  InScope(cfg, r) /\ ActiveAllowed(cfg, r) /\ IsApproved(cfg, approvedIds, r)
=============================================================================
