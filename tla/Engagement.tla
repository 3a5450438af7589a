------------------------------- MODULE Engagement -------------------------------
(***************************************************************************)
(* EngagementConfig.from_dict: which engagement files are accepted, and the*)
(* engagement record (see Policy) an accepted one becomes.  A JSON value is*)
(* one of                                                                  *)
(*   Absent, Null          not there, null                                 *)
(*   Wrong                 of a type, or a text, the field refuses         *)
(*   Just(v)               true, false, a text, a list                     *)
(*   Number(n), Fraction(n)   the numbers n and n + 1/2                    *)
(*   Quoted(val)           the text of one of those numbers                *)
(*   NaN, Infinity         numbers Python's json module reads, or (where   *)
(*                         float() reads it) their text                    *)
(* A section (authorization, network, limits, actions, active_testing) is  *)
(* Just of a function from its fields to values; anything falsy in the     *)
(* place of the last three counts as Null.  Case and surrounding blanks    *)
(* are left out, and a blank text counts as Absent.  The file is refused   *)
(* either by a ConfigError or, for an infinite integer and a section that  *)
(* is no object, by an error nobody catches; either way nothing is loaded. *)
(***************************************************************************)
EXTENDS Policy

Absent == [kind |-> "absent"]
Null == [kind |-> "null"]
Wrong == [kind |-> "wrong"]
NaN == [kind |-> "nan"]
Infinity == [kind |-> "infinity"]
Just(v) == [kind |-> "value", v |-> v]
Number(n) == [kind |-> "number", n |-> n, half |-> FALSE]
Fraction(n) == [kind |-> "number", n |-> n, half |-> TRUE]
Quoted(val) == [val EXCEPT !.kind = "quoted"]

IsValue(val) == val.kind = "value"
Missing(val) == val.kind \in {"absent", "null"}

SectionAccepted(section) == IsValue(section) \/ Missing(section)
Field(section, f) == IF IsValue(section) THEN section.v[f] ELSE Absent

\* raw.get(field, default) for a list or the network object: null is neither.
ListAccepted(val) == IsValue(val) \/ val = Absent
ListOr(val, default) == IF IsValue(val) THEN val.v ELSE default

\* str(raw.get(field, "")).strip(): whatever is there has a text, null the text None.
TextAccepted(val) == val # Absent

-----------------------------------------------------------------------------
\* _strict_bool: true and false only; absent and null stand for the default.
BoolAccepted(val) == IsValue(val) \/ Missing(val)

\* Mutant: what the file leaves out is allowed.
StrictBoolLenient(val, default) == IF IsValue(val) THEN val.v ELSE TRUE

StrictBool(val, default) == IF IsValue(val) THEN val.v ELSE default

\* What float() and int() read: a number or its text, and true and false as 1
\* and 0.  int() reads no text of a fraction and cuts a number towards zero.
FloatReadable(val) == val.kind \in {"number", "quoted", "value"}
IntReadable(val) == val.kind \in {"number", "value"} \/ (val.kind = "quoted" /\ ~val.half)

NumberOf(val) == IF IsValue(val) THEN Number(IF val.v THEN 1 ELSE 0) ELSE val

IntOf(val) ==
  LET x == NumberOf(val) IN IF x.half /\ x.n < 0 THEN x.n + 1 ELSE x.n

\* float(raw) > 0, tested as not (value <= 0): NaN passes.
RateAccepted(val) ==
  \/ val \in {Absent, NaN, Infinity}
  \/ FloatReadable(val) /\ LET x == NumberOf(val) IN x.n > 0 \/ (x.n = 0 /\ x.half)

CostAccepted(val) ==
  val \in {Absent, NaN, Infinity} \/ (FloatReadable(val) /\ NumberOf(val).n >= 0)

\* Mutant: the number of the file is tested, not the integer made of it.
IntAcceptedRaw(val, most) ==
  \/ val = Absent
  \/ IntReadable(val) /\ LET x == NumberOf(val) IN x.n \in 1..most \/ (x.n = 0 /\ x.half)

\* int(raw) between 1 and most: a fraction is cut off before it is tested.
IntAccepted(val, most) == val = Absent \/ (IntReadable(val) /\ IntOf(val) \in 1..most)
IntOr(val, default) == IF val = Absent THEN default ELSE IntOf(val)

Unlimited == 1000000000   \* bound: max_requests and max_concurrent_requests have no maximum
MaxPayloadBytes == 1048576
MaxCases == 10000
MaxPort == 65535

-----------------------------------------------------------------------------
\* normalize_host(str(raw.get("host", ""))): of Just([name, dotted]), a text or
\* anything else with that text, the name; null has the text none.  Wrong is
\* here a text that is no host.
HostOf(val) ==
  IF IsValue(val) THEN NormalizeHost(val.v) ELSE IF val = Null THEN "none" ELSE ""

OriginAccepted(raw) ==
  /\ raw.scheme \in {"http", "https"}
  /\ HostOf(raw.host) # ""
  /\ IsValue(raw.ports) /\ raw.ports.v # {}
  /\ \A port \in raw.ports.v : IntReadable(port) /\ IntOf(port) \in 1..MaxPort
  /\ ListAccepted(raw.path_prefixes)
  /\ ListAccepted(raw.methods) /\ ListOr(raw.methods, {"GET"}) # {}

\* Without a list of prefixes every path, without one of methods only GET.
OriginOf(raw) ==
  [scheme |-> raw.scheme, host |-> HostOf(raw.host),
   ports |-> {IntOf(port) : port \in raw.ports.v},
   prefixes |-> ListOr(raw.path_prefixes, {<<"">>}),
   methods |-> ListOr(raw.methods, {"GET"})]

LimitsSectionAccepted(section) ==
  /\ SectionAccepted(section)
  /\ RateAccepted(Field(section, "requests_per_second"))
  /\ IntAccepted(Field(section, "max_requests"), Unlimited)
  /\ IntAccepted(Field(section, "max_concurrent_requests"), Unlimited)
  /\ CostAccepted(Field(section, "max_cost_usd"))

Flags == {"read_only", "state_mutation", "destructive",
          "require_state_change_approval", "require_destructive_approval"}

ActionsAccepted(section) ==
  SectionAccepted(section) /\ \A f \in Flags : BoolAccepted(Field(section, f))

ActionsOf(section) ==
  [f \in Flags |-> StrictBool(Field(section, f), f \notin {"state_mutation", "destructive"})]

ActiveAccepted(section) ==
  /\ SectionAccepted(section)
  /\ BoolAccepted(Field(section, "enabled"))
  /\ IntAccepted(Field(section, "max_payload_bytes"), MaxPayloadBytes)
  /\ IntAccepted(Field(section, "max_cases"), MaxCases)
  /\ Field(section, "kill_switch_file") # Wrong

Accepted(doc) ==
  /\ TextAccepted(doc.engagement_id)
  /\ IsValue(doc.authorization) /\ TextAccepted(Field(doc.authorization, "artifact_id"))
  /\ IsValue(doc.allowed_origins) /\ doc.allowed_origins.v # <<>>
  /\ \A i \in DOMAIN doc.allowed_origins.v : OriginAccepted(doc.allowed_origins.v[i])
  /\ ListAccepted(doc.excluded_hosts)
  /\ \A host \in ListOr(doc.excluded_hosts, {}) : NormalizeHost(host) # ""
  /\ ListAccepted(doc.auth_profiles)
  /\ ListAccepted(doc.network) /\ BoolAccepted(Field(doc.network, "allow_private_addresses"))
  /\ LimitsSectionAccepted(doc.limits)
  /\ ActionsAccepted(doc.actions)
  /\ ActiveAccepted(doc.active_testing)

ConfigOf(doc) ==
  [origins |-> [i \in DOMAIN doc.allowed_origins.v |-> OriginOf(doc.allowed_origins.v[i])],
   excluded |-> {NormalizeHost(host) : host \in ListOr(doc.excluded_hosts, {})},
   profiles |-> ListOr(doc.auth_profiles, {}) \ {""},
   private |-> StrictBool(Field(doc.network, "allow_private_addresses"), FALSE),
   maxRequests |-> IntOr(Field(doc.limits, "max_requests"), 100),
   maxConcurrent |-> IntOr(Field(doc.limits, "max_concurrent_requests"), 1),
   actions |-> ActionsOf(doc.actions),
   active |-> StrictBool(Field(doc.active_testing, "enabled"), FALSE),
   maxPayload |-> IntOr(Field(doc.active_testing, "max_payload_bytes"), 8192),
   maxCases |-> IntOr(Field(doc.active_testing, "max_cases"), 25)]
=============================================================================
