--------------------------- MODULE MCPolicyDecision ---------------------------
(***************************************************************************)
(* Engagement files with one or two origins, in both orders, overlapping   *)
(* and disjoint; with each flag true, false, null or left out; with limits *)
(* on both sides of every test; and URLs on and off every boundary the     *)
(* checks draw.  Then origins whose ports are no whole numbers or whose    *)
(* host is null.                                                           *)
(***************************************************************************)
EXTENDS PolicyDecision

Host(name) == [name |-> name, dotted |-> FALSE]

Ports(ns) == Just({Number(n) : n \in ns})

ReadOrigin == [scheme |-> "https", host |-> Just(Host("app")), ports |-> Ports({443}),
               path_prefixes |-> Just({<<"api", "">>}), methods |-> Absent]
WriteOrigin == [ReadOrigin EXCEPT !.methods = Just({"POST", "DELETE"}),
                                  !.path_prefixes = Just({<<"api", "orders">>, <<"admin">>})]
PlainOrigin == [scheme |-> "http", host |-> Just([name |-> "app", dotted |-> TRUE]),
                ports |-> Just({Number(80), Quoted(Number(8080))}), path_prefixes |-> Absent,
                methods |-> Just({"GET", "DELETE"})]
SlashedOrigin == [ReadOrigin EXCEPT !.path_prefixes = Just({<<"api", "", "">>})]
AnyPath == [PlainOrigin EXCEPT !.path_prefixes = Just({}), !.ports = Ports({8080})]

Base ==
  [engagement_id |-> Just("eng"), authorization |-> Just([artifact_id |-> Just("signed")]),
   allowed_origins |-> Just(<<WriteOrigin, ReadOrigin>>),
   excluded_hosts |-> Absent, auth_profiles |-> Absent, network |-> Absent,
   limits |-> Absent, actions |-> Absent, active_testing |-> Absent]

Enabled == Just([enabled |-> Just(TRUE), max_payload_bytes |-> Absent,
                 max_cases |-> Absent, kill_switch_file |-> Absent])

ScopeDocuments ==
  {[Base EXCEPT !.allowed_origins = Just(origins), !.excluded_hosts = hosts] :
     origins \in {<<ReadOrigin>>, <<ReadOrigin, WriteOrigin>>, <<WriteOrigin, ReadOrigin>>,
                  <<PlainOrigin, ReadOrigin>>, <<ReadOrigin, AnyPath>>, <<SlashedOrigin>>},
     hosts \in {Absent, Just({[name |-> "app", dotted |-> TRUE]})}}

Flag == {Absent, Null, Wrong, Just(TRUE), Just(FALSE)}

ActionDocuments ==
  {[Base EXCEPT !.active_testing = active,
                !.actions = Just([f \in Flags |-> IF f = "read_only" THEN Absent
                                  ELSE IF f \in {"state_mutation", "destructive"} THEN allow
                                  ELSE approve])] :
     active \in {Absent, Null, Wrong, Enabled, Just([Enabled.v EXCEPT !.enabled = Null])},
     allow \in Flag, approve \in Flag}

Values == {Absent, Null, Wrong, NaN, Infinity, Number(-1), Number(0), Number(1),
           Number(1048577), Fraction(-1), Fraction(0), Fraction(1048576),
           Quoted(Number(2)), Quoted(Fraction(2)), Just(TRUE), Just(FALSE)}

LimitDocuments ==
  LET limits(rate, budget, slots) ==
        Just([requests_per_second |-> rate, max_requests |-> budget,
              max_concurrent_requests |-> slots, max_cost_usd |-> rate])
  IN  {[Base EXCEPT !.limits = limits(v, Absent, Absent)] : v \in Values}
        \cup {[Base EXCEPT !.limits = limits(Absent, v, w)] : v, w \in Values}
        \cup {[Base EXCEPT !.active_testing = Just([Enabled.v EXCEPT !.max_payload_bytes = v,
                                                                     !.max_cases = w])] :
                v, w \in Values}

\* Accepted: a null id is the id "None", a null host the host none.
NullDocuments == {[Base EXCEPT !.engagement_id = Null],
                  [Base EXCEPT !.allowed_origins = Just(<<[ReadOrigin EXCEPT !.host = Null]>>)]}

RefusedDocuments ==
  {[Base EXCEPT !.engagement_id = Absent], [Base EXCEPT !.authorization = Wrong],
   [Base EXCEPT !.authorization.v.artifact_id = Absent], [Base EXCEPT !.network = Null],
   [Base EXCEPT !.network = Just([allow_private_addresses |-> Wrong])],
   [Base EXCEPT !.allowed_origins = Just(<<>>)], [Base EXCEPT !.excluded_hosts = Null],
   [Base EXCEPT !.allowed_origins.v[1].host = Absent],
   [Base EXCEPT !.allowed_origins.v[1].methods = Just({})]}

\* The last three are refused, the first five accepted.
OddPorts == {{Fraction(80)}, {Fraction(443), Number(8080)}, {Just(TRUE)},
             {Quoted(Number(443))}, {Number(443), Just(TRUE)},
             {Number(0)}, {Quoted(Fraction(80))}, {Number(443), NaN, Infinity}}

OddDocuments ==
  {[Base EXCEPT !.allowed_origins = Just(<<[AnyPath EXCEPT !.ports = Just(ports)], ReadOrigin>>)] :
     ports \in OddPorts}

MCDocuments == ScopeDocuments \cup ActionDocuments \cup LimitDocuments
                 \cup RefusedDocuments \cup NullDocuments \cup OddDocuments

Url(scheme, host, port, path) ==
  [valid |-> TRUE, scheme |-> scheme, host |-> Host(host),
   port |-> port, userinfo |-> FALSE, fragment |-> FALSE, path |-> path]

MCUrls ==
  LET plain == {Url("https", "app", 0, <<"api", "orders">>), Url("https", "app", 443, <<"api">>),
                Url("https", "app", 0, <<"apis">>), Url("http", "app", 0, <<>>),
                Url("http", "app", 8080, <<"">>), Url("https", "other", 0, <<"api">>),
                Url("ftp", "app", 443, <<"api">>), Url("http", "app", 443, <<"api">>),
                Url("http", "app", 1, <<>>), Url("https", "none", 0, <<"api">>)}
      base == Url("https", "app", 0, <<"api", "orders">>)
  IN  plain \cup {[base EXCEPT !.userinfo = TRUE], [base EXCEPT !.fragment = TRUE],
                  [base EXCEPT !.host.dotted = TRUE], [base EXCEPT !.valid = FALSE],
                  [base EXCEPT !.host.name = ""]}
=============================================================================
