-------------------------------- MODULE MCProxy --------------------------------
(***************************************************************************)
(* Two connections at a proxy whose budget is two requests and whose one   *)
(* slot they share; the operator gave a default profile.                   *)
(***************************************************************************)
EXTENDS ProxyProps, TLC

App == [name |-> "app", dotted |-> FALSE]
AppUrl == [valid |-> TRUE, scheme |-> "https", host |-> App, port |-> 0,
           userinfo |-> FALSE, fragment |-> FALSE, path |-> <<"api", "orders">>]

MCConfig ==
  [origins |-> << [scheme |-> "https", host |-> "app", ports |-> {443},
                   prefixes |-> {<<"api">>}, methods |-> {"GET", "POST"}] >>,
   excluded |-> {},
   actions |-> [read_only |-> TRUE, state_mutation |-> TRUE, destructive |-> FALSE,
                require_state_change_approval |-> TRUE,
                require_destructive_approval |-> TRUE],
   active |-> TRUE, maxPayload |-> 1, profiles |-> {"alice", "bob"}]

Get == [url |-> AppUrl, method |-> "GET", framing |-> "length", length |-> 0,
        header |-> "auth", profile |-> "", approval |-> ""]
Post == [Get EXCEPT !.method = "POST", !.length = 1, !.approval = "ticket"]

\* Permitted; then not approved, no secret loaded, over the size limit, a
\* header that cannot be forwarded, no URL, a port without a host, no handler
\* method.
MCMessages ==
  {Post, [Post EXCEPT !.approval = ""], [Get EXCEPT !.profile = "bob"],
   [Post EXCEPT !.length = 2], [Post EXCEPT !.header = "folded"],
   [Get EXCEPT !.url.valid = FALSE],
   [Get EXCEPT !.url.host.name = "", !.url.port = 80], [Get EXCEPT !.method = "CONNECT"]}

MCRequests == {RequestOf(m, n) : m \in MCMessages, n \in 0..2}

\* Only messages that come to execute, with a body their clients may hold back.
LiveMessages == {Post, [Get EXCEPT !.profile = "bob"]}

CallSymmetry == Permutations(Calls)
=============================================================================
