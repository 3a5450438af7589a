------------------------------- MODULE MCBrowser -------------------------------
(***************************************************************************)
(* A page that makes three requests, some of them out of scope or changing *)
(* state, under a budget of two and lists that hold two entries.  The      *)
(* engagement lets state changes, but nothing destructive, go unapproved.  *)
(***************************************************************************)
EXTENDS Browser

PageUrl == [valid |-> TRUE, scheme |-> "https", host |-> [name |-> "app", dotted |-> FALSE],
            port |-> 0, userinfo |-> FALSE, fragment |-> FALSE, path |-> <<"">>]

MCConfig ==
  [origins |-> << [scheme |-> "https", host |-> "app", ports |-> {443},
                   prefixes |-> {}, methods |-> {"GET", "POST", "DELETE"}] >>,
   excluded |-> {},
   actions |-> [read_only |-> TRUE, state_mutation |-> TRUE, destructive |-> FALSE,
                require_state_change_approval |-> FALSE,
                require_destructive_approval |-> TRUE],
   active |-> TRUE, maxPayload |-> 1, profiles |-> {"alice"}]

OtherUrl == [PageUrl EXCEPT !.host.name = "other"]

\* The gateway permits the first, calls the second destructive and finds the
\* third out of scope.
MCPageRequests == {[url |-> PageUrl, method |-> "GET"], [url |-> PageUrl, method |-> "DELETE"],
                   [url |-> OtherUrl, method |-> "GET"]}
=============================================================================
