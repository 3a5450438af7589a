------------------------------- MODULE MCGateway -------------------------------
(***************************************************************************)
(* Instances of Gateway for TLC.                                           *)
(***************************************************************************)
EXTENDS GatewayProps, TLC

App == [name |-> "app", dotted |-> FALSE]
AppUrl == [valid |-> TRUE, scheme |-> "https", host |-> App, port |-> 0,
           userinfo |-> FALSE, fragment |-> FALSE, path |-> <<"api", "orders">>]

MCConfig ==
  [origins |-> << [scheme |-> "https", host |-> "app", ports |-> {443},
                   prefixes |-> {<<"api">>}, methods |-> {"GET"}] >>,
   excluded |-> {},
   actions |-> [read_only |-> TRUE, state_mutation |-> TRUE, destructive |-> FALSE,
                require_state_change_approval |-> TRUE,
                require_destructive_approval |-> TRUE],
   active |-> TRUE, maxPayload |-> 1, profiles |-> {"alice"}]

Get == [mode |-> "execute", url |-> AppUrl, method |-> "GET", body |-> 0,
        header |-> "none", profile |-> "alice", approval |-> ""]
DryRun == [Get EXCEPT !.mode = "dry_run"]

OneRequest == {Get}
GetOrDryRun == {Get, DryRun}

CallSymmetry == Permutations(Calls)
=============================================================================
