--------------------------- MODULE MCApplicationMap ---------------------------
(***************************************************************************)
(* o1 and o2: two observations of the proxy at one endpoint under          *)
(* different profiles, as in tests/test_http_executor.py.  o3: one of the  *)
(* proxy at another endpoint.  cmd: one of a command that shares the file, *)
(* at that endpoint too.                                                   *)
(***************************************************************************)
EXTENDS ApplicationMap

Order == {"o1", "o2"}
AllCalls == {"o1", "o2", "o3", "cmd"}
MCProcessOf == [o \in AllCalls |-> IF o = "cmd" THEN "command" ELSE "proxy"]
MCEndpointOf == [o \in AllCalls |-> IF o \in Order THEN "orders" ELSE "users"]
MCFieldOrder == <<"observed_auth_profiles", "evidence_ids">>
MCAdds ==
  [o \in AllCalls |->
     [f \in {"observed_auth_profiles", "evidence_ids"} |->
        IF f = "evidence_ids" THEN {o} ELSE IF o = "o1" THEN {"owner"} ELSE {"other"}]]
=============================================================================
