--------------------------- MODULE MCInvestigation ---------------------------
(***************************************************************************)
(* Two runs over two policies.  The responses are the ones the verdict     *)
(* tells apart: the resource, the same with another time stamp, with its   *)
(* identifier as a number, without its impact field, without its           *)
(* identifier, a refusal and plain texts.                                  *)
(***************************************************************************)
EXTENDS Investigation, TLC

Json(fields, tag) == [status |-> 200, bytes |-> tag, isObject |-> TRUE, object |-> fields]
String(text) == [json |-> "string", text |-> text]
Seven == String("7")
Email == "email" :> String("a")
Order == Json("id" :> Seven @@ Email @@ "created_at" :> String("t1"), "order")
OrderLater == Json("id" :> Seven @@ Email @@ "created_at" :> String("t2"), "order_later")
OrderNumbered == Json("id" :> [Seven EXCEPT !.json = "number"] @@ Email, "order_numbered")
OrderBare == Json("id" :> Seven, "order_bare")
NoIdentifier == Json("id" :> [Seven EXCEPT !.json = "list"] @@ Email, "no_identifier")
Refused == [Order EXCEPT !.status = 403]
Text == [status |-> 200, bytes |-> "text", isObject |-> FALSE, object |-> <<>>]
OtherText == [Text EXCEPT !.bytes = "other_text"]
MCResponses == {Order, OrderLater, OrderNumbered, OrderBare, NoIdentifier, Refused, Text, OtherText}

Answer(kind) == [task_kind |-> kind, target_ref |-> "endpoint:ep_001", opaque |-> TRUE,
                 risk |-> "read_only", approval_required |-> FALSE]
MCAnswers == {Answer("compare_authorization"), Answer("validate_candidate"),
              Answer("inspect_api"),
              [Answer("inspect_api") EXCEPT !.risk = "destructive"]}

RunSymmetry == Permutations(Runs)
=============================================================================
