----------------------------- MODULE MCToolRunner -----------------------------
(***************************************************************************)
(* A permitted tool, one that lacks an approval and one with no adapter.   *)
(***************************************************************************)
EXTENDS ToolRunner

MCTools == {[runnable |-> TRUE, permitted |-> TRUE],
            [runnable |-> TRUE, permitted |-> FALSE],
            [runnable |-> FALSE, permitted |-> TRUE]}
=============================================================================
