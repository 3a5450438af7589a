----------------------------- MODULE MCEvidenceLog -----------------------------
(***************************************************************************)
(* Three threads of a proxy, and a command that uses the same directory.   *)
(***************************************************************************)
EXTENDS EvidenceLog

CONSTANTS t1, t2, t3, command

MCCalls == {t1, t2, t3, command}
MCProcessOf == [c \in MCCalls |-> IF c = command THEN "command" ELSE "proxy"]
ThreadSymmetry == Permutations({t1, t2, t3})
=============================================================================
