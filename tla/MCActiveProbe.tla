---------------------------- MODULE MCActiveProbe ----------------------------
(***************************************************************************)
(* Every list of up to four payloads that fit, are too large or no text.   *)
(***************************************************************************)
EXTENDS ActiveProbe

Fits == [text |-> TRUE, size |-> 1]
Full == [text |-> TRUE, size |-> 2]
TooLarge == [text |-> TRUE, size |-> 3]
NotText == [text |-> FALSE, size |-> 1]

MCProbes ==
  [accepted : BOOLEAN,
   payloads : UNION {[1..n -> {Fits, Full, TooLarge, NotText}] : n \in 0..4}]
=============================================================================
