------------------------------ MODULE ActiveProbe ------------------------------
(***************************************************************************)
(* ActiveProbeEngine.run: a list of payloads is checked, expanded and sent *)
(* case by case through HttpExecutor.execute.  A payload is a record: text *)
(* tells whether it is a string, size is that of the expanded body.  Each  *)
(* case is a call of module Gateway, here allowed, refused or failed.      *)
(***************************************************************************)
EXTENDS Naturals, Sequences, SequencesExt

CONSTANTS Probes,     \* [accepted, payloads]: what run may be asked to do;
                      \* accepted: method, placeholder and template size are fine
          MaxCases,   \* active_testing.max_cases
          MaxPayload, \* active_testing.max_payload_bytes
          Budget      \* requests the gateway still grants

\* ActiveTestingPolicy.from_dict refuses other limits.
MaxPayloadBytes == 1024 * 1024
ProbeLimitsAccepted(maxCases, maxPayload) ==
  maxCases \in 1..10000 /\ maxPayload \in 1..MaxPayloadBytes

ASSUME ProbeAssumption == ProbeLimitsAccepted(MaxCases, MaxPayload) /\ Budget \in Nat

Payloads == [text : BOOLEAN, size : Nat]

ASSUME PayloadsAssumption == \A p \in Probes : p.payloads \in Seq(Payloads)

VARIABLES pc, probe,
          values,   \* payloads accepted by the first loop
          observed, \* len(observations)
          sent,     \* payloads whose request reached the network
          recorded  \* cases with an evidence record, in order

vars == <<pc, probe, values, observed, sent, recorded>>

PC == {"start", "collect", "expand", "execute", "returned", "raised"}

Init ==
  /\ pc = "start"
  /\ probe \in Probes
  /\ values = <<>>
  /\ observed = 0
  /\ sent = <<>>
  /\ recorded = <<>>

\* Method, placeholder and template size.
Validate ==
  /\ pc = "start"
  /\ pc' = IF probe.accepted THEN "collect" ELSE "raised"
  /\ UNCHANGED <<probe, values, observed, sent, recorded>>

\* The first loop takes the payloads one by one and refuses the whole probe at
\* the first that is no string or one too many.
Collect ==
  /\ pc = "collect"
  /\ Len(values) < Len(probe.payloads)
  /\ LET payload == probe.payloads[Len(values) + 1]
     IN  IF ~payload.text \/ Len(values) >= MaxCases
         THEN pc' = "raised" /\ UNCHANGED values
         ELSE pc' = "collect" /\ values' = Append(values, payload)
  /\ UNCHANGED <<probe, observed, sent, recorded>>

Collected ==
  /\ pc = "collect"
  /\ Len(values) = Len(probe.payloads)
  /\ pc' = IF values = <<>> THEN "raised" ELSE "expand"
  /\ UNCHANGED <<probe, values, observed, sent, recorded>>

\* Mutant: the size of the template stands for that of the expanded body.
ExpandUnchecked ==
  /\ pc = "expand"
  /\ observed < Len(values)
  /\ pc' = "execute"
  /\ UNCHANGED <<probe, values, observed, sent, recorded>>

\* The next case is expanded; one that is too large raises, after the cases
\* before it were sent.
Expand ==
  /\ pc = "expand"
  /\ observed < Len(values)
  /\ pc' = IF values[observed + 1].size > MaxPayload THEN "raised" ELSE "execute"
  /\ UNCHANGED <<probe, values, observed, sent, recorded>>

Case == values[observed + 1]

\* execute returned an observation.
Observe ==
  /\ pc = "execute"
  /\ Len(sent) < Budget
  /\ sent' = Append(sent, Case)
  /\ recorded' = Append(recorded, Case)
  /\ observed' = observed + 1
  /\ pc' = "expand"
  /\ UNCHANGED <<probe, values>>

\* Mutant: a case that failed is passed over.
FailGoesOn ==
  /\ pc = "execute"
  /\ \/ UNCHANGED <<sent, recorded>>
     \/ Len(sent) < Budget /\ sent' = Append(sent, Case) /\ UNCHANGED recorded
  /\ observed' = observed + 1
  /\ pc' = "expand"
  /\ UNCHANGED <<probe, values>>

\* execute raised, refused by the gateway before anything was sent, or failed
\* after the request left, with an error record or without: no case is
\* repeated and the observations so far are not returned.
Fail ==
  /\ pc = "execute"
  /\ \/ UNCHANGED <<sent, recorded>>
     \/ /\ Len(sent) < Budget
        /\ sent' = Append(sent, Case)
        /\ \/ recorded' = Append(recorded, Case)
           \/ UNCHANGED recorded
  /\ pc' = "raised"
  /\ UNCHANGED <<probe, values, observed>>

Return ==
  /\ pc = "expand"
  /\ observed = Len(values)
  /\ pc' = "returned"
  /\ UNCHANGED <<probe, values, observed, sent, recorded>>

Finished == pc \in {"returned", "raised"} /\ UNCHANGED vars

Next ==
  \/ Validate \/ Collect \/ Collected \/ Expand \/ Observe \/ Fail \/ Return
  \/ Finished

Spec == Init /\ [][Next]_vars

-----------------------------------------------------------------------------
(* Properties.                                                             *)

\* Type invariant; no more cases are held than the engagement allows.
TypeOK ==
  /\ pc \in PC
  /\ probe \in Probes
  /\ Len(values) <= MaxCases
  /\ IsPrefix(values, probe.payloads)
  /\ observed \in 0..Len(values)

\* The number and the kind of all payloads are checked before the first case is
\* sent, so a list that is too long sends nothing; the size of a case is
\* checked only when its turn comes, and it stops the cases behind it, so what
\* was sent is the list up to some case, each once, each within the limit.
SentIsCheckedPrefix ==
  /\ IsPrefix(sent, probe.payloads)
  /\ sent # <<>> => /\ Len(probe.payloads) <= MaxCases
                    /\ \A i \in DOMAIN probe.payloads : probe.payloads[i].text
  /\ \A i \in DOMAIN sent : sent[i].size <= MaxPayload

\* "cases_executed" is honest: a result is only returned when every payload was
\* sent once and has its evidence record, in order.
ResultIsComplete ==
  pc = "returned" => sent = probe.payloads /\ recorded = probe.payloads
=============================================================================
