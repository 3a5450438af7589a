--------------------------- MODULE ActiveProbeProofs ---------------------------
(***************************************************************************)
(* Safety of ActiveProbe for every list of payloads, of any length, every  *)
(* limit the loader accepts and every budget.                              *)
(***************************************************************************)
EXTENDS ActiveProbe, SequenceTheorems, TLAPS

Sending == {"expand", "execute", "returned"}

Types ==
  /\ pc \in PC
  /\ probe \in Probes
  /\ values \in Seq(Payloads) /\ observed \in Nat
  /\ sent \in Seq(Payloads) /\ recorded \in Seq(Payloads)

\* s is the beginning of t, element by element.
Begins(s, t) == Len(s) <= Len(t) /\ \A i \in 1..Len(s) : s[i] = t[i]

\* The values are the beginning of the payloads, all of them once the first
\* loop is over; the next case follows what was sent and what was recorded.
ProbeInv ==
  /\ Len(values) <= MaxCases
  /\ Begins(values, probe.payloads) /\ \A i \in 1..Len(values) : values[i].text
  /\ pc \in Sending \/ sent # <<>> => Len(values) = Len(probe.payloads)
  /\ Begins(sent, values) /\ \A i \in 1..Len(sent) : sent[i].size <= MaxPayload
  /\ pc \in {"start", "collect"} => observed = 0 /\ sent = <<>> /\ recorded = <<>>
  /\ pc \in Sending => /\ observed <= Len(values)
                       /\ Len(sent) = observed
                       /\ Len(recorded) = observed /\ Begins(recorded, values)
  /\ pc = "execute" => observed < Len(values) /\ Case.size <= MaxPayload
  /\ pc = "returned" => observed = Len(values)

\* The limits the loader accepts are numbers, that on cases at least one.
LEMMA Limits == MaxCases \in Nat \ {0} /\ MaxPayload \in Nat
  BY ProbeAssumption DEF ProbeLimitsAccepted

\* The beginning of a sequence with one more element.
LEMMA AppendBegins ==
  ASSUME NEW S, NEW s \in Seq(S), NEW t \in Seq(S), Begins(s, t), Len(s) < Len(t)
  PROVE  /\ Append(s, t[Len(s) + 1]) \in Seq(S)
         /\ Len(Append(s, t[Len(s) + 1])) = Len(s) + 1
         /\ \A i \in 1..Len(s) : Append(s, t[Len(s) + 1])[i] = s[i]
         /\ Append(s, t[Len(s) + 1])[Len(s) + 1] = t[Len(s) + 1]
         /\ Begins(Append(s, t[Len(s) + 1]), t)
<1> DEFINE e == t[Len(s) + 1]
<1>1. e \in S /\ Len(s) \in Nat
  OBVIOUS
<1> HIDE DEF e
<1>2. /\ Append(s, e) \in Seq(S) /\ Len(Append(s, e)) = Len(s) + 1
      /\ \A i \in 1..Len(s) : Append(s, e)[i] = s[i]
      /\ Append(s, e)[Len(s) + 1] = e
  BY <1>1
<1>3. \A i \in 1..(Len(s) + 1) : i \in 1..Len(s) \/ i = Len(s) + 1
  BY <1>1
<1>4. Begins(Append(s, e), t)
  BY <1>1, <1>2, <1>3 DEF Begins, e
<1> QED
  BY <1>2, <1>4 DEF e

\* What begins t in this sense is a prefix of it.
LEMMA BeginsIsPrefix ==
  ASSUME NEW S, NEW s \in Seq(S), NEW t \in Seq(S), Begins(s, t)
  PROVE  IsPrefix(s, t) /\ (Len(s) = Len(t) => s = t)
<1>1. Len(s) \in Nat /\ Len(t) \in Nat /\ Len(s) <= Len(t)
  BY DEF Begins
<1>2. /\ SubSeq(s, 1, Len(s)) \in Seq(S) /\ SubSeq(t, 1, Len(s)) \in Seq(S)
      /\ Len(SubSeq(s, 1, Len(s))) = Len(s) /\ Len(SubSeq(t, 1, Len(s))) = Len(s)
      /\ \A i \in 1..Len(s) : /\ SubSeq(s, 1, Len(s))[i] = s[i]
                              /\ SubSeq(t, 1, Len(s))[i] = t[i]
  BY <1>1
<1>3. SubSeq(s, 1, Len(s)) = SubSeq(t, 1, Len(s))
  BY <1>2, SeqEqual DEF Begins
<1>4. Len(s) = Len(t) => s = t
  BY SeqEqual DEF Begins
<1> QED
  BY <1>1, <1>3, <1>4 DEF IsPrefix

\* Every step of the engine keeps the types and what is known at each label.
LEMMA ProbeStep == Types /\ ProbeInv /\ [Next]_vars => Types' /\ ProbeInv'
<1> SUFFICES ASSUME Types, ProbeInv, [Next]_vars PROVE Types' /\ ProbeInv'
  OBVIOUS
<1> USE DEF PC, Sending
<1>a. probe.payloads \in Seq(Payloads)
  BY PayloadsAssumption DEF Types
<1>1. CASE Validate
  BY <1>1 DEF Validate, Types, ProbeInv, Begins, Case
<1>2. CASE Collect
  <2> DEFINE payload == probe.payloads[Len(values) + 1]
  <2>1. Len(values) < Len(probe.payloads) /\ pc = "collect" /\ sent = <<>>
        /\ UNCHANGED <<probe, observed, sent, recorded>>
    BY <1>2 DEF Collect, ProbeInv
  <2>2. CASE pc' = "raised" /\ UNCHANGED values
    BY <1>2, <2>1, <2>2 DEF Types, ProbeInv, Begins, Case
  <2>3. CASE payload.text /\ Len(values) < MaxCases /\ pc' = "collect"
             /\ values' = Append(values, payload)
    <3>1. /\ values' \in Seq(Payloads) /\ Len(values') = Len(values) + 1
          /\ Begins(values', probe.payloads)
          /\ \A i \in 1..Len(values) : values'[i] = values[i]
          /\ values'[Len(values) + 1] = payload
      BY <1>a, <2>1, <2>3, AppendBegins DEF Types, ProbeInv
    <3>2. \A i \in 1..Len(values') : i \in 1..Len(values) \/ i = Len(values) + 1
      BY <3>1 DEF Types
    <3>3. \A i \in 1..Len(values') : values'[i].text
      BY <2>3, <3>1, <3>2 DEF ProbeInv
    <3>4. Len(values') <= MaxCases
      BY <2>3, <3>1, Limits DEF Types
    <3>5. Begins(sent', values')
      BY <2>1, <3>1 DEF Begins, Types
    <3> HIDE DEF payload
    <3> QED
      BY <2>1, <2>3, <3>1, <3>3, <3>4, <3>5 DEF Types, ProbeInv
  <2> QED
    BY <1>2, <2>2, <2>3, Limits DEF Collect, Types
<1>3. CASE Collected
  BY <1>3 DEF Collected, Types, ProbeInv, Begins, Case
<1>4. CASE Expand
  <2>1. /\ pc = "expand" /\ observed < Len(values) /\ pc' \in {"raised", "execute"}
        /\ UNCHANGED <<probe, values, observed, sent, recorded>>
    BY <1>4 DEF Expand
  <2>2. pc' = "execute" => Case.size <= MaxPayload
    <3>1. Case \in Payloads
      BY <2>1 DEF Case, Types
    <3>2. Case.size \in Nat
      BY <3>1 DEF Payloads
    <3> QED
      BY <1>4, <3>2, Limits DEF Expand, Case
  <2>3. Case' = Case
    BY <2>1 DEF Case
  <2> QED
    BY <2>1, <2>2, <2>3 DEF Types, ProbeInv, Begins
<1>5. ASSUME pc = "execute", UNCHANGED <<probe, values>>,
             sent' = sent \/ sent' = Append(sent, Case)
      PROVE  /\ sent' \in Seq(Payloads) /\ Begins(sent', values')
             /\ \A i \in 1..Len(sent') : sent'[i].size <= MaxPayload
             /\ sent' = Append(sent, Case) => Len(sent') = observed + 1
  <2>1. Len(sent) = observed /\ observed < Len(values) /\ Case.size <= MaxPayload
        /\ Begins(sent, values) /\ Case = values[Len(sent) + 1]
    BY <1>5 DEF ProbeInv, Case
  <2>2. CASE sent' = sent
    BY <1>5, <2>1, <2>2, AppendBegins DEF Types, ProbeInv
  <2>3. CASE sent' = Append(sent, Case)
    <3>1. /\ sent' \in Seq(Payloads) /\ Begins(sent', values) /\ Len(sent') = Len(sent) + 1
          /\ \A i \in 1..Len(sent) : sent'[i] = sent[i]
          /\ sent'[Len(sent) + 1] = Case
      BY <2>1, <2>3, AppendBegins DEF Types
    <3>2. \A i \in 1..Len(sent') : i \in 1..Len(sent) \/ i = Len(sent) + 1
      BY <3>1 DEF Types
    <3> QED
      BY <1>5, <2>1, <3>1, <3>2 DEF ProbeInv
  <2> QED
    BY <1>5, <2>2, <2>3
<1>6. ASSUME pc = "execute", UNCHANGED <<probe, values>>,
             recorded' = recorded \/ recorded' = Append(recorded, Case)
      PROVE  /\ recorded' \in Seq(Payloads) /\ Begins(recorded', values')
             /\ recorded' = Append(recorded, Case) => Len(recorded') = observed + 1
  <2>1. Len(recorded) = observed /\ observed < Len(values)
        /\ Begins(recorded, values) /\ Case = values[Len(recorded) + 1]
    BY <1>6 DEF ProbeInv, Case
  <2>2. CASE recorded' = Append(recorded, Case)
    <3>1. /\ recorded' \in Seq(Payloads) /\ Begins(recorded', values)
          /\ Len(recorded') = observed + 1
      BY <2>1, <2>2, AppendBegins DEF Types
    <3> QED
      BY <1>6, <3>1
  <2>3. CASE recorded' = recorded /\ recorded' # Append(recorded, Case)
    BY <1>6, <2>1, <2>3 DEF Types
  <2> QED
    BY <1>6, <2>2, <2>3
<1>7. CASE Observe
  <2>1. Len(values) = Len(probe.payloads) /\ observed + 1 <= Len(values) /\ observed + 1 \in Nat
    BY <1>7 DEF Observe, Types, ProbeInv
  <2>2. /\ pc = "execute" /\ pc' = "expand" /\ observed' = observed + 1
        /\ UNCHANGED <<probe, values>>
        /\ sent' = Append(sent, Case) /\ recorded' = Append(recorded, Case)
    BY <1>7 DEF Observe
  <2> QED
    BY <1>5, <1>6, <2>1, <2>2 DEF Types, ProbeInv
<1>8. CASE Fail
  <2>1. Len(values) = Len(probe.payloads)
    BY <1>8 DEF Fail, ProbeInv
  <2>2. /\ pc = "execute" /\ pc' = "raised"
        /\ UNCHANGED <<probe, values, observed>>
        /\ sent' = sent \/ sent' = Append(sent, Case)
        /\ recorded' = recorded \/ recorded' = Append(recorded, Case)
    BY <1>8 DEF Fail
  <2> QED
    BY <1>5, <1>6, <2>1, <2>2 DEF Types, ProbeInv
<1>9. CASE Return
  BY <1>9 DEF Return, Types, ProbeInv, Begins, Case
<1>10. CASE UNCHANGED vars
  BY <1>10 DEF vars, Types, ProbeInv, Begins, Case
<1> QED
  BY <1>1, <1>2, <1>3, <1>4, <1>7, <1>8, <1>9, <1>10 DEF Next, Finished

\* So both hold in every reachable state.
LEMMA ProbeInvariant == Spec => [](Types /\ ProbeInv)
<1>1. Init => Types /\ ProbeInv
  <2> SUFFICES ASSUME Init PROVE Types /\ ProbeInv
    OBVIOUS
  <2>1. probe.payloads \in Seq(Payloads)
    BY PayloadsAssumption DEF Init
  <2> QED
    BY <2>1, Limits DEF Init, Types, ProbeInv, Begins, Sending, PC
<1> QED
  BY <1>1, ProbeStep, PTL DEF Spec

-----------------------------------------------------------------------------
\* What was sent is a prefix of the payloads, each within the limit, and only if
\* all of them passed the checks of the first loop.
THEOREM SentIsCheckedPrefixHolds == Spec => []SentIsCheckedPrefix
<1>1. Types /\ ProbeInv => SentIsCheckedPrefix
  <2> SUFFICES ASSUME Types, ProbeInv PROVE SentIsCheckedPrefix
    OBVIOUS
  <2>1. probe.payloads \in Seq(Payloads)
    BY PayloadsAssumption DEF Types
  <2>2. Begins(sent, probe.payloads)
    <3>1. Begins(sent, values) /\ Begins(values, probe.payloads)
      BY DEF ProbeInv
    <3>2. Len(sent) \in Nat /\ Len(values) \in Nat /\ Len(probe.payloads) \in Nat
      BY <2>1 DEF Types
    <3> QED
      BY <3>1, <3>2 DEF Begins
  <2>3. IsPrefix(sent, probe.payloads)
    BY <2>1, <2>2, BeginsIsPrefix DEF Types
  <2>4. sent # <<>> => /\ Len(probe.payloads) <= MaxCases
                       /\ \A i \in DOMAIN probe.payloads : probe.payloads[i].text
    BY <2>1 DEF Types, ProbeInv, Begins
  <2>5. \A i \in DOMAIN sent : sent[i].size <= MaxPayload
    BY DEF Types, ProbeInv
  <2> QED
    BY <2>3, <2>4, <2>5 DEF SentIsCheckedPrefix
<1> QED
  BY <1>1, ProbeInvariant, PTL

\* A result is returned only when every payload was sent and recorded, in order.
THEOREM ResultIsCompleteHolds == Spec => []ResultIsComplete
<1>1. Types /\ ProbeInv => ResultIsComplete
  <2> SUFFICES ASSUME Types, ProbeInv, pc = "returned"
               PROVE  sent = probe.payloads /\ recorded = probe.payloads
    BY DEF ResultIsComplete
  <2>1. probe.payloads \in Seq(Payloads)
    BY PayloadsAssumption DEF Types
  <2>2. /\ Begins(sent, probe.payloads) /\ Len(sent) = Len(probe.payloads)
        /\ Begins(recorded, probe.payloads) /\ Len(recorded) = Len(probe.payloads)
    BY <2>1 DEF Types, ProbeInv, Begins, Sending
  <2> QED
    BY <2>1, <2>2, BeginsIsPrefix DEF Types
<1> QED
  BY <1>1, ProbeInvariant, PTL
=============================================================================
