---------------------------- MODULE Authorization ----------------------------
(***************************************************************************)
(* The verdict of AuthorizationValidator.compare on the four responses of  *)
(* one comparison: owner, subject, and a reproduction of each.             *)
(*                                                                         *)
(* A response is a record                                                  *)
(*   status    the HTTP status                                             *)
(*   bytes     stands for the body as sent; equal bytes, equal hash        *)
(*   isObject  the body decodes to a JSON object                           *)
(*   object    its fields, a function from field names to values [json,    *)
(*             text]: the JSON type and what str() makes of the value;     *)
(*             empty when the body is no object                            *)
(* The code compares field names in lower case; the sets below hold every  *)
(* spelling.                                                               *)
(***************************************************************************)
EXTENDS Integers

CONSTANTS IdFields,       \* _ID_FIELDS
          VolatileFields, \* _VOLATILE_FIELDS
          ImpactFields    \* _IMPACT_FIELDS

ASSUME FieldsAssumption == IdFields \cap VolatileFields = {}

Owner == 1
Subject == 2
OwnerAgain == 3
SubjectAgain == 4

\* What _signature hashes of a response: no object, or the fields that last.
NormalizedHash(r) ==
  <<r.isObject, [f \in DOMAIN r.object \ VolatileFields |-> r.object[f]]>>

\* The identifiers it reads off the response, as text: the number 7 and the
\* string "7" are the same one.  Lists, objects and null identify nothing.
ObjectIds(r) ==
  {<<f, r.object[f].text>> : f \in {g \in DOMAIN r.object \cap IdFields :
                                       r.object[g].json \in {"string", "number", "boolean"}}}

Success(r) == 200 <= r.status /\ r.status < 300

\* Mutant: a reproduction with the same status counts as the same answer.
StableStatusOnly(first, again) == first.status = again.status

\* The reproduction answered as the first request did.
Stable(first, again) ==
  /\ first.status = again.status
  /\ first.bytes = again.bytes \/ NormalizedHash(first) = NormalizedHash(again)

\* The operator's impact fields, or the built-in ones, that the subject saw.
ObservedImpact(r, requested) ==
  DOMAIN r.object \cap (IF requested = {} THEN ImpactFields ELSE requested)

Verdict(rs, requested) ==
  IF ~Success(rs[Owner]) \/ ~Success(rs[Subject]) THEN "rejected"
  ELSE IF /\ ObjectIds(rs[Owner]) \cap ObjectIds(rs[Subject]) # {}
          /\ Stable(rs[Subject], rs[SubjectAgain])
          /\ Stable(rs[Owner], rs[OwnerAgain])
          /\ ObservedImpact(rs[Subject], requested) # {}
       THEN "verified"
       ELSE "candidate"

-----------------------------------------------------------------------------
\* What the README asks of a verified comparison, read off the responses:
\* every one of the four requests succeeded, one identifier of one resource is,
\* however it is written, in all of them, and both answers to the subject show an impact field, unless
\* the operator asked for a field the reproduction check ignores as volatile.
Reproduced(rs, requested) ==
  /\ \A i \in 1..4 : Success(rs[i])
  /\ \E f \in IdFields :
       \A i \in 1..4 : /\ f \in DOMAIN rs[i].object
                       /\ rs[i].object[f].text = rs[Owner].object[f].text
  /\ \E f \in ObservedImpact(rs[Subject], requested) :
       f \in DOMAIN rs[SubjectAgain].object \/ f \in VolatileFields

\* Equal bodies decode alike, and only an object has fields.
WellFormedResponses(responses) ==
  \A r, s \in responses :
    /\ ~r.isObject => DOMAIN r.object = {}
    /\ r.bytes = s.bytes => r.isObject = s.isObject /\ r.object = s.object
=============================================================================
