------------------------------ MODULE BrowserProofs ------------------------------
(***************************************************************************)
(* The browser keeps the egress boundary and its observation accounts for  *)
(* every request, for any page, engagement and limits.                     *)
(***************************************************************************)
EXTENDS Browser, FiniteSetTheorems, TLAPS

Types ==
  /\ page \in {"start", "open", "closing", "closed", "over"}
  /\ at \in [Routes -> At]
  /\ asked \in [Routes -> PageRequests \cup {NoRequest}]
  /\ count \in Nat
  /\ paced \in BOOLEAN /\ kill \in BOOLEAN
  /\ log \subseteq Routes
  /\ listed \subseteq Routes /\ answered \subseteq Routes /\ shown \subseteq Routes
  /\ blocked \subseteq Routes
  /\ evidence \in [counted : SUBSET Routes, listed : SUBSET Routes, blocked : SUBSET Routes,
                   written : BOOLEAN]
  /\ faults \subseteq Routes

\* The lists of one observation are finite sets of requests.
LEMMA RoutesFinite ==
  ASSUME NEW S \in SUBSET Routes
  PROVE  IsFiniteSet(S) /\ Cardinality(S) \in Nat
BY BrowserAssumption, FS_Subset, FS_CardinalityType

\* Every step of the page, its handlers and its owner keeps the types.
LEMMA TypesStep == Types /\ [Next]_vars => Types'
<1> SUFFICES ASSUME Types, [Next]_vars PROVE Types'
  OBVIOUS
<1> USE DEF Types, lists, Goto, At
<1>1. CASE Refuse \/ Launch \/ Leave \/ Close
  BY <1>1 DEF Refuse, Launch, Leave, Close
<1>2. CASE Record
  <2>1. Snapshot \in [counted : SUBSET Routes, listed : SUBSET Routes, blocked : SUBSET Routes,
                      written : BOOLEAN]
    BY DEF Snapshot, Begun
  <2> QED
    BY <1>2, <2>1 DEF Record, End
<1>3. ASSUME NEW r \in Routes, Intercept(r) PROVE Types'
  BY <1>3 DEF Intercept
<1>4. ASSUME NEW r \in Routes, Authorize(r) PROVE Types'
  <2>1. UNCHANGED <<page, asked, kill, log, lists, evidence, faults>>
    BY <1>4 DEF Authorize
  <2>4. count' \in Nat
    BY <1>4 DEF Authorize
  <2>5. paced' \in BOOLEAN
    BY <1>4, Zenon DEF Authorize
  <2>2. PICK l \in {"granted", "asleep", "denied"} : at' = [at EXCEPT ![r] = l]
    BY <1>4 DEF Authorize
  <2>3. at' \in [Routes -> At]
    BY <2>2
  <2> QED
    BY <2>1, <2>3, <2>4, <2>5
<1>5. ASSUME NEW r \in Routes, RecordReady(r) PROVE Types'
  BY <1>5 DEF RecordReady
<1>6. ASSUME NEW r \in Routes, RecordDenied(r) PROVE Types'
  BY <1>6 DEF RecordDenied
<1>7. ASSUME NEW r \in Routes, ReceiptFault(r) PROVE Types'
  BY <1>7 DEF ReceiptFault
<1>8. ASSUME NEW r \in Routes, Continue(r) PROVE Types'
  BY <1>8 DEF Continue
<1>9. ASSUME NEW r \in Routes, GiveUp(r) PROVE Types'
  BY <1>9 DEF GiveUp
<1>10. ASSUME NEW r \in Routes, Respond(r) PROVE Types'
  BY <1>10 DEF Respond, Answered
<1>14. ASSUME NEW r \in Routes, NEW q \in Routes, Follow(r, q) PROVE Types'
  BY <1>14 DEF Follow, Answered
<1>11. CASE Elapse \/ FlipKill
  BY <1>11 DEF Elapse, FlipKill
<1>12. CASE Crash
  BY <1>12 DEF Crash, End
<1>13. CASE UNCHANGED vars
  BY <1>13 DEF vars
<1> QED
  BY <1>1, <1>2, <1>3, <1>4, <1>5, <1>6, <1>7, <1>8, <1>9, <1>10, <1>11, <1>12, <1>13, <1>14
     DEF Next, HandlerStep

\* Every reachable state is well typed.
THEOREM TypesInvariant == Spec => []Types
<1>1. Init => Types
  <2>1. NoRecord \in [counted : SUBSET Routes, listed : SUBSET Routes, blocked : SUBSET Routes,
                      written : BOOLEAN]
    BY DEF NoRecord
  <2>2. Init => at \in [Routes -> At] /\ asked \in [Routes -> PageRequests \cup {NoRequest}]
    BY DEF Init, At
  <2>3. Init => count \in Nat
    BY DEF Init
  <2>4. Init => paced \in BOOLEAN /\ kill \in BOOLEAN
    BY Zenon DEF Init
  <2> QED
    BY <2>1, <2>2, <2>3, <2>4 DEF Init, Types
<1> QED
  BY <1>1, TypesStep, PTL DEF Spec

-----------------------------------------------------------------------------
(* A handler past the gate.                                                *)

\* A request whose handler is past the gate is one the policy permits, past the
\* receipt it is in the log; nothing is asked before the page is opened and no
\* handler is left when the inspection is over.
GateInv ==
  /\ \A r \in Routes :
       /\ at[r] \in {"granted", "headers", "sent"} =>
            asked[r] \in PageRequests /\ BrowserPermitted(asked[r])
       /\ at[r] \in {"asked", "asleep", "due"} => asked[r] \in PageRequests
       /\ at[r] \in {"headers", "sent"} => r \in log
       /\ at[r] = "none" => asked[r] = NoRequest
  /\ page = "start" => \A r \in Routes : at[r] = "none"
  /\ page = "over" => \A r \in Routes : at[r] \notin Open
  /\ evidence.written => page = "over"

\* Every step keeps what is known of a handler past the gate and past the receipt.
LEMMA GateStep == Types /\ GateInv /\ [Next]_vars => GateInv'
<1> SUFFICES ASSUME Types, GateInv, [Next]_vars PROVE GateInv'
  OBVIOUS
<1> USE DEF Types, GateInv, lists, Goto, Open
<1>1. CASE Refuse \/ Launch \/ Leave \/ Close
  BY <1>1 DEF Refuse, Launch, Leave, Close
<1>2. CASE Record
  BY <1>2 DEF Record, End
<1>3. ASSUME NEW r \in Routes, Intercept(r) PROVE GateInv'
  <2>1. \A q \in Routes \ {r} : at'[q] = at[q] /\ asked'[q] = asked[q]
    BY <1>3 DEF Intercept
  <2>2. at'[r] = "asked" /\ asked'[r] \in PageRequests
    BY <1>3 DEF Intercept
  <2> QED
    BY <1>3, <2>1, <2>2 DEF Intercept
<1>4. ASSUME NEW r \in Routes, Authorize(r) PROVE GateInv'
  <2>1. /\ at[r] \in {"asked", "due"} /\ UNCHANGED <<page, asked, log, evidence>>
        /\ \/ BrowserPermitted(asked[r]) /\ at' = [at EXCEPT ![r] = "granted"]
           \/ at' = [at EXCEPT ![r] = "asleep"]
           \/ at' = [at EXCEPT ![r] = "denied"]
    BY <1>4 DEF Authorize
  <2>2. \A q \in Routes \ {r} : at'[q] = at[q]
    BY <2>1
  <2>3. \/ at'[r] = "granted" /\ BrowserPermitted(asked[r])
        \/ at'[r] \in {"asleep", "denied"}
    BY <2>1
  <2>4. page \notin {"start", "over"}
    BY <2>1
  <2>5. asked[r] \in PageRequests
    BY <2>1
  <2> QED
    BY <2>1, <2>2, <2>3, <2>4, <2>5
<1>5. ASSUME NEW r \in Routes, RecordReady(r) PROVE GateInv'
  BY <1>5 DEF RecordReady
<1>6. ASSUME NEW r \in Routes, RecordDenied(r) PROVE GateInv'
  BY <1>6 DEF RecordDenied
<1>7. ASSUME NEW r \in Routes, ReceiptFault(r) PROVE GateInv'
  BY <1>7 DEF ReceiptFault
<1>8. ASSUME NEW r \in Routes, Continue(r) PROVE GateInv'
  BY <1>8 DEF Continue
<1>9. ASSUME NEW r \in Routes, GiveUp(r) PROVE GateInv'
  BY <1>9 DEF GiveUp
<1>10. ASSUME NEW r \in Routes, Respond(r) PROVE GateInv'
  BY <1>10 DEF Respond, Answered
<1>14. ASSUME NEW r \in Routes, NEW q \in Routes, Follow(r, q) PROVE GateInv'
  <2>1. /\ at[q] = "none" /\ at' = [at EXCEPT ![q] = "followed"]
        /\ page \in {"open", "closing"} /\ UNCHANGED <<page, log, evidence>>
        /\ \E p \in PageRequests : asked' = [asked EXCEPT ![q] = p]
    BY <1>14 DEF Follow, Answered
  <2>2. \A d \in Routes \ {q} : at'[d] = at[d] /\ asked'[d] = asked[d]
    BY <2>1
  <2>3. at'[q] = "followed"
    BY <2>1
  <2> QED
    BY <2>1, <2>2, <2>3
<1>11. CASE Elapse \/ FlipKill
  BY <1>11 DEF Elapse, FlipKill
<1>12. CASE Crash
  BY <1>12 DEF Crash, End
<1>13. CASE UNCHANGED vars
  BY <1>13 DEF vars
<1> QED
  BY <1>1, <1>2, <1>3, <1>4, <1>5, <1>6, <1>7, <1>8, <1>9, <1>10, <1>11, <1>12, <1>13, <1>14
     DEF Next, HandlerStep

\* So it holds in every reachable state.
LEMMA GateInvariant == Spec => [](Types /\ GateInv)
<1>1. Init => GateInv
  BY DEF Init, GateInv, NoRecord, Open
<1> QED
  BY <1>1, GateStep, TypesInvariant, PTL DEF Spec

-----------------------------------------------------------------------------
(* The observation accounts for every request.                             *)

\* A list that grows stays as long as it was.
LEMMA ListGrows ==
  ASSUME NEW S \in SUBSET Routes, NEW T \in SUBSET Routes, S \subseteq T
  PROVE  Cardinality(S) <= Cardinality(T) /\ Cardinality(S) \in Nat /\ Cardinality(T) \in Nat
BY RoutesFinite, FS_Subset

\* While requests come and go, each one that left is listed and each one that
\* was aborted is listed as blocked, unless the list was full; once written, the
\* observation says so for good.
ListInv ==
  /\ \A r \in Routes :
       /\ at[r] = "sent" => r \in listed \/ Full
       /\ at[r] = "aborted" => r \in blocked \/ Cardinality(blocked) >= MaxRecords
  /\ evidence.written => evidence = Snapshot

\* A step that takes no list back and ends no other request.
LEMMA ListKeeps ==
  ASSUME Types, Types', ListInv, NEW q \in Routes,
         listed \subseteq listed', shown \subseteq shown', blocked \subseteq blocked',
         at'[q] \in {"sent", "aborted"} => at'[q] = at[q]
  PROVE  /\ at'[q] = "sent" => q \in listed' \/ Full'
         /\ at'[q] = "aborted" => q \in blocked' \/ Cardinality(blocked') >= MaxRecords
<1>1. /\ Cardinality(listed) <= Cardinality(listed')
      /\ Cardinality(shown) <= Cardinality(shown')
      /\ Cardinality(blocked) <= Cardinality(blocked')
      /\ Cardinality(listed) \in Nat /\ Cardinality(listed') \in Nat
      /\ Cardinality(shown) \in Nat /\ Cardinality(shown') \in Nat
      /\ Cardinality(blocked) \in Nat /\ Cardinality(blocked') \in Nat
  BY ListGrows DEF Types
<1>2. MaxRecords \in Nat
  BY BrowserAssumption
<1>3. Full => Full'
  BY <1>1, <1>2 DEF Full
<1>4. Cardinality(blocked) >= MaxRecords => Cardinality(blocked') >= MaxRecords
  BY <1>1, <1>2
<1> QED
  BY <1>3, <1>4 DEF ListInv

\* Every step that ends a request lists it, as far as there is room.
LEMMA ListStep ==
  Types /\ Types' /\ GateInv /\ ListInv /\ [Next]_vars => ListInv'
<1> SUFFICES ASSUME Types, Types', GateInv, ListInv, [Next]_vars PROVE ListInv'
  OBVIOUS
<1> USE DEF lists, Goto
<1> DEFINE Listed(q) == /\ at[q] = "sent" => q \in listed \/ Full
                        /\ at[q] = "aborted" => q \in blocked \/ Cardinality(blocked) >= MaxRecords
<1>1. CASE Record
  <2>1. ASSUME NEW q \in Routes PROVE Listed(q)'
    <3>1. UNCHANGED <<listed, shown, blocked>> /\ (at'[q] \in {"sent", "aborted"} => at'[q] = at[q])
      BY <1>1 DEF Record, End, Types
    <3> QED
      BY <3>1, ListKeeps
  <2>2. evidence.written = FALSE
    BY <1>1 DEF Record, GateInv, Types
  <2>3. Begun' = Begun
    BY <1>1 DEF Record, End, Begun, Open, Types
  <2>4. evidence' = Snapshot \/ evidence' = evidence
    BY <1>1 DEF Record
  <2>5. Snapshot' = Snapshot
    BY <1>1, <2>3 DEF Record, Snapshot
  <2> QED
    BY <2>1, <2>2, <2>4, <2>5 DEF ListInv
<1>2. ASSUME ~Record, Next PROVE evidence' = evidence /\ (evidence.written => Snapshot' = Snapshot)
  <2>1. evidence' = evidence
    BY <1>2 DEF Next, HandlerStep, Refuse, Launch, Leave, Close, Intercept, Authorize, RecordReady,
                RecordDenied, ReceiptFault, Continue, GiveUp, Respond, Follow, Elapse, FlipKill,
                Crash
  <2>2. ASSUME evidence.written PROVE Snapshot' = Snapshot
    <3>1. page = "over" /\ \A r \in Routes : at[r] \notin Open
      BY <2>2 DEF GateInv
    <3>2. FlipKill
      BY <1>2, <3>1
         DEF Next, HandlerStep, Refuse, Launch, Leave, Close, Intercept, Authorize, RecordReady,
             RecordDenied, ReceiptFault, Continue, GiveUp, Respond, Follow, Answered, Elapse,
             Crash, Open
    <3> QED
      BY <3>2 DEF FlipKill, Snapshot, Begun
  <2> QED
    BY <2>1, <2>2
<1>3. ASSUME NEW r \in Routes, Continue(r) PROVE \A q \in Routes : Listed(q)'
  <2>1. /\ listed' = (IF Full THEN listed ELSE listed \cup {r})
        /\ at' = [at EXCEPT ![r] = "sent"]
        /\ UNCHANGED <<shown, blocked>>
    BY <1>3 DEF Continue
  <2>2. Full => Full'
    BY <2>1 DEF Full
  <2>3. Listed(r)'
    BY <2>1, <2>2 DEF Types
  <2>4. ASSUME NEW q \in Routes \ {r} PROVE Listed(q)'
    <3>1. at'[q] = at[q]
      BY <2>1 DEF Types
    <3> QED
      BY <2>1, <3>1, ListKeeps
  <2> QED
    BY <2>3, <2>4
<1>4. ASSUME NEW r \in Routes, GiveUp(r) \/ RecordDenied(r) PROVE \A q \in Routes : Listed(q)'
  <2>1. /\ at' = [at EXCEPT ![r] = "aborted"]
        /\ listed \subseteq listed' /\ shown' = shown
        /\ blocked' \in {blocked, blocked \cup {r}}
    BY <1>4 DEF GiveUp, RecordDenied
  <2>2. r \in blocked' \/ Cardinality(blocked') >= MaxRecords
    <3>1. CASE r \in blocked'
      BY <3>1
    <3>2. CASE r \notin blocked'
      <4>1. blocked' = blocked /\ ~(Cardinality(blocked) < MaxRecords)
        BY <1>4, <3>2 DEF GiveUp, RecordDenied
      <4> QED
        BY <4>1, RoutesFinite, BrowserAssumption DEF Types
    <3> QED
      BY <3>1, <3>2
  <2>3. Listed(r)'
    BY <2>1, <2>2 DEF Types
  <2>4. ASSUME NEW q \in Routes \ {r} PROVE Listed(q)'
    <3>1. at'[q] = at[q]
      BY <2>1 DEF Types
    <3> QED
      BY <2>1, <3>1, ListKeeps
  <2> QED
    BY <2>3, <2>4
<1>5. ASSUME NEW q \in Routes,
             listed' = listed, shown \subseteq shown', blocked \subseteq blocked',
             at'[q] \in {"sent", "aborted"} => at'[q] = at[q]
      PROVE  Listed(q)'
  BY <1>5, ListKeeps
<1>6. ASSUME Next, ~Record, \A r \in Routes : ~Continue(r) /\ ~GiveUp(r) /\ ~RecordDenied(r)
      PROVE  \A q \in Routes : Listed(q)'
  <2>1. listed' = listed /\ shown \subseteq shown' /\ blocked \subseteq blocked'
    BY <1>6 DEF Next, HandlerStep, Refuse, Launch, Leave, Close, Intercept, Authorize, RecordReady,
                ReceiptFault, Respond, Follow, Answered, Elapse, FlipKill, Crash
  <2>2. ASSUME NEW q \in Routes PROVE at'[q] \in {"sent", "aborted"} => at'[q] = at[q]
    <3>1. ASSUME NEW r \in Routes,
                 Intercept(r) \/ Authorize(r) \/ RecordReady(r) \/ ReceiptFault(r) \/ Respond(r)
          PROVE  at'[q] \in {"sent", "aborted"} => at'[q] = at[q]
      BY <3>1 DEF Intercept, Authorize, RecordReady, ReceiptFault, Respond, Types
    <3>4. ASSUME NEW r \in Routes, NEW p \in Routes, Follow(r, p)
          PROVE  at'[q] \in {"sent", "aborted"} => at'[q] = at[q]
      BY <3>4 DEF Follow, Types
    <3>2. CASE Refuse \/ Launch \/ Leave \/ Close \/ FlipKill
      BY <3>2 DEF Refuse, Launch, Leave, Close, FlipKill
    <3>3. CASE Elapse \/ Crash
      BY <3>3 DEF Elapse, Crash, End, Types
    <3> QED
      BY <1>6, <3>1, <3>2, <3>3, <3>4 DEF Next, HandlerStep
  <2> QED
    BY <1>5, <2>1, <2>2
<1>7. CASE UNCHANGED vars
  BY <1>7 DEF vars, ListInv, Full, Snapshot, Begun
<1>8. CASE Next /\ ~Record
  <2>1. \A q \in Routes : Listed(q)'
    BY <1>3, <1>4, <1>6, <1>8
  <2> QED
    BY <1>2, <1>8, <2>1 DEF ListInv
<1> QED
  BY <1>1, <1>7, <1>8

\* No request of the page leaves, or is aborted, without a trace in the
\* observation, however the handlers were asleep when the page was closed.
THEOREM RecordAccountsHolds == Spec => []RecordAccounts
<1>1. Init => ListInv
  BY DEF Init, ListInv, NoRecord
<1>2. Types /\ ListInv => RecordAccounts
  <2> SUFFICES ASSUME Types, ListInv, evidence.written, NEW r \in Routes
               PROVE  /\ at[r] \in {"sent", "aborted"} => r \in evidence.counted
                      /\ at[r] = "sent" => r \in evidence.listed \/ Full
                      /\ at[r] = "aborted" =>
                           r \in evidence.blocked \/ Cardinality(evidence.blocked) >= MaxRecords
    BY DEF RecordAccounts
  <2>1. evidence.counted = Begun /\ evidence.listed = listed /\ evidence.blocked = blocked
    BY DEF ListInv, Snapshot
  <2> QED
    BY <2>1 DEF ListInv, Begun
<1> QED
  BY <1>1, <1>2, ListStep, TypesInvariant, GateInvariant, PTL DEF Spec

-----------------------------------------------------------------------------
(* The browser implements EgressBoundary.                                  *)

\* What a move of one handler does to the abstract phases while the inspection
\* runs.
LEMMA PhaseMove ==
  ASSUME NEW r \in Routes, Types, page # "over", page' = page
  PROVE  /\ Goto(r, "asked") => Boundary!Move(r, "asked")
         /\ Goto(r, "granted") => Boundary!Move(r, "granted")
         /\ Goto(r, "headers") => Boundary!Move(r, "ready")
         /\ Goto(r, "sent") => Boundary!Move(r, "onwire")
         /\ \A l \in {"aborted", "unanswered"} : Goto(r, l) => Boundary!Move(r, "closed")
BY DEF Types, Goto, Phase, Boundary!Move

\* The abstract module's own instance of FiniteSets counts like this one's.
LEMMA SameCardinality == \A S : Boundary!Cardinality(S) = Cardinality(S)
BY DEF Boundary!Cardinality, Cardinality

\* There is always room on the wire for one more request of the page.
LEMMA WireBound ==
  ASSUME NEW r \in Routes, Types, at[r] # "sent"
  PROVE  Boundary!Cardinality(Boundary!OnWire) < Cardinality(Routes)
<1>1. Boundary!OnWire \subseteq Routes /\ r \notin Boundary!OnWire
  BY DEF Boundary!OnWire, Phase
<1>2. Cardinality(Boundary!OnWire) < Cardinality(Routes)
  BY <1>1, BrowserAssumption, RoutesFinite, FS_Subset
<1> QED
  BY <1>2, SameCardinality

\* What the handler permits is what the gateway allows, or is judged as a POST.
LEMMA PermittedIsAllowed ==
  ASSUME NEW p, BrowserPermitted(p)
  PROVE  PolicyAllows(p) \/ JudgedAsPost(p)
<1>1. CASE p.method \in {"GET", "HEAD"}
  BY <1>1 DEF BrowserPermitted, BrowserRisk, PolicyAllows, Permitted, InScope, ActiveAllowed,
              IsApproved, RiskForMethod, ReadMethods
<1>2. CASE p.method \in {"DELETE", "OPTIONS"}
  BY <1>2 DEF BrowserPermitted, BrowserRisk, JudgedAsPost
<1>3. CASE p.method \notin {"GET", "HEAD", "DELETE", "OPTIONS"}
  <2>1. BrowserRisk(p.method) = "state_change" /\ RiskForMethod(p.method) = "state_change"
    BY <1>3 DEF BrowserRisk, RiskForMethod, ReadMethods
  <2> QED
    BY <2>1 DEF BrowserPermitted, PolicyAllows, Permitted, InScope, ActiveAllowed, IsApproved
<1> QED
  BY <1>1, <1>2, <1>3

\* A step that neither asks nor follows leaves what was asked at the boundary.
LEMMA AskedKept ==
  ASSUME asked' = asked, \A q \in Routes : at'[q] = "followed" <=> at[q] = "followed"
  PROVE  AtBoundary' = AtBoundary
BY DEF AtBoundary

\* A move of one handler that has begun is none to or from a redirect.
LEMMA MoveKeepsAsked ==
  ASSUME NEW r \in Routes, NEW l \in At \ {"followed"}, Types, Goto(r, l), at[r] # "followed",
         asked' = asked
  PROVE  AtBoundary' = AtBoundary
<1>1. \A q \in Routes : at'[q] = "followed" <=> at[q] = "followed"
  BY DEF Goto, Types
<1> QED
  BY <1>1, AskedKept

\* Every step of a handler maps to a step of its call at the boundary or to none.
LEMMA HandlerStepImplements ==
  ASSUME NEW r \in Routes, Types, GateInv, Intercept(r) \/ HandlerStep(r) \/ Respond(r)
  PROVE  [Boundary!Next]_(Boundary!vars)
<1> USE DEF lists
<1> DEFINE phase == [q \in Routes |-> Phase(at[q])]
<1>0. page # "over" /\ page' = page
  BY DEF GateInv, Open, HandlerStep, Intercept, Authorize, RecordReady, RecordDenied,
         ReceiptFault, Continue, GiveUp, Respond, Answered
<1>1. CASE Intercept(r)
  <2>1. PICK p \in PageRequests : asked' = [asked EXCEPT ![r] = p]
    BY <1>1 DEF Intercept
  <2>2. at[r] = "none" /\ at' = [at EXCEPT ![r] = "asked"]
    BY <1>1 DEF Intercept, Goto
  <2>3. AtBoundary' = [AtBoundary EXCEPT ![r] = p]
    BY <2>1, <2>2 DEF AtBoundary, Types
  <2>4. Boundary!Move(r, "asked")
    BY <1>0, <1>1, PhaseMove DEF Intercept
  <2>5. Boundary!Ask(r)
    BY <1>0, <1>1, <2>2, <2>3, <2>4 DEF Intercept, Boundary!Ask, Phase
  <2> QED
    BY <2>5 DEF Boundary!Next
<1>2. CASE Authorize(r)
  <2>1. phase[r] = "asked" /\ asked' = asked /\ at[r] # "followed"
    BY <1>0, <1>2 DEF Authorize, Phase
  <2>2. CASE at' = [at EXCEPT ![r] = "granted"]
    <3>1. count < MaxRequests /\ count' = count + 1 /\ UNCHANGED log
      BY <1>2, <2>2 DEF Authorize, Goto, Types
    <3>2. Boundary!Move(r, "granted")
      BY <1>0, <2>2, PhaseMove DEF Goto
    <3>3. AtBoundary' = AtBoundary
      BY <2>1, <2>2, MoveKeepsAsked DEF Goto, At
    <3>4. Boundary!Grant(r)
      BY <2>1, <3>1, <3>2, <3>3 DEF Boundary!Grant
    <3> QED
      BY <3>4 DEF Boundary!Next
  <2>3. CASE at' # [at EXCEPT ![r] = "granted"]
    <3>1. UNCHANGED <<count, log>>
      BY <1>2, <2>3 DEF Authorize, Goto
    <3>2. PICK l \in {"asleep", "denied"} : at' = [at EXCEPT ![r] = l]
      BY <1>2, <2>3 DEF Authorize, Goto
    <3>3. phase' = phase
      BY <1>0, <2>1, <3>2 DEF Phase, Types
    <3>4. AtBoundary' = AtBoundary
      BY <2>1, <3>2, MoveKeepsAsked DEF Goto, At
    <3> QED
      BY <3>1, <3>3, <3>4 DEF Boundary!vars
  <2> QED
    BY <2>2, <2>3
<1>3. CASE RecordReady(r)
  <2>1. AtBoundary' = AtBoundary
    BY <1>3, MoveKeepsAsked DEF RecordReady, At
  <2>2. Boundary!Log(r)
    BY <1>0, <1>3, <2>1, PhaseMove DEF RecordReady, Boundary!Log, Phase
  <2> QED
    BY <2>2 DEF Boundary!Next
<1>4. CASE RecordDenied(r) \/ ReceiptFault(r) \/ GiveUp(r)
  <2>1. PICK l \in {"aborted", "unanswered"} : Goto(r, l)
    BY <1>4 DEF RecordDenied, ReceiptFault, GiveUp
  <2>2. Boundary!Move(r, "closed")
    BY <1>0, <2>1, PhaseMove
  <2>3. at[r] \in {"granted", "denied", "headers"} /\ UNCHANGED <<asked, count, log>>
    BY <1>4 DEF RecordDenied, ReceiptFault, GiveUp
  <2>4. AtBoundary' = AtBoundary
    BY <2>1, <2>3, MoveKeepsAsked DEF At
  <2>5. Boundary!Close(r)
    BY <1>0, <2>2, <2>3, <2>4 DEF Boundary!Close, Phase
  <2> QED
    BY <2>5 DEF Boundary!Next
<1>5. CASE Continue(r)
  <2>1. /\ AtBoundary[r] \in {p \in PageRequests : PolicyAllows(p) \/ JudgedAsPost(p)}
        /\ r \in log
    BY <1>5, PermittedIsAllowed DEF Continue, GateInv, AtBoundary
  <2>2. Boundary!Cardinality(Boundary!OnWire) < Cardinality(Routes)
    BY <1>5, WireBound DEF Continue
  <2>3. Boundary!Move(r, "onwire")
    BY <1>0, <1>5, PhaseMove DEF Continue
  <2>4. AtBoundary' = AtBoundary
    BY <1>5, MoveKeepsAsked DEF Continue, At
  <2>5. Boundary!Send(r)
    BY <1>0, <1>5, <2>1, <2>2, <2>3, <2>4 DEF Continue, Boundary!Send, Phase
  <2> QED
    BY <2>5 DEF Boundary!Next
<1>6. CASE Respond(r)
  BY <1>6, AskedKept DEF Respond, Answered, Phase, Boundary!vars
<1> QED
  BY <1>1, <1>2, <1>3, <1>4, <1>5, <1>6 DEF HandlerStep

\* A redirect that the browser follows by itself is no step of the boundary.
LEMMA FollowStutters ==
  ASSUME NEW r \in Routes, NEW q \in Routes, Types, GateInv, Follow(r, q)
  PROVE  UNCHANGED Boundary!vars
<1> DEFINE phase == [d \in Routes |-> Phase(at[d])]
<1>1. at[q] = "none" /\ at' = [at EXCEPT ![q] = "followed"] /\ UNCHANGED <<page, count, log>>
  BY DEF Follow, Goto
<1>2. asked[q] = NoRequest /\ \A d \in Routes \ {q} : asked'[d] = asked[d]
  BY <1>1 DEF GateInv, Follow, Types
<1>3. phase' = phase
  BY <1>1 DEF Phase, Types
<1>4. AtBoundary' = AtBoundary
  BY <1>1, <1>2 DEF AtBoundary, Types
<1> QED
  BY <1>1, <1>3, <1>4 DEF Boundary!vars

\* Whatever the page does, and wherever the inspection or the command ends, the
\* requests that come to the route handler keep to the abstract boundary.
THEOREM PageKeepsBoundaryHolds == Spec => PageKeepsBoundary
<1>1. Init => Boundary!Init
  BY DEF Init, Boundary!Init, Phase, AtBoundary
<1>2. Types /\ GateInv /\ [Next]_vars => [Boundary!Next]_(Boundary!vars)
  <2> SUFFICES ASSUME Types, GateInv, [Next]_vars PROVE [Boundary!Next]_(Boundary!vars)
    OBVIOUS
  <2> USE DEF lists
  <2> DEFINE phase == [q \in Routes |-> Phase(at[q])]
  <2>1. CASE \E r \in Routes : Intercept(r) \/ HandlerStep(r) \/ Respond(r)
    BY <2>1, HandlerStepImplements
  <2>2. CASE Refuse \/ Launch \/ Leave \/ Close
    <3>1. phase' = phase
      BY <2>2 DEF Refuse, Launch, Leave, Close, GateInv, Phase
    <3>2. AtBoundary' = AtBoundary
      BY <2>2 DEF Refuse, Launch, Leave, Close, AtBoundary
    <3> QED
      BY <2>2, <3>1, <3>2 DEF Refuse, Launch, Leave, Close, Boundary!vars
  <2>3. CASE Record \/ Crash
    <3>1. phase' = [q \in Routes |-> IF phase[q] = "new" THEN "new" ELSE "closed"]
      BY <2>3 DEF Record, Crash, End, Open, Phase, Types, At
    <3>2. AtBoundary' = AtBoundary
      BY <2>3, AskedKept DEF Record, Crash, End, Open, Types
    <3>3. Boundary!Restart
      BY <2>3, <3>1, <3>2 DEF Record, Crash, End, Boundary!Restart
    <3> QED
      BY <3>3 DEF Boundary!Next
  <2>4. CASE Elapse
    <3>1. phase' = phase
      BY <2>4 DEF Elapse, Phase, Types, At
    <3>2. AtBoundary' = AtBoundary
      BY <2>4, AskedKept DEF Elapse, Types
    <3> QED
      BY <2>4, <3>1, <3>2 DEF Elapse, Boundary!vars
  <2>5. CASE FlipKill
    BY <2>5 DEF FlipKill, Phase, AtBoundary, Boundary!vars
  <2>6. CASE UNCHANGED vars
    BY <2>6 DEF vars, Phase, AtBoundary, Boundary!vars
  <2>7. CASE \E r, q \in Routes : Follow(r, q)
    BY <2>7, FollowStutters
  <2> QED
    BY <2>1, <2>2, <2>3, <2>4, <2>5, <2>6, <2>7 DEF Next
<1> QED
  BY <1>1, <1>2, GateInvariant, PTL DEF Spec, PageKeepsBoundary, Boundary!Spec
=============================================================================
