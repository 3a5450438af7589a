-------------------------- MODULE ApplicationMapProofs --------------------------
(***************************************************************************)
(* What the map's memory and file keep while threads and processes race,   *)
(* for any observations, processes, endpoints and fields.                  *)
(***************************************************************************)
EXTENDS ApplicationMap, TLAPS

-----------------------------------------------------------------------------
(* Maps.                                                                   *)

Endpoints == {EndpointOf[o] : o \in Observations}
Values == UNION {Adds[o][f] : o \in Observations, f \in Fields}
Entries == [Fields -> SUBSET Values]
Maps == UNION {[D -> Entries] : D \in SUBSET Endpoints}

\* A map is a function from some endpoints to entries.
LEMMA MapShape ==
  ASSUME NEW map
  PROVE  map \in Maps <=> DOMAIN map \in SUBSET Endpoints /\ map \in [DOMAIN map -> Entries]
BY DEF Maps

\* An endpoint seen for the first time and an empty file are well formed.
LEMMA EmptyShape == EmptyEndpoint \in Entries /\ NoEndpoints \in Maps /\ DOMAIN NoEndpoints = {}
<1>1. EmptyEndpoint \in Entries
  BY DEF EmptyEndpoint, Entries
<1>2. DOMAIN NoEndpoints = {} /\ NoEndpoints \in [DOMAIN NoEndpoints -> Entries]
  BY DEF NoEndpoints
<1> QED
  BY <1>1, <1>2, MapShape

\* Setting one endpoint of a map leaves the others as they were.
LEMMA WithShape ==
  ASSUME NEW map \in Maps, NEW e \in Endpoints, NEW x \in Entries
  PROVE  /\ With(map, e, x) \in Maps
         /\ DOMAIN With(map, e, x) = DOMAIN map \cup {e}
         /\ With(map, e, x)[e] = x
         /\ \A d \in DOMAIN map : d # e => With(map, e, x)[d] = map[d]
<1> DEFINE m == With(map, e, x)
<1>1. DOMAIN map \in SUBSET Endpoints /\ map \in [DOMAIN map -> Entries]
  BY MapShape
<1>2. DOMAIN m = DOMAIN map \cup {e} /\ m[e] = x /\ \A d \in DOMAIN map : d # e => m[d] = map[d]
  BY DEF With
<1>3. m \in [DOMAIN m -> Entries]
  BY <1>1 DEF With
<1> QED
  BY <1>1, <1>2, <1>3, MapShape

-----------------------------------------------------------------------------
(* Types.  An active call finds its endpoint in its process's map, and so  *)
(* does a save every endpoint it has left to write.                        *)

Types ==
  /\ mem \in [Processes -> Maps]
  /\ file \in Maps
  /\ pc \in [Observations -> PC]
  /\ at \in [Observations -> DOMAIN FieldOrder]
  /\ current \in [Observations -> SUBSET Values]
  /\ temp \in [Observations -> Maps]
  /\ todo \in [Observations -> SUBSET Endpoints]
  /\ \A o \in Active : /\ EndpointOf[o] \in DOMAIN Mem(o)
                       /\ pc[o] = "dump" => todo[o] \subseteq DOMAIN Mem(o)

\* The code merges every field, one after the other.
LEMMA Orders ==
  /\ DOMAIN FieldOrder = 1..Len(FieldOrder) /\ Len(FieldOrder) \in Nat \ {0}
  /\ \A i \in DOMAIN FieldOrder : FieldOrder[i] \in Fields
  /\ \A f \in Fields : \E i \in DOMAIN FieldOrder : f = FieldOrder[i]
<1>1. Len(FieldOrder) \in Nat \ {0} /\ DOMAIN FieldOrder = 1..Len(FieldOrder)
  BY MapAssumption
<1> QED
  BY <1>1 DEF Fields

\* Every call has a process and an endpoint of the instance.
LEMMA ProcessOfCall == \A o \in Observations : ProcessOf[o] \in Processes /\ EndpointOf[o] \in Endpoints
BY DEF Processes, Endpoints

\* The call in its loop reads and writes a field of an endpoint that is there.
LEMMA FieldThere ==
  ASSUME Types, NEW o \in Active
  PROVE  /\ ProcessOf[o] \in Processes /\ Mem(o) \in Maps
         /\ EndpointOf[o] \in DOMAIN Mem(o) /\ FieldOrder[at[o]] \in Fields
         /\ Mem(o)[EndpointOf[o]] \in Entries
         /\ Mem(o)[EndpointOf[o]][FieldOrder[at[o]]] \in SUBSET Values
         /\ Adds[o][FieldOrder[at[o]]] \in SUBSET Values
<1>1. o \in Observations /\ ProcessOf[o] \in Processes
  BY ProcessOfCall DEF Active
<1>2. Mem(o) \in Maps /\ EndpointOf[o] \in DOMAIN Mem(o)
  BY <1>1 DEF Types, Mem
<1>3. FieldOrder[at[o]] \in Fields
  BY <1>1, Orders DEF Types
<1>4. Mem(o)[EndpointOf[o]] \in Entries
  BY <1>2, MapShape
<1>5. Adds[o][FieldOrder[at[o]]] \in SUBSET Values
  BY <1>1, <1>3 DEF Values
<1> QED
  BY <1>1, <1>2, <1>3, <1>4, <1>5 DEF Entries

\* setdefault adds the endpoint to one map, when it is not there.
LEMMA ObserveEffect ==
  ASSUME Types, NEW o \in Observations, Observe(o)
  PROVE  /\ mem' \in [Processes -> Maps]
         /\ \A p \in Processes : p # ProcessOf[o] => mem'[p] = mem[p]
         /\ DOMAIN mem'[ProcessOf[o]] = DOMAIN mem[ProcessOf[o]] \cup {EndpointOf[o]}
         /\ \A e \in DOMAIN mem[ProcessOf[o]] : mem'[ProcessOf[o]][e] = mem[ProcessOf[o]][e]
         /\ EndpointOf[o] \notin DOMAIN mem[ProcessOf[o]] =>
              mem'[ProcessOf[o]][EndpointOf[o]] = EmptyEndpoint
<1> DEFINE old == mem[ProcessOf[o]]
           here == EndpointOf[o]
           new == IF here \in DOMAIN old THEN old ELSE With(old, here, EmptyEndpoint)
<1>1. /\ ProcessOf[o] \in Processes /\ here \in Endpoints /\ old \in Maps
      /\ EmptyEndpoint \in Entries
  BY ProcessOfCall, EmptyShape DEF Types
<1>2. mem' = [mem EXCEPT ![ProcessOf[o]] = new]
  BY DEF Observe
<1>3. /\ new \in Maps /\ DOMAIN new = DOMAIN old \cup {here}
      /\ \A d \in DOMAIN old : new[d] = old[d]
      /\ here \notin DOMAIN old => new[here] = EmptyEndpoint
  <2> HIDE DEF old, here
  <2>1. CASE here \in DOMAIN old
    BY <1>1, <2>1
  <2>2. CASE here \notin DOMAIN old
    BY <1>1, <2>2, WithShape
  <2> QED
    BY <2>1, <2>2
<1> HIDE DEF new
<1> QED
  BY <1>1, <1>2, <1>3 DEF Types

\* One list of one endpoint of one map is replaced.
LEMMA WriteEffect ==
  ASSUME Types, NEW o \in Observations, WriteField(o)
  PROVE  /\ mem' \in [Processes -> Maps]
         /\ \A p \in Processes : p # ProcessOf[o] => mem'[p] = mem[p]
         /\ DOMAIN mem'[ProcessOf[o]] = DOMAIN mem[ProcessOf[o]]
         /\ \A e \in DOMAIN mem[ProcessOf[o]] :
              e # EndpointOf[o] => mem'[ProcessOf[o]][e] = mem[ProcessOf[o]][e]
         /\ \A f \in Fields :
              mem'[ProcessOf[o]][EndpointOf[o]][f] =
                IF f = FieldOrder[at[o]] THEN current[o] ELSE mem[ProcessOf[o]][EndpointOf[o]][f]
<1> DEFINE p == ProcessOf[o]
           e == EndpointOf[o]
           f == FieldOrder[at[o]]
           x == [mem[p][e] EXCEPT ![f] = current[o]]
           m == [mem[p] EXCEPT ![e] = x]
<1>1. o \in Active
  BY DEF WriteField, Active
<1>2. /\ p \in Processes /\ mem[p] \in Maps /\ e \in DOMAIN mem[p] /\ f \in Fields
      /\ mem[p][e] \in Entries /\ current[o] \in SUBSET Values
  BY <1>1, FieldThere DEF Types, Mem
<1>3. x \in Entries /\ \A g \in Fields : x[g] = IF g = f THEN current[o] ELSE mem[p][e][g]
  BY <1>2 DEF Entries
<1>4. mem' = [mem EXCEPT ![p] = m]
  BY <1>2 DEF WriteField, Types
<1> HIDE DEF x
<1>5. mem[p] \in [DOMAIN mem[p] -> Entries] /\ DOMAIN mem[p] \in SUBSET Endpoints
  BY <1>2, MapShape
<1>6. /\ DOMAIN m = DOMAIN mem[p] /\ m \in [DOMAIN mem[p] -> Entries] /\ m[e] = x
      /\ \A d \in DOMAIN mem[p] : d # e => m[d] = mem[p][d]
  BY <1>2, <1>3, <1>5
<1>7. m \in Maps
  BY <1>5, <1>6, MapShape
<1> HIDE DEF m
<1> QED
  BY <1>2, <1>3, <1>4, <1>6, <1>7 DEF Types

\* One endpoint of the map goes into the temporary file.
LEMMA DumpEffect ==
  ASSUME Types, NEW o \in Observations, DumpEndpoint(o)
  PROVE  \E e \in todo[o] :
           /\ todo' = [todo EXCEPT ![o] = @ \ {e}]
           /\ temp' \in [Observations -> Maps]
           /\ \A q \in Observations : q # o => temp'[q] = temp[q]
           /\ DOMAIN temp'[o] = DOMAIN temp[o] \cup {e}
           /\ e \in DOMAIN Mem(o) /\ temp'[o][e] = Mem(o)[e]
           /\ \A d \in DOMAIN temp[o] : d # e => temp'[o][d] = temp[o][d]
<1>1. o \in Active /\ pc[o] = "dump"
  BY DEF DumpEndpoint, Active
<1>2. PICK e \in todo[o] : /\ temp' = [temp EXCEPT ![o] = With(@, e, Mem(o)[e])]
                           /\ todo' = [todo EXCEPT ![o] = @ \ {e}]
  BY DEF DumpEndpoint
<1>3. Mem(o) \in Maps /\ e \in DOMAIN Mem(o) /\ temp[o] \in Maps /\ e \in Endpoints
  BY <1>1, FieldThere DEF Types
<1>4. Mem(o)[e] \in Entries
  BY <1>3, MapShape
<1> DEFINE m == With(temp[o], e, Mem(o)[e])
<1>5. /\ m \in Maps /\ DOMAIN m = DOMAIN temp[o] \cup {e} /\ m[e] = Mem(o)[e]
      /\ \A d \in DOMAIN temp[o] : d # e => m[d] = temp[o][d]
  BY <1>3, <1>4, WithShape
<1>6. temp' = [temp EXCEPT ![o] = m]
  BY <1>2
<1> HIDE DEF m
<1>7. /\ temp' \in [Observations -> Maps] /\ temp'[o] = m
      /\ \A q \in Observations : q # o => temp'[q] = temp[q]
  BY <1>5, <1>6 DEF Types
<1> QED
  BY <1>2, <1>3, <1>5, <1>7

\* Every step keeps the types.
LEMMA TypesStep == Types /\ [Next]_vars => Types'
<1> SUFFICES ASSUME Types, [Next]_vars PROVE Types'
  OBVIOUS
<1> USE DEF local, saving, notes, Goto
<1> DEFINE Placed(q) ==
             q \in Active => /\ EndpointOf[q] \in DOMAIN Mem(q)
                             /\ pc[q] = "dump" => todo[q] \subseteq DOMAIN Mem(q)
<1>0. \A q \in Observations : Placed(q)
  BY DEF Types
<1>1. ASSUME NEW q \in Observations, DOMAIN Mem(q) \subseteq DOMAIN Mem(q)',
             pc'[q] \notin {"read", "write", "save", "dump"} \/ pc'[q] = pc[q],
             pc'[q] = "dump" => todo'[q] \subseteq todo[q]
      PROVE  Placed(q)'
  BY <1>0, <1>1 DEF Active
<1>2. ASSUME NEW o \in Observations, Observe(o) PROVE Types'
  <2>0. mem' \in [Processes -> Maps] /\ EndpointOf[o] \in DOMAIN Mem(o)'
    BY <1>2, ObserveEffect DEF Mem
  <2>4. ASSUME NEW q \in Observations PROVE DOMAIN Mem(q) \subseteq DOMAIN Mem(q)'
    <3>1. CASE ProcessOf[q] = ProcessOf[o]
      BY <1>2, <3>1, ObserveEffect DEF Mem
    <3>2. CASE ProcessOf[q] # ProcessOf[o]
      BY <1>2, <3>2, ObserveEffect, ProcessOfCall DEF Mem
    <3> QED
      BY <3>1, <3>2
  <2>1. mem' \in [Processes -> Maps] /\ EndpointOf[o] \in DOMAIN Mem(o)'
        /\ \A q \in Observations : DOMAIN Mem(q) \subseteq DOMAIN Mem(q)'
    BY <2>0, <2>4
  <2>2. pc' = [pc EXCEPT ![o] = "read"]
        /\ UNCHANGED <<file, at, current, temp, todo>>
    BY <1>2 DEF Observe
  <2>3. ASSUME NEW q \in Observations PROVE Placed(q)'
    <3>1. CASE q = o
      BY <2>1, <2>2, <3>1 DEF Types
    <3>2. CASE q # o
      <4>1. pc'[q] = pc[q] /\ todo'[q] = todo[q]
        BY <2>2, <3>2 DEF Types
      <4> QED
        BY <1>1, <2>1, <4>1
    <3> QED
      BY <3>1, <3>2
  <2> QED
    BY <2>1, <2>2, <2>3 DEF Types, PC, Active
<1>3. ASSUME NEW o \in Observations, WriteField(o) PROVE Types'
  <2>5. ASSUME NEW q \in Observations PROVE DOMAIN Mem(q) \subseteq DOMAIN Mem(q)'
    <3>1. CASE ProcessOf[q] = ProcessOf[o]
      BY <1>3, <3>1, WriteEffect DEF Mem
    <3>2. CASE ProcessOf[q] # ProcessOf[o]
      BY <1>3, <3>2, WriteEffect, ProcessOfCall DEF Mem
    <3> QED
      BY <3>1, <3>2
  <2>1. mem' \in [Processes -> Maps]
        /\ \A q \in Observations : DOMAIN Mem(q) \subseteq DOMAIN Mem(q)'
    BY <1>3, <2>5, WriteEffect
  <2>6. at' \in [Observations -> DOMAIN FieldOrder]
    <3>1. at[o] \in 1..Len(FieldOrder) /\ Len(FieldOrder) \in Nat
      BY Orders DEF Types
    <3>2. at[o] < Len(FieldOrder) => at[o] + 1 \in DOMAIN FieldOrder
      BY <3>1, Orders
    <3>3. at' = at \/ (at[o] < Len(FieldOrder) /\ at' = [at EXCEPT ![o] = at[o] + 1])
      BY <1>3 DEF WriteField
    <3>4. ASSUME at[o] < Len(FieldOrder), at' = [at EXCEPT ![o] = at[o] + 1]
          PROVE  at' \in [Observations -> DOMAIN FieldOrder]
      BY <3>2, <3>4 DEF Types
    <3> QED
      BY <3>3, <3>4 DEF Types
  <2>2. /\ UNCHANGED <<file, temp, todo>>
        /\ current' = [current EXCEPT ![o] = {}]
        /\ at' \in [Observations -> DOMAIN FieldOrder]
        /\ \E l \in {"read", "save"} : pc' = [pc EXCEPT ![o] = l]
    BY <1>3, <2>6 DEF WriteField
  <2>3. pc[o] = "write"
    BY <1>3 DEF WriteField
  <2>4. ASSUME NEW q \in Observations PROVE Placed(q)'
    <3>1. CASE q = o
      BY <1>0, <2>1, <2>2, <2>3, <3>1 DEF Types, Active
    <3>2. CASE q # o
      <4>1. pc'[q] = pc[q] /\ todo'[q] = todo[q]
        BY <2>2, <3>2 DEF Types
      <4> QED
        BY <1>1, <2>1, <4>1
    <3> QED
      BY <3>1, <3>2
  <2> QED
    BY <2>1, <2>2, <2>4 DEF Types, PC, Active
<1>4. ASSUME NEW o \in Observations, ReadField(o) PROVE Types'
  <2>1. o \in Active
    BY <1>4 DEF ReadField, Active
  <2>2. /\ UNCHANGED <<mem, file, at, temp, todo>>
        /\ current' \in [Observations -> SUBSET Values]
        /\ pc' = [pc EXCEPT ![o] = "write"]
    BY <1>4, <2>1, FieldThere DEF ReadField, Types
  <2>3. \A q \in Observations : Placed(q)'
    BY <1>0, <2>1, <2>2 DEF Types, Active, Mem
  <2> QED
    BY <2>2, <2>3 DEF Types, PC, Active
<1>5. ASSUME NEW o \in Observations, OpenTemp(o) PROVE Types'
  <2>1. pc[o] = "save" /\ Mem(o) \in Maps
    BY <1>5, ProcessOfCall DEF OpenTemp, Types, Mem
  <2>2. /\ UNCHANGED <<mem, file, at, current>>
        /\ temp' = [temp EXCEPT ![o] = NoEndpoints]
        /\ todo' = [todo EXCEPT ![o] = DOMAIN Mem(o)]
        /\ pc' = [pc EXCEPT ![o] = "dump"]
    BY <1>5 DEF OpenTemp
  <2>3. temp' \in [Observations -> Maps] /\ todo' \in [Observations -> SUBSET Endpoints]
    BY <2>1, <2>2, EmptyShape, MapShape DEF Types
  <2>4. \A q \in Observations : Placed(q)'
    BY <1>0, <2>1, <2>2 DEF Types, Active, Mem
  <2> QED
    BY <2>2, <2>3, <2>4 DEF Types, PC, Active
<1>6. ASSUME NEW o \in Observations, DumpEndpoint(o) PROVE Types'
  <2>1. UNCHANGED <<mem, file, pc, at, current>>
    BY <1>6 DEF DumpEndpoint
  <2>2. /\ temp' \in [Observations -> Maps]
        /\ \E e \in todo[o] : todo' = [todo EXCEPT ![o] = @ \ {e}]
    BY <1>6, DumpEffect
  <2>3. \A q \in Observations : Placed(q)'
    BY <1>0, <2>1, <2>2 DEF Types, Active, Mem
  <2> QED
    BY <2>1, <2>2, <2>3 DEF Types, Active
<1>7. ASSUME NEW o \in Observations, Replace(o) \/ SaveFault(o) PROVE Types'
  <2>1. /\ file' \in Maps
        /\ UNCHANGED <<mem, at, current>>
        /\ \E l \in {"done", "failed"} : pc' = [pc EXCEPT ![o] = l]
    BY <1>7 DEF Replace, Saves, SaveFault, EndSave, Types
  <2>2. temp' = [temp EXCEPT ![o] = NoEndpoints] /\ todo' = [todo EXCEPT ![o] = {}]
    BY <1>7 DEF Replace, Saves, SaveFault, EndSave
  <2>3. \A q \in Observations : Placed(q)'
    BY <1>0, <2>1, <2>2 DEF Types, Active, Mem
  <2> QED
    BY <2>1, <2>2, <2>3, EmptyShape DEF Types, PC, Active
<1>8. ASSUME NEW p \in Processes, Restart(p) PROVE Types'
  <2>1. file' = file /\ mem' = [mem EXCEPT ![p] = file]
    BY <1>8 DEF Restart
  <2>2. /\ pc' \in [Observations -> PC]
        /\ at' \in [Observations -> DOMAIN FieldOrder]
        /\ current' \in [Observations -> SUBSET Values]
        /\ temp' \in [Observations -> Maps]
        /\ todo' \in [Observations -> SUBSET Endpoints]
    BY <1>8, EmptyShape, Orders DEF Restart, End, Types, PC
  <2>3. ASSUME NEW q \in Observations PROVE Placed(q)'
    <3>1. CASE ProcessOf[q] = p
      BY <1>8, <3>1 DEF Restart, End, Active
    <3>2. CASE ProcessOf[q] # p
      <4>1. Mem(q)' = Mem(q)
        BY <2>1, <3>2, ProcessOfCall DEF Mem, Types
      <4>2. pc'[q] = pc[q] /\ todo'[q] = todo[q]
        BY <1>8, <3>2 DEF Restart, End
      <4> QED
        BY <1>1, <4>1, <4>2
    <3> QED
      BY <3>1, <3>2
  <2> QED
    BY <2>1, <2>2, <2>3 DEF Types, Active
<1>9. CASE UNCHANGED vars
  BY <1>9 DEF vars, Types, Active, Mem
<1> QED
  BY <1>2, <1>3, <1>4, <1>5, <1>6, <1>7, <1>8, <1>9 DEF Next, ObserveStep

\* Every reachable state is well typed, and no call loses its endpoint.
THEOREM TypesInvariant == Spec => []Types
<1>1. Init => Types
  BY EmptyShape, Orders DEF Init, Types, PC, Active
<1> QED
  BY <1>1, TypesStep, PTL DEF Spec

-----------------------------------------------------------------------------
(* Nothing is invented: what a call is about to write was observed too.    *)

Shows(map) == \A e \in DOMAIN map : \A f \in Fields : map[e][f] \subseteq Known(e, f)

KnownInv ==
  /\ \A p \in Processes : Shows(mem[p])
  /\ Shows(file)
  /\ \A o \in Observations : Shows(temp[o])
  /\ \A o \in Observations :
       pc[o] = "write" => current[o] \subseteq Known(EndpointOf[o], FieldOrder[at[o]])


\* A call that began stays one that began, so what is known only grows.
LEMMA KnownGrows ==
  ASSUME Types, [Next]_vars
  PROVE  /\ \A q \in Observations : pc[q] # "idle" => pc'[q] # "idle"
         /\ \A e, f : Known(e, f) \subseteq Known(e, f)'
<1>1. ASSUME NEW q \in Observations, pc[q] # "idle" PROVE pc'[q] # "idle"
  <2> USE DEF Goto
  <2>1. ASSUME NEW o \in Observations, ObserveStep(o) PROVE pc'[q] # "idle"
    <3>1. pc' = pc \/ \E l \in PC \ {"idle"} : pc' = [pc EXCEPT ![o] = l]
      BY <2>1 DEF ObserveStep, Observe, ReadField, WriteField, OpenTemp, DumpEndpoint, Replace,
                  Saves, SaveFault, EndSave, PC
    <3> QED
      BY <1>1, <3>1 DEF Types
  <2>2. ASSUME NEW p \in Processes, Restart(p) PROVE pc'[q] # "idle"
    BY <1>1, <2>2 DEF Restart, End
  <2>3. CASE UNCHANGED vars
    BY <1>1, <2>3 DEF vars
  <2> QED
    BY <2>1, <2>2, <2>3 DEF Next
<1> QED
  BY <1>1 DEF Known

\* No step writes a value that was not observed at its endpoint and field.
LEMMA KnownStep == Types /\ KnownInv /\ [Next]_vars => KnownInv'
<1> SUFFICES ASSUME Types, KnownInv, [Next]_vars PROVE KnownInv'
  OBVIOUS
<1> USE DEF local, saving, notes, Goto
<1>0. \A e, f : Known(e, f) \subseteq Known(e, f)'
  BY KnownGrows
<1>1. UNCHANGED file => Shows(file)'
  BY <1>0 DEF KnownInv, Shows
<1>2. ASSUME NEW q \in Observations, temp'[q] = temp[q] PROVE Shows(temp[q])'
  BY <1>0, <1>2 DEF KnownInv, Shows
<1>3. ASSUME NEW p \in Processes, mem'[p] = mem[p] PROVE Shows(mem[p])'
  BY <1>0, <1>3 DEF KnownInv, Shows
<1> DEFINE Own(q) == pc[q] = "write" => current[q] \subseteq Known(EndpointOf[q], FieldOrder[at[q]])
<1>4. ASSUME NEW q \in Observations, pc'[q] = pc[q], current'[q] = current[q], at'[q] = at[q]
      PROVE  Own(q)'
  BY <1>0, <1>4 DEF KnownInv
<1>5. ASSUME NEW q \in Observations, pc'[q] # "write" PROVE Own(q)'
  BY <1>5
<1>6. ASSUME NEW q \in Observations, temp'[q] = NoEndpoints PROVE Shows(temp[q])'
  BY <1>6, EmptyShape DEF Shows
<1>7. ASSUME NEW o \in Observations, Observe(o) PROVE KnownInv'
  <2>1. UNCHANGED <<file, at, current, temp>> /\ pc' = [pc EXCEPT ![o] = "read"]
    BY <1>7 DEF Observe
  <2>2. ASSUME NEW p \in Processes PROVE Shows(mem[p])'
    <3>1. CASE p = ProcessOf[o]
      <4>1. \A e \in DOMAIN mem[p] : mem'[p][e] = mem[p][e]
        BY <1>7, <3>1, ObserveEffect
      <4>2. DOMAIN mem'[p] = DOMAIN mem[p] \cup {EndpointOf[o]}
        BY <1>7, <3>1, ObserveEffect
      <4>3. EndpointOf[o] \notin DOMAIN mem[p] =>
              \A f \in Fields : mem'[p][EndpointOf[o]][f] = {}
        BY <1>7, <3>1, ObserveEffect DEF EmptyEndpoint
      <4> QED
        BY <1>0, <4>1, <4>2, <4>3 DEF KnownInv, Shows
    <3>2. CASE p # ProcessOf[o]
      BY <1>3, <1>7, <3>2, ObserveEffect
    <3> QED
      BY <3>1, <3>2
  <2>3. ASSUME NEW q \in Observations PROVE Own(q)' /\ Shows(temp[q])'
    BY <1>2, <1>4, <1>5, <2>1 DEF Types
  <2> QED
    BY <1>1, <2>1, <2>2, <2>3 DEF KnownInv
<1>8. ASSUME NEW o \in Observations, ReadField(o) PROVE KnownInv'
  <2>1. /\ UNCHANGED <<mem, file, at, temp>> /\ pc[o] = "read"
        /\ pc' = [pc EXCEPT ![o] = "write"]
        /\ \E x : /\ x = Mem(o)[EndpointOf[o]][FieldOrder[at[o]]] \cup Adds[o][FieldOrder[at[o]]]
                  /\ current' = [current EXCEPT ![o] = x]
    BY <1>8 DEF ReadField
  <2>2. o \in Active
    BY <2>1 DEF Active
  <2>3. Mem(o)[EndpointOf[o]][FieldOrder[at[o]]] \subseteq Known(EndpointOf[o], FieldOrder[at[o]])
    BY <2>2, FieldThere DEF KnownInv, Shows, Mem
  <2>4. Adds[o][FieldOrder[at[o]]] \subseteq Known(EndpointOf[o], FieldOrder[at[o]])
    BY <2>1 DEF Known
  <2>5. current'[o] \subseteq Known(EndpointOf[o], FieldOrder[at[o]])
    BY <2>1, <2>3, <2>4 DEF Types
  <2>6. Own(o)'
    BY <1>0, <2>1, <2>5
  <2>7. ASSUME NEW q \in Observations PROVE Own(q)'
    BY <1>4, <2>1, <2>6 DEF Types
  <2> QED
    BY <1>1, <1>2, <1>3, <2>1, <2>7 DEF KnownInv
<1>9. ASSUME NEW o \in Observations, WriteField(o) PROVE KnownInv'
  <2>1. /\ UNCHANGED <<file, temp>> /\ pc[o] = "write"
        /\ \E l \in {"read", "save"} : pc' = [pc EXCEPT ![o] = l]
        /\ current' = [current EXCEPT ![o] = {}]
        /\ \A q \in Observations : q # o => at'[q] = at[q]
    BY <1>9 DEF WriteField, Types
  <2>2. current[o] \subseteq Known(EndpointOf[o], FieldOrder[at[o]])
    BY <2>1 DEF KnownInv
  <2>3. ASSUME NEW p \in Processes PROVE Shows(mem[p])'
    <3>1. CASE p = ProcessOf[o]
      <4>1. ASSUME NEW e \in DOMAIN mem'[p], NEW f \in Fields PROVE mem'[p][e][f] \subseteq Known(e, f)
        <5>1. e \in DOMAIN mem[p]
          BY <1>9, <3>1, WriteEffect
        <5>2. CASE e = EndpointOf[o]
          BY <1>9, <2>2, <3>1, <5>1, <5>2, WriteEffect DEF KnownInv, Shows
        <5>3. CASE e # EndpointOf[o]
          BY <1>9, <3>1, <5>1, <5>3, WriteEffect DEF KnownInv, Shows
        <5> QED
          BY <5>2, <5>3
      <4> QED
        BY <1>0, <4>1 DEF Shows
    <3>2. CASE p # ProcessOf[o]
      BY <1>3, <1>9, <3>2, WriteEffect
    <3> QED
      BY <3>1, <3>2
  <2>4. ASSUME NEW q \in Observations PROVE Own(q)' /\ Shows(temp[q])'
    BY <1>2, <1>4, <1>5, <2>1 DEF Types
  <2> QED
    BY <1>1, <2>1, <2>3, <2>4 DEF KnownInv
<1>10. ASSUME NEW o \in Observations, OpenTemp(o) PROVE KnownInv'
  <2>1. /\ UNCHANGED <<mem, file, at, current>>
        /\ temp' = [temp EXCEPT ![o] = NoEndpoints]
        /\ pc' = [pc EXCEPT ![o] = "dump"]
    BY <1>10 DEF OpenTemp
  <2>2. ASSUME NEW q \in Observations PROVE Own(q)' /\ Shows(temp[q])'
    BY <1>2, <1>4, <1>5, <1>6, <2>1 DEF Types
  <2> QED
    BY <1>1, <1>3, <2>1, <2>2 DEF KnownInv
<1>11. ASSUME NEW o \in Observations, DumpEndpoint(o) PROVE KnownInv'
  <2>1. UNCHANGED <<mem, file, pc, at, current>>
    BY <1>11 DEF DumpEndpoint
  <2>2. ASSUME NEW q \in Observations PROVE Shows(temp[q])'
    <3>1. CASE q = o
      <4>1. PICK e : /\ DOMAIN temp'[o] = DOMAIN temp[o] \cup {e}
                     /\ e \in DOMAIN Mem(o) /\ temp'[o][e] = Mem(o)[e]
                     /\ \A d \in DOMAIN temp[o] : d # e => temp'[o][d] = temp[o][d]
        BY <1>11, DumpEffect
      <4>2. \A d \in DOMAIN temp'[o] :
              \/ d \in DOMAIN Mem(o) /\ temp'[o][d] = Mem(o)[d]
              \/ d \in DOMAIN temp[o] /\ temp'[o][d] = temp[o][d]
        BY <4>1
      <4>3. Shows(Mem(o)) /\ Shows(temp[o])
        BY ProcessOfCall DEF KnownInv, Mem
      <4>4. \A d \in DOMAIN temp'[o] : \A f \in Fields : temp'[o][d][f] \subseteq Known(d, f)
        BY <4>2, <4>3 DEF Shows
      <4> QED
        BY <1>0, <3>1, <4>4 DEF Shows
    <3>2. CASE q # o
      BY <1>2, <1>11, <3>2, DumpEffect
    <3> QED
      BY <3>1, <3>2
  <2>3. ASSUME NEW q \in Observations PROVE Own(q)'
    BY <1>4, <2>1
  <2> QED
    BY <1>1, <1>3, <2>1, <2>2, <2>3 DEF KnownInv
<1>12. ASSUME NEW o \in Observations, Replace(o) \/ SaveFault(o) PROVE KnownInv'
  <2>1. /\ file' \in {file, temp[o]}
        /\ UNCHANGED <<mem, at, current>>
        /\ \E l \in {"done", "failed"} : pc' = [pc EXCEPT ![o] = l]
        /\ temp' = [temp EXCEPT ![o] = NoEndpoints]
    BY <1>12 DEF Replace, Saves, SaveFault, EndSave
  <2>2. Shows(file)'
    BY <1>0, <2>1 DEF KnownInv, Shows
  <2>3. ASSUME NEW q \in Observations PROVE Own(q)' /\ Shows(temp[q])'
    BY <1>2, <1>4, <1>5, <1>6, <2>1 DEF Types
  <2> QED
    BY <1>3, <2>1, <2>2, <2>3 DEF KnownInv
<1>13. ASSUME NEW p \in Processes, Restart(p) PROVE KnownInv'
  <2>1. file' = file /\ mem' = [mem EXCEPT ![p] = file]
    BY <1>13 DEF Restart
  <2>2. ASSUME NEW q \in Processes PROVE Shows(mem[q])'
    BY <1>0, <2>1 DEF KnownInv, Shows, Types
  <2>3. ASSUME NEW q \in Observations PROVE Own(q)' /\ Shows(temp[q])'
    <3>1. \/ pc'[q] = "dead" /\ temp'[q] = NoEndpoints
          \/ /\ pc'[q] = pc[q] /\ current'[q] = current[q] /\ at'[q] = at[q]
             /\ temp'[q] = temp[q]
      BY <1>13 DEF Restart, End
    <3> QED
      BY <1>2, <1>4, <1>5, <1>6, <3>1
  <2> QED
    BY <1>1, <2>1, <2>2, <2>3 DEF KnownInv
<1>14. CASE UNCHANGED vars
  BY <1>14 DEF vars, KnownInv, Shows, Known
<1> QED
  BY <1>7, <1>8, <1>9, <1>10, <1>11, <1>12, <1>13, <1>14 DEF Next, ObserveStep

\* Threads and processes may lose each other's values, but an endpoint never
\* shows one that no call observed there.
THEOREM NothingInventedHolds == Spec => []NothingInvented
<1>1. Init => KnownInv
  BY EmptyShape DEF Init, KnownInv, Shows
<1>2. Types /\ KnownInv => NothingInvented
  <2> SUFFICES ASSUME Types, KnownInv,
                      NEW map \in {mem[p] : p \in Processes} \cup {file}
                                    \cup {temp[o] : o \in Observations}
               PROVE  IsMap(map) /\ \A e \in DOMAIN map : \A f \in Fields :
                                      map[e][f] \subseteq Known(e, f)
    BY DEF NothingInvented
  <2>1. map \in Maps /\ Shows(map)
    BY DEF Types, KnownInv
  <2>2. DOMAIN map \subseteq Endpoints /\ \A e \in DOMAIN map : DOMAIN map[e] = Fields
    BY <2>1, MapShape DEF Entries
  <2>3. \A e, f : Known(e, f) \subseteq UNION {Adds[o][f] : o \in Observations}
    BY DEF Known
  <2> QED
    BY <2>1, <2>2, <2>3 DEF IsMap, Shows, Endpoints
<1> QED
  BY <1>1, <1>2, KnownStep, TypesInvariant, PTL DEF Spec
-----------------------------------------------------------------------------
(* A call nobody disturbs: alone at its endpoint in its process, or the    *)
(* process never ran two calls at once.                                    *)

Alone(o) ==
  \A p \in Observations \ {o} : ProcessOf[p] = ProcessOf[o] => EndpointOf[p] # EndpointOf[o]
Undisturbed(o) == Alone(o) \/ ProcessOf[o] \notin overlap

\* What is kept of the call in memory, field by field, and in its temporary file.
Merged(o) ==
  \A i \in DOMAIN FieldOrder :
    i < at[o] => Adds[o][FieldOrder[i]] \subseteq Mem(o)[EndpointOf[o]][FieldOrder[i]]

Kept(o) ==
  /\ pc[o] \in {"read", "write"} => Merged(o)
  /\ pc[o] = "write" =>
       Mem(o)[EndpointOf[o]][FieldOrder[at[o]]] \cup Adds[o][FieldOrder[at[o]]] \subseteq current[o]
  /\ pc[o] \in {"save", "dump"} => Holds(Mem(o), o)
  /\ pc[o] = "dump" /\ EndpointOf[o] \notin todo[o] => Holds(temp[o], o)

\* Two calls run at once only in a process the observer noted.
Solo == \A o, q \in Active : o # q /\ ProcessOf[o] = ProcessOf[q] => ProcessOf[o] \in overlap

OwnInv ==
  /\ Solo
  /\ \A o \in Observations : pc[o] = "idle" => at[o] = 1
  /\ \A o \in Active : Undisturbed(o) => Kept(o)

\* The second of two calls that run at once marks its process.
LEMMA SoloStep == Types /\ Solo /\ [Next]_vars => Solo'
<1> SUFFICES ASSUME Types, Solo, [Next]_vars PROVE Solo'
  OBVIOUS
<1> USE DEF Goto, notes
<1>1. ASSUME NEW o \in Observations, Observe(o) PROVE Solo'
  <2>1. Active' = Active \cup {o} /\ overlap \subseteq overlap'
    BY <1>1 DEF Observe, Active, Types, PC
  <2>2. (\E q \in Active : ProcessOf[q] = ProcessOf[o]) => ProcessOf[o] \in overlap'
    BY <1>1 DEF Observe
  <2> QED
    BY <2>1, <2>2 DEF Solo
<1>2. ASSUME NEW o \in Observations, ObserveStep(o), ~Observe(o) PROVE Solo'
  <2>1. o \in Active /\ overlap' = overlap
    BY <1>2 DEF ObserveStep, ReadField, WriteField, OpenTemp, DumpEndpoint, Replace, Saves,
                SaveFault, Active
  <2>2. \A q \in Observations : q # o => pc'[q] = pc[q]
    BY <1>2 DEF ObserveStep, ReadField, WriteField, OpenTemp, DumpEndpoint, Replace, Saves,
                SaveFault, EndSave, Types
  <2>3. Active' \subseteq Active
    BY <2>1, <2>2 DEF Active
  <2> QED
    BY <2>1, <2>3 DEF Solo
<1>3. ASSUME NEW p \in Processes, Restart(p) PROVE Solo'
  <2>1. overlap' = overlap \ {p} /\ \A q \in Active' : q \in Active /\ ProcessOf[q] # p
    BY <1>3 DEF Restart, End, Active
  <2> QED
    BY <2>1 DEF Solo
<1>4. CASE UNCHANGED vars
  BY <1>4 DEF vars, Solo, Active
<1> QED
  BY <1>1, <1>2, <1>3, <1>4 DEF Next

\* A step of another call changes nothing of an undisturbed one: not its
\* endpoint, its locals or its temporary file.
LEMMA OthersKeep ==
  ASSUME Types, Solo, NEW o \in Active, NEW q \in Observations, q # o, ObserveStep(q),
         Undisturbed(o)'
  PROVE  /\ Undisturbed(o)
         /\ pc'[o] = pc[o] /\ at'[o] = at[o] /\ current'[o] = current[o]
         /\ temp'[o] = temp[o] /\ todo'[o] = todo[o]
         /\ EndpointOf[o] \in DOMAIN Mem(o) /\ EndpointOf[o] \in DOMAIN Mem(o)'
         /\ Mem(o)'[EndpointOf[o]] = Mem(o)[EndpointOf[o]]
<1> USE DEF Goto, local, saving, notes
<1>1. overlap \subseteq overlap'
  BY DEF ObserveStep, Observe, ReadField, WriteField, OpenTemp, DumpEndpoint, Replace, Saves,
         SaveFault
<1>2. Undisturbed(o)
  BY <1>1 DEF Undisturbed, Alone
<1>3. o \in Observations /\ EndpointOf[o] \in DOMAIN Mem(o)
  BY DEF Active, Types
<1>4. pc'[o] = pc[o] /\ at'[o] = at[o] /\ current'[o] = current[o]
      /\ temp'[o] = temp[o] /\ todo'[o] = todo[o]
  BY <1>3 DEF ObserveStep, Observe, ReadField, WriteField, OpenTemp, DumpEndpoint, Replace, Saves,
         SaveFault, EndSave, Types
<1>5. EndpointOf[o] \in DOMAIN Mem(o)' /\ Mem(o)'[EndpointOf[o]] = Mem(o)[EndpointOf[o]]
  <2>1. CASE Observe(q)
    <3>1. CASE ProcessOf[q] = ProcessOf[o]
      BY <1>3, <2>1, <3>1, ObserveEffect DEF Mem
    <3>2. CASE ProcessOf[q] # ProcessOf[o]
      BY <1>3, <2>1, <3>2, ObserveEffect, ProcessOfCall DEF Mem
    <3> QED
      BY <3>1, <3>2
  <2>2. CASE WriteField(q)
    <3>1. CASE ProcessOf[q] = ProcessOf[o]
      <4>1. q \in Active
        BY <2>2 DEF WriteField, Active
      <4>2. ProcessOf[o] \in overlap
        BY <3>1, <4>1 DEF Solo
      <4>3. EndpointOf[q] # EndpointOf[o]
        BY <1>2, <3>1, <4>2 DEF Undisturbed, Alone
      <4> QED
        BY <1>3, <2>2, <3>1, <4>3, WriteEffect DEF Mem
    <3>2. CASE ProcessOf[q] # ProcessOf[o]
      BY <1>3, <2>2, <3>2, WriteEffect, ProcessOfCall DEF Mem
    <3> QED
      BY <3>1, <3>2
  <2>3. CASE ~Observe(q) /\ ~WriteField(q)
    <3>1. mem' = mem
      BY <2>3 DEF ObserveStep, ReadField, OpenTemp, DumpEndpoint, Replace, Saves, SaveFault
    <3> QED
      BY <1>3, <3>1 DEF Mem
  <2> QED
    BY <2>1, <2>2, <2>3
<1> QED
  BY <1>2, <1>3, <1>4, <1>5

\* No step of another call or process takes away what an undisturbed call merged.
LEMMA OwnStep == Types /\ Types' /\ OwnInv /\ [Next]_vars => OwnInv'
<1> SUFFICES ASSUME Types, Types', OwnInv, [Next]_vars PROVE OwnInv'
  OBVIOUS
<1> USE DEF Goto, local, saving, notes
<1>1. Solo /\ Solo'
  BY SoloStep DEF OwnInv
<1>2. ASSUME NEW o \in Observations, pc'[o] = "idle" PROVE at'[o] = 1
  <2>1. pc[o] = "idle"
    BY <1>2, KnownGrows
  <2>2. ASSUME NEW q \in Observations, ObserveStep(q) PROVE at'[o] = at[o]
    <3>1. q # o
      BY <1>2, <2>1, <2>2 DEF ObserveStep, Observe, ReadField, WriteField, OpenTemp, DumpEndpoint,
                              Replace, Saves, SaveFault, EndSave, Types
    <3> QED
      BY <2>2, <3>1 DEF ObserveStep, Observe, ReadField, WriteField, OpenTemp, DumpEndpoint,
                        Replace, Saves, SaveFault, Types
  <2>3. ASSUME NEW p \in Processes, Restart(p) PROVE at'[o] = at[o]
    BY <2>1, <2>3 DEF Restart, End, Active
  <2>4. at'[o] = at[o]
    BY <2>2, <2>3 DEF Next, vars
  <2> QED
    BY <2>1, <2>4 DEF OwnInv
<1>3. ASSUME NEW o \in Active', Undisturbed(o)' PROVE Kept(o)'
  <2>1. o \in Observations
    BY DEF Active
  <2>2. ASSUME NEW q \in Observations, q # o, ObserveStep(q) PROVE Kept(o)'
    <3>1. pc'[o] = pc[o]
      BY <2>1, <2>2 DEF ObserveStep, Observe, ReadField, WriteField, OpenTemp, DumpEndpoint,
                        Replace, Saves, SaveFault, EndSave, Types
    <3>2. o \in Active
      BY <2>1, <3>1 DEF Active
    <3>3. Kept(o)
      BY <1>1, <1>3, <2>2, <3>2, OthersKeep DEF OwnInv
    <3> QED
      BY <1>1, <1>3, <2>2, <3>2, <3>3, OthersKeep DEF Kept, Merged, Holds
  <2>3. CASE Observe(o)
    <3>1. pc'[o] = "read" /\ at'[o] = 1
      BY <2>1, <2>3 DEF Observe, Types, OwnInv
    <3> QED
      BY <3>1, Orders DEF Kept, Merged
  <2>4. ASSUME ObserveStep(o), ~Observe(o) PROVE o \in Active /\ Kept(o)
    <3>1. o \in Active /\ overlap' = overlap
      BY <2>1, <2>4 DEF ObserveStep, ReadField, WriteField, OpenTemp, DumpEndpoint, Replace, Saves,
                        SaveFault, Active
    <3> QED
      BY <1>3, <3>1 DEF OwnInv, Undisturbed, Alone
  <2>5. CASE ReadField(o)
    <3>1. o \in Active /\ Kept(o)
      BY <2>4, <2>5 DEF ObserveStep, ReadField, Observe
    <3>2. /\ pc[o] = "read" /\ pc'[o] = "write" /\ mem' = mem /\ at' = at
          /\ current'[o] = Mem(o)[EndpointOf[o]][FieldOrder[at[o]]] \cup Adds[o][FieldOrder[at[o]]]
      BY <2>1, <2>5 DEF ReadField, Types
    <3> QED
      BY <3>1, <3>2 DEF Kept, Merged, Mem
  <2>6. CASE WriteField(o)
    <3> DEFINE e == EndpointOf[o]
    <3>1. o \in Active /\ Kept(o) /\ pc[o] = "write"
      BY <2>4, <2>6 DEF ObserveStep, WriteField, Observe
    <3>2. e \in DOMAIN Mem(o) /\ e \in DOMAIN Mem(o)'
      BY <2>1, <2>6, <3>1, WriteEffect DEF Types, Mem
    <3>3. ASSUME NEW i \in DOMAIN FieldOrder, i <= at[o]
          PROVE  Adds[o][FieldOrder[i]] \subseteq Mem(o)'[e][FieldOrder[i]]
      <4>1. /\ FieldOrder[i] \in Fields /\ at[o] \in DOMAIN FieldOrder
            /\ i \in Nat /\ at[o] \in Nat
        BY <2>1, Orders DEF Types
      <4>2. CASE FieldOrder[i] = FieldOrder[at[o]]
        <5>1. Mem(o)'[e][FieldOrder[i]] = current[o]
          BY <2>1, <2>6, <4>1, <4>2, WriteEffect DEF Mem
        <5> QED
          BY <3>1, <4>2, <5>1 DEF Kept
      <4>3. CASE FieldOrder[i] # FieldOrder[at[o]]
        <5>1. Mem(o)'[e][FieldOrder[i]] = Mem(o)[e][FieldOrder[i]]
          BY <2>1, <2>6, <4>1, <4>3, WriteEffect DEF Mem
        <5>2. i < at[o]
          BY <3>3, <4>1, <4>3
        <5> QED
          BY <3>1, <5>1, <5>2 DEF Kept, Merged
      <4> QED
        BY <4>2, <4>3
    <3>4. CASE at[o] < Len(FieldOrder) /\ at' = [at EXCEPT ![o] = @ + 1] /\ Goto(o, "read")
      <4>1. pc'[o] = "read" /\ at'[o] = at[o] + 1
        BY <2>1, <3>4 DEF Types
      <4>2. \A i \in DOMAIN FieldOrder : i < at[o] + 1 => i <= at[o]
        BY <2>1, Orders DEF Types
      <4> QED
        BY <3>3, <4>1, <4>2 DEF Kept, Merged
    <3>5. CASE at[o] = Len(FieldOrder) /\ Goto(o, "save")
      <4>1. pc'[o] = "save"
        BY <2>1, <3>5 DEF Types
      <4>2. ASSUME NEW f \in Fields PROVE Adds[o][f] \subseteq Mem(o)'[e][f]
        <5>1. PICK i \in DOMAIN FieldOrder : f = FieldOrder[i]
          BY Orders
        <5>2. i <= at[o]
          BY <3>5, Orders
        <5> QED
          BY <3>3, <5>1, <5>2
      <4>3. Holds(Mem(o), o)'
        BY <3>2, <4>2 DEF Holds
      <4> QED
        BY <4>1, <4>3 DEF Kept
    <3> QED
      BY <2>6, <3>4, <3>5 DEF WriteField
  <2>7. CASE OpenTemp(o)
    <3>1. o \in Active /\ Kept(o)
      BY <2>4, <2>7 DEF ObserveStep, OpenTemp, Observe
    <3>2. pc[o] = "save" /\ pc'[o] = "dump" /\ mem' = mem /\ todo'[o] = DOMAIN Mem(o)
      BY <2>1, <2>7 DEF OpenTemp, Types
    <3> QED
      BY <3>1, <3>2 DEF Kept, Mem, Holds
  <2>8. CASE DumpEndpoint(o)
    <3> DEFINE e == EndpointOf[o]
    <3>1. o \in Active /\ Kept(o) /\ pc[o] = "dump" /\ pc' = pc /\ mem' = mem
      BY <2>4, <2>8 DEF ObserveStep, DumpEndpoint, Observe
    <3>2. PICK x \in todo[o] : /\ todo' = [todo EXCEPT ![o] = @ \ {x}]
                               /\ DOMAIN temp'[o] = DOMAIN temp[o] \cup {x}
                               /\ temp'[o][x] = Mem(o)[x]
                               /\ \A d \in DOMAIN temp[o] : d # x => temp'[o][d] = temp[o][d]
      BY <2>1, <2>8, DumpEffect
    <3>3. Holds(Mem(o), o) /\ Holds(Mem(o), o)'
      BY <3>1 DEF Kept, Mem, Holds
    <3>4. ASSUME e \notin todo'[o] PROVE Holds(temp[o], o)'
      <4>1. CASE e = x
        BY <3>2, <3>3, <4>1 DEF Holds
      <4>2. CASE e # x
        <5>1. Holds(temp[o], o)
          BY <2>1, <3>1, <3>2, <3>4, <4>2 DEF Kept, Types
        <5> QED
          BY <3>2, <4>2, <5>1 DEF Holds
      <4> QED
        BY <4>1, <4>2
    <3> QED
      BY <3>1, <3>3, <3>4 DEF Kept
  <2>9. CASE Replace(o) \/ SaveFault(o)
    <3>1. o \notin Active'
      BY <2>1, <2>9 DEF Replace, Saves, SaveFault, EndSave, Types, Active
    <3> QED
      BY <3>1
  <2>10. ASSUME NEW p \in Processes, Restart(p) PROVE Kept(o)'
    <3>1. o \in Active /\ ProcessOf[o] # p
      BY <2>10 DEF Restart, End, Active
    <3>2. /\ pc'[o] = pc[o] /\ at'[o] = at[o] /\ current'[o] = current[o]
          /\ temp'[o] = temp[o] /\ todo'[o] = todo[o] /\ overlap' = overlap \ {p}
      BY <2>1, <2>10, <3>1 DEF Restart, End
    <3>3. Mem(o)' = Mem(o)
      BY <2>1, <2>10, <3>1, ProcessOfCall DEF Restart, Mem, Types
    <3>4. Kept(o)
      BY <1>3, <3>1, <3>2 DEF OwnInv, Undisturbed, Alone
    <3> QED
      BY <3>2, <3>3, <3>4 DEF Kept, Merged, Holds
  <2>11. CASE UNCHANGED vars
    <3>1. o \in Active /\ Undisturbed(o)
      BY <1>3, <2>11 DEF vars, Active, Undisturbed, Alone
    <3>2. Kept(o)
      BY <3>1 DEF OwnInv
    <3> QED
      BY <2>11, <3>2 DEF vars, Kept, Merged, Holds, Mem
  <2> QED
    BY <2>2, <2>3, <2>5, <2>6, <2>7, <2>8, <2>9, <2>10, <2>11 DEF Next, ObserveStep
<1> QED
  BY <1>1, <1>2, <1>3 DEF OwnInv

\* So an undisturbed call has what it merged in every reachable state.
LEMMA OwnInvariant == Spec => []OwnInv
<1>1. Init => OwnInv
  BY DEF Init, OwnInv, Solo, Active
<1> QED
  BY <1>1, OwnStep, TypesInvariant, PTL DEF Spec

\* A thread that has its endpoint to itself loses nothing, whatever the other
\* threads of its process do to the map around it.
THEOREM OwnEndpointKeptHolds == Spec => []OwnEndpointKept
<1>1. Types /\ OwnInv => OwnEndpointKept
  BY DEF Types, OwnInv, OwnEndpointKept, Kept, Undisturbed, Alone, Active
<1> QED
  BY <1>1, TypesInvariant, OwnInvariant, PTL
-----------------------------------------------------------------------------
(* The file.                                                               *)

\* A step of a call only adds to the map of a process that never ran two calls
\* at once: there a list is stored back as it was read, with the call's values.
LEMMA MemGrows ==
  ASSUME Types, OwnInv, NEW o \in Observations, ObserveStep(o),
         NEW p \in Processes, p \notin overlap
  PROVE  Grows(mem[p], mem'[p])
<1>1. CASE Observe(o)
  <2>1. CASE p = ProcessOf[o]
    BY <1>1, <2>1, ObserveEffect DEF Grows
  <2>2. CASE p # ProcessOf[o]
    BY <1>1, <2>2, ObserveEffect DEF Grows
  <2> QED
    BY <2>1, <2>2
<1>2. CASE WriteField(o)
  <2>1. CASE p = ProcessOf[o]
    <3>1. o \in Active /\ pc[o] = "write"
      BY <1>2 DEF WriteField, Active
    <3>2. mem[p][EndpointOf[o]][FieldOrder[at[o]]] \subseteq current[o]
      BY <2>1, <3>1 DEF OwnInv, Undisturbed, Kept, Mem
    <3>3. ASSUME NEW e \in DOMAIN mem[p], NEW f \in Fields
          PROVE  mem[p][e][f] \subseteq mem'[p][e][f]
      <4>1. CASE e = EndpointOf[o]
        BY <1>2, <2>1, <3>2, <4>1, WriteEffect
      <4>2. CASE e # EndpointOf[o]
        BY <1>2, <2>1, <4>2, WriteEffect
      <4> QED
        BY <4>1, <4>2
    <3>4. DOMAIN mem'[p] = DOMAIN mem[p]
      BY <1>2, <2>1, WriteEffect
    <3> QED
      BY <3>3, <3>4 DEF Grows
  <2>2. CASE p # ProcessOf[o]
    BY <1>2, <2>2, WriteEffect DEF Grows
  <2> QED
    BY <2>1, <2>2
<1>3. CASE ~Observe(o) /\ ~WriteField(o)
  <2>1. mem' = mem
    BY <1>3 DEF ObserveStep, ReadField, OpenTemp, DumpEndpoint, Replace, Saves, SaveFault
  <2> QED
    BY <2>1 DEF Grows
<1> QED
  BY <1>1, <1>2, <1>3

\* Growing twice is growing.
LEMMA GrowsOn ==
  ASSUME NEW a, NEW b, NEW c, Grows(a, b), Grows(b, c)
  PROVE  Grows(a, c)
BY DEF Grows

\* The temporary file of an undisturbed process is a copy of its memory.
CopyInv ==
  \A o \in Observations :
    pc[o] = "dump" /\ ProcessOf[o] \notin overlap =>
      /\ DOMAIN temp[o] \cup todo[o] = DOMAIN Mem(o)
      /\ \A e \in DOMAIN temp[o] : temp[o][e] = Mem(o)[e]

\* Serialising an endpoint copies it, and nobody changes what was copied.
LEMMA CopyStep == Types /\ OwnInv /\ CopyInv /\ [Next]_vars => CopyInv'
<1> SUFFICES ASSUME Types, OwnInv, CopyInv, [Next]_vars,
                    NEW o \in Observations, pc'[o] = "dump", ProcessOf[o] \notin overlap'
             PROVE  /\ DOMAIN temp'[o] \cup todo'[o] = DOMAIN Mem(o)'
                    /\ \A e \in DOMAIN temp'[o] : temp'[o][e] = Mem(o)'[e]
  BY DEF CopyInv
<1> USE DEF Goto, local, saving, notes
<1>1. ASSUME NEW q \in Observations, q # o, ObserveStep(q)
      PROVE  pc'[o] = pc[o] /\ temp'[o] = temp[o] /\ todo'[o] = todo[o]
             /\ overlap \subseteq overlap' /\ Mem(o)' = Mem(o)
  <2>1. pc'[o] = pc[o] /\ temp'[o] = temp[o] /\ todo'[o] = todo[o] /\ overlap \subseteq overlap'
    BY <1>1 DEF ObserveStep, Observe, ReadField, WriteField, OpenTemp, DumpEndpoint, Replace,
                Saves, SaveFault, EndSave, Types
  <2>2. o \in Active
    BY <2>1 DEF Active
  <2>3. CASE ProcessOf[q] = ProcessOf[o]
    <3>1. q \notin Active
      BY <1>1, <2>1, <2>2, <2>3 DEF OwnInv, Solo
    <3>2. ~Observe(q)
      BY <2>2, <2>3 DEF Observe
    <3> QED
      BY <1>1, <3>1, <3>2 DEF ObserveStep, ReadField, WriteField, OpenTemp, DumpEndpoint, Replace,
                              SaveFault, Active
  <2>4. CASE ProcessOf[q] # ProcessOf[o]
    <3>1. mem'[ProcessOf[o]] = mem[ProcessOf[o]]
      <4>1. CASE Observe(q) \/ WriteField(q)
        BY <2>4, <4>1, ObserveEffect, WriteEffect, ProcessOfCall
      <4>2. CASE ~Observe(q) /\ ~WriteField(q)
        BY <1>1, <4>2 DEF ObserveStep, ReadField, OpenTemp, DumpEndpoint, Replace, Saves, SaveFault
      <4> QED
        BY <4>1, <4>2
    <3> QED
      BY <2>1, <3>1 DEF Mem
  <2> QED
    BY <2>3, <2>4
<1>2. CASE OpenTemp(o)
  <2>1. temp'[o] = NoEndpoints /\ todo'[o] = DOMAIN Mem(o) /\ mem' = mem
    BY <1>2 DEF OpenTemp, Types
  <2> QED
    BY <2>1, EmptyShape DEF Mem
<1>3. CASE DumpEndpoint(o)
  <2>1. pc[o] = "dump" /\ mem' = mem /\ overlap' = overlap
    BY <1>3 DEF DumpEndpoint
  <2>2. PICK x \in todo[o] : /\ todo' = [todo EXCEPT ![o] = @ \ {x}]
                             /\ DOMAIN temp'[o] = DOMAIN temp[o] \cup {x}
                             /\ temp'[o][x] = Mem(o)[x]
                             /\ \A d \in DOMAIN temp[o] : d # x => temp'[o][d] = temp[o][d]
    BY <1>3, DumpEffect
  <2>3. todo'[o] = todo[o] \ {x}
    BY <2>2 DEF Types
  <2>4. /\ DOMAIN temp[o] \cup todo[o] = DOMAIN Mem(o)
        /\ \A e \in DOMAIN temp[o] : temp[o][e] = Mem(o)[e]
    BY <2>1 DEF CopyInv
  <2>5. Mem(o)' = Mem(o)
    BY <2>1 DEF Mem
  <2> QED
    BY <2>2, <2>3, <2>4, <2>5
<1>4. ASSUME ObserveStep(o), ~OpenTemp(o), ~DumpEndpoint(o) PROVE FALSE
  BY <1>4 DEF ObserveStep, Observe, ReadField, WriteField, Replace, Saves, SaveFault, EndSave, Types
<1>5. ASSUME NEW p \in Processes, Restart(p)
      PROVE  pc[o] = "dump" /\ temp'[o] = temp[o] /\ todo'[o] = todo[o]
             /\ ProcessOf[o] \notin overlap /\ Mem(o)' = Mem(o)
  <2>1. ProcessOf[o] # p /\ pc'[o] = pc[o] /\ temp'[o] = temp[o] /\ todo'[o] = todo[o]
        /\ overlap' = overlap \ {p}
    BY <1>5 DEF Restart, End, Active
  <2> QED
    BY <1>5, <2>1, ProcessOfCall DEF Restart, Mem, Types
<1>6. CASE UNCHANGED vars
  BY <1>6 DEF vars, CopyInv, Mem
<1> QED
  BY <1>1, <1>2, <1>3, <1>4, <1>5, <1>6 DEF Next, CopyInv

\* A process that is not stale and never ran two calls at once has at least what
\* the file has, and the file has every observation that is not exposed.
FreshInv ==
  /\ \A p \in Processes \ (stale \cup overlap) : Grows(file, mem[p])
  /\ ReturnedIsSaved

\* What a save puts into the file when its process is not noted.
LEMMA SavedCopy ==
  ASSUME Types, OwnInv, CopyInv, NEW o \in Observations, Replace(o), ProcessOf[o] \notin overlap
  PROVE  /\ file' = temp[o] /\ temp[o] \in Maps
         /\ DOMAIN temp[o] = DOMAIN Mem(o) /\ \A e \in DOMAIN Mem(o) : temp[o][e] = Mem(o)[e]
         /\ Holds(temp[o], o)
<1>1. pc[o] = "dump" /\ todo[o] = {} /\ file' = temp[o]
  BY DEF Replace, Saves
<1>2. DOMAIN temp[o] = DOMAIN Mem(o) /\ \A e \in DOMAIN Mem(o) : temp[o][e] = Mem(o)[e]
  BY <1>1 DEF CopyInv
<1>3. Holds(temp[o], o)
  BY <1>1 DEF OwnInv, Active, Undisturbed, Kept
<1> QED
  BY <1>1, <1>2, <1>3 DEF Types

\* Only a save of a noted process, which exposes what it takes back, loses a value.
LEMMA FreshStep == Types /\ OwnInv /\ CopyInv /\ FreshInv /\ [Next]_vars => FreshInv'
<1> SUFFICES ASSUME Types, OwnInv, CopyInv, FreshInv, [Next]_vars PROVE FreshInv'
  OBVIOUS
<1> USE DEF Goto, local, saving, notes
<1>1. ASSUME NEW o \in Observations, Replace(o) PROVE FreshInv'
  <2> DEFINE p == ProcessOf[o]
  <2>1. /\ file' = temp[o] /\ mem' = mem /\ overlap' = overlap
        /\ stale' = Processes \ {p} /\ pc' = [pc EXCEPT ![o] = "done"]
        /\ exposed' = IF p \in stale \cup overlap
                      THEN {d \in Observations : pc[d] = "done"} \cup {o} ELSE exposed
    BY <1>1 DEF Replace, Saves, EndSave
  <2>2. ASSUME NEW q \in Processes \ (stale' \cup overlap') PROVE Grows(file', mem'[q])
    <3>1. q = p /\ p \notin overlap
      BY <2>1
    <3> QED
      BY <1>1, <2>1, <3>1, SavedCopy DEF Grows, Mem
  <2>3. ASSUME NEW d \in Observations, pc'[d] = "done", d \notin exposed' PROVE Holds(file', d)
    <3>1. p \notin stale \cup overlap
      BY <2>1, <2>3 DEF Types
    <3>2. CASE d = o
      BY <1>1, <2>1, <3>1, <3>2, SavedCopy
    <3>3. CASE d # o
      <4>1. Holds(file, d)
        BY <2>1, <2>3, <3>1, <3>3 DEF FreshInv, ReturnedIsSaved, Types
      <4>2. Grows(file, Mem(o))
        BY <3>1, ProcessOfCall DEF FreshInv, Mem
      <4>3. Grows(file, temp[o])
        BY <1>1, <3>1, <4>2, SavedCopy DEF Grows
      <4> QED
        BY <2>1, <4>1, <4>3 DEF Grows, Holds
    <3> QED
      BY <3>2, <3>3
  <2>4. ReturnedIsSaved'
    BY <2>3 DEF ReturnedIsSaved, Holds
  <2> QED
    BY <2>2, <2>4 DEF FreshInv
<1>2. ASSUME NEW o \in Observations, ObserveStep(o), ~Replace(o) PROVE FreshInv'
  <2>1. file' = file /\ stale' = stale /\ exposed' = exposed /\ overlap \subseteq overlap'
    BY <1>2 DEF ObserveStep, Observe, ReadField, WriteField, OpenTemp, DumpEndpoint, SaveFault
  <2>2. ASSUME NEW p \in Processes \ (stale' \cup overlap') PROVE Grows(file', mem'[p])
    BY <1>2, <2>1, MemGrows, GrowsOn DEF FreshInv
  <2>3. ASSUME NEW d \in Observations, pc'[d] = "done" PROVE pc[d] = "done"
    BY <1>2, <2>3 DEF ObserveStep, Observe, ReadField, WriteField, OpenTemp, DumpEndpoint, SaveFault,
       EndSave, Types
  <2> QED
    BY <2>1, <2>2, <2>3 DEF FreshInv, ReturnedIsSaved, Holds
<1>3. ASSUME NEW p \in Processes, Restart(p) PROVE FreshInv'
  <2>1. /\ file' = file /\ exposed' = exposed /\ mem' = [mem EXCEPT ![p] = file]
        /\ stale' = stale \ {p} /\ overlap' = overlap \ {p}
        /\ \A d \in Observations : pc'[d] = "done" => pc[d] = "done"
    BY <1>3 DEF Restart, End
  <2>2. ASSUME NEW q \in Processes \ (stale' \cup overlap') PROVE Grows(file', mem'[q])
    <3>1. CASE q = p
      BY <2>1, <3>1 DEF Grows, Types
    <3>2. CASE q # p
      BY <2>1, <3>2 DEF FreshInv, Types
    <3> QED
      BY <3>1, <3>2
  <2> QED
    BY <2>1, <2>2 DEF FreshInv, ReturnedIsSaved, Holds
<1>4. CASE UNCHANGED vars
  BY <1>4 DEF vars, FreshInv, ReturnedIsSaved, Holds
<1> QED
  BY <1>1, <1>2, <1>3, <1>4 DEF Next

\* So in every reachable state a fresh process has at least what the file has.
LEMMA FreshInvariant == Spec => [](Types /\ OwnInv /\ CopyInv /\ FreshInv)
<1>1. Init => CopyInv /\ FreshInv
  BY DEF Init, CopyInv, FreshInv, ReturnedIsSaved, Grows
<1> QED
  BY <1>1, CopyStep, FreshStep, TypesInvariant, OwnInvariant, PTL DEF Spec

\* observe returned, so its values are in the file, through failed saves,
\* crashes and restarts, until a noted process replaces the file.
THEOREM ReturnedIsSavedHolds == Spec => []ReturnedIsSaved
<1>1. FreshInv => ReturnedIsSaved
  BY DEF FreshInv
<1> QED
  BY <1>1, FreshInvariant, PTL

\* Only a save of a stale or overlapping process takes anything out of the file.
THEOREM FileOnlyGrowsHolds == Spec => FileOnlyGrows
<1> DEFINE Kind == \/ Grows(file, file')
                   \/ \E o \in Observations :
                        pc'[o] # pc[o] /\ pc'[o] = "done" /\ ProcessOf[o] \in stale \cup overlap
<1>1. Types /\ OwnInv /\ CopyInv /\ FreshInv /\ [Next]_vars => [Kind]_vars
  <2> SUFFICES ASSUME Types, OwnInv, CopyInv, FreshInv, Next PROVE Kind \/ UNCHANGED vars
    OBVIOUS
  <2> USE DEF Goto, local, saving, notes
  <2>1. ASSUME NEW o \in Observations, Replace(o) PROVE Kind
    <3>1. CASE ProcessOf[o] \in stale \cup overlap
      BY <2>1, <3>1 DEF Replace, Saves, EndSave, Types
    <3>2. CASE ProcessOf[o] \notin stale \cup overlap
      <4>1. Grows(file, Mem(o))
        BY <3>2, ProcessOfCall DEF FreshInv, Mem
      <4> QED
        BY <2>1, <3>2, <4>1, SavedCopy DEF Grows
    <3> QED
      BY <3>1, <3>2
  <2>2. ASSUME file' = file PROVE Kind
    BY <2>2 DEF Grows
  <2>3. ASSUME NEW o \in Observations, ObserveStep(o), ~Replace(o) PROVE file' = file
    BY <2>3 DEF ObserveStep, Observe, ReadField, WriteField, OpenTemp, DumpEndpoint, SaveFault
  <2>4. ASSUME NEW p \in Processes, Restart(p) PROVE file' = file
    BY <2>4 DEF Restart
  <2> QED
    BY <2>1, <2>2, <2>3, <2>4 DEF Next
<1> QED
  BY <1>1, FreshInvariant, PTL DEF Spec, FileOnlyGrows
=============================================================================
