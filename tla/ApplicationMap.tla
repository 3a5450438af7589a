---------------------------- MODULE ApplicationMap ----------------------------
(***************************************************************************)
(* ApplicationMapStore: the map each process loads when it starts, shared  *)
(* without a lock by its threads, and the one JSON file that each process  *)
(* replaces as a whole after every observation.  Each element of           *)
(* Observations is one call of observe, made after the evidence record.    *)
(* What the call adds is fixed by its response: a set of values for each   *)
(* list field of one endpoint.  Under the interpreter lock a single        *)
(* dictionary operation is atomic; anything may happen between two.        *)
(***************************************************************************)
EXTENDS Integers, Sequences, FiniteSets

CONSTANTS Observations, \* calls of observe
          ProcessOf,    \* [Observations -> process]: a proxy, a command, and their successors
          EndpointOf,   \* [Observations -> endpoint id]
          Adds,         \* [Observations -> [field -> set of values]]
          FieldOrder,   \* sequence of the list fields, in the order of the loop
          MaxCrashes    \* bound: process restarts explored

ASSUME MapAssumption ==
  /\ FieldOrder \in Seq(STRING) /\ FieldOrder # <<>>
  /\ MaxCrashes \in Nat

VARIABLES mem,     \* [Processes -> map]: _data["endpoints"]
          file,    \* the endpoints in the file; no file reads as none
          pc,      \* [Observations -> PC]
          at,      \* [Observations -> 1..Len(FieldOrder)]: field being merged
          current, \* [Observations -> set]: the local set of that field
          temp,    \* [Observations -> map]: what the temporary file holds
          todo,    \* [Observations -> set of endpoints] left to serialise
          crashes

\* An observer's notes.
VARIABLES stale,   \* processes whose map lacks what another one saved since they loaded it
          overlap, \* processes that have run two calls at once since they loaded it
          exposed  \* finished calls after which a stale or overlapping process saved

local == <<at, current>>
saving == <<temp, todo>>
notes == <<stale, overlap, exposed>>
vars == <<mem, file, pc, at, current, temp, todo, crashes, stale, overlap, exposed>>

Processes == {ProcessOf[o] : o \in Observations}

Fields == {FieldOrder[i] : i \in DOMAIN FieldOrder}
EmptyEndpoint == [f \in Fields |-> {}]
NoEndpoints == [e \in {} |-> EmptyEndpoint]
PC == {"idle", "read", "write", "save", "dump", "done", "failed", "dead"}
Active == {o \in Observations : pc[o] \in {"read", "write", "save", "dump"}}
Goto(o, label) == pc' = [pc EXCEPT ![o] = label]
With(map, e, endpoint) ==
  [d \in DOMAIN map \cup {e} |-> IF d = e THEN endpoint ELSE map[d]]

Mem(o) == mem[ProcessOf[o]]

Init ==
  /\ mem = [p \in Processes |-> NoEndpoints]
  /\ file = NoEndpoints
  /\ pc = [o \in Observations |-> "idle"]
  /\ at = [o \in Observations |-> 1]
  /\ current = [o \in Observations |-> {}]
  /\ temp = [o \in Observations |-> NoEndpoints]
  /\ todo = [o \in Observations |-> {}]
  /\ crashes = 0
  /\ stale = {}
  /\ overlap = {}
  /\ exposed = {}

-----------------------------------------------------------------------------
(* observe                                                                 *)

\* endpoints.setdefault(endpoint_id, {...})
Observe(o) ==
  /\ pc[o] = "idle"
  /\ mem' = [mem EXCEPT ![ProcessOf[o]] =
               IF EndpointOf[o] \in DOMAIN @ THEN @ ELSE With(@, EndpointOf[o], EmptyEndpoint)]
  /\ overlap' = IF \E p \in Active : ProcessOf[p] = ProcessOf[o]
                THEN overlap \cup {ProcessOf[o]} ELSE overlap
  /\ Goto(o, "read")
  /\ UNCHANGED <<file, local, saving, crashes, stale, exposed>>

\* Mutant: every field is given the values of the last one.
ReadFieldLastValues(o) ==
  /\ pc[o] = "read"
  /\ LET f == FieldOrder[at[o]]
         g == FieldOrder[Len(FieldOrder)]
     IN  current' = [current EXCEPT ![o] = Mem(o)[EndpointOf[o]][f] \cup Adds[o][g]]
  /\ Goto(o, "write")
  /\ UNCHANGED <<mem, file, at, saving, crashes, notes>>

\* current = set(endpoint.get(field, [])) and current.update(values)
ReadField(o) ==
  /\ pc[o] = "read"
  /\ LET f == FieldOrder[at[o]]
     IN  current' = [current EXCEPT ![o] = Mem(o)[EndpointOf[o]][f] \cup Adds[o][f]]
  /\ Goto(o, "write")
  /\ UNCHANGED <<mem, file, at, saving, crashes, notes>>

\* endpoint[field] = sorted(current), then the next field or _save
WriteField(o) ==
  /\ pc[o] = "write"
  /\ mem' = [mem EXCEPT ![ProcessOf[o]][EndpointOf[o]][FieldOrder[at[o]]] = current[o]]
  /\ \/ /\ at[o] < Len(FieldOrder)
        /\ at' = [at EXCEPT ![o] = @ + 1]
        /\ Goto(o, "read")
     \/ /\ at[o] = Len(FieldOrder)
        /\ Goto(o, "save")
        /\ UNCHANGED at
  /\ current' = [current EXCEPT ![o] = {}]
  /\ UNCHANGED <<file, saving, crashes, notes>>

-----------------------------------------------------------------------------
(* _save: json.dump walks the live dictionaries endpoint by endpoint into  *)
(* a temporary file of its own, which then replaces the map's file.        *)

OpenTemp(o) ==
  /\ pc[o] = "save"
  /\ temp' = [temp EXCEPT ![o] = NoEndpoints]
  /\ todo' = [todo EXCEPT ![o] = DOMAIN Mem(o)]
  /\ Goto(o, "dump")
  /\ UNCHANGED <<mem, file, local, crashes, notes>>

\* Mutant: an endpoint the file has is not serialised again.
DumpCached(o) ==
  /\ pc[o] = "dump"
  /\ \E e \in todo[o] :
       /\ temp' = [temp EXCEPT ![o] = With(@, e, IF e \in DOMAIN file THEN file[e] ELSE Mem(o)[e])]
       /\ todo' = [todo EXCEPT ![o] = @ \ {e}]
  /\ UNCHANGED <<mem, file, pc, local, crashes, notes>>

DumpEndpoint(o) ==
  /\ pc[o] = "dump"
  /\ \E e \in todo[o] :
       /\ temp' = [temp EXCEPT ![o] = With(@, e, Mem(o)[e])]
       /\ todo' = [todo EXCEPT ![o] = @ \ {e}]
  /\ UNCHANGED <<mem, file, pc, local, crashes, notes>>

\* The temporary file is gone, renamed or unlinked, when _save is left.
EndSave(o, label) ==
  /\ Goto(o, label)
  /\ temp' = [temp EXCEPT ![o] = NoEndpoints]
  /\ todo' = [todo EXCEPT ![o] = {}]

Saves(o) ==
  /\ file' = temp[o]
  /\ EndSave(o, "done")
  /\ stale' = Processes \ {ProcessOf[o]}
  /\ exposed' = IF ProcessOf[o] \in stale \cup overlap
                THEN {d \in Observations : pc[d] = "done"} \cup {o} ELSE exposed
  /\ UNCHANGED <<mem, local, crashes, overlap>>

\* Mutant: the file is replaced before everything was written to it.
ReplaceEarly(o) == pc[o] = "dump" /\ Saves(o)

\* flush, fsync and os.replace
Replace(o) == pc[o] = "dump" /\ todo[o] = {} /\ Saves(o)

\* mkstemp, a write, fsync or os.replace raises: the temporary file is
\* unlinked and the error leaves observe; the map in memory stays merged.
SaveFault(o) ==
  /\ pc[o] \in {"save", "dump"}
  /\ EndSave(o, "failed")
  /\ UNCHANGED <<mem, file, local, crashes, notes>>

\* The threads of process p and their locals are gone, and so is its map.
End(p) ==
  LET gone(o) == ProcessOf[o] = p /\ o \in Active
  IN  /\ pc' = [o \in Observations |-> IF gone(o) THEN "dead" ELSE pc[o]]
      /\ at' = [o \in Observations |-> IF gone(o) THEN 1 ELSE at[o]]
      /\ current' = [o \in Observations |-> IF gone(o) THEN {} ELSE current[o]]
      /\ temp' = [o \in Observations |-> IF gone(o) THEN NoEndpoints ELSE temp[o]]
      /\ todo' = [o \in Observations |-> IF gone(o) THEN {} ELSE todo[o]]
      /\ stale' = stale \ {p}
      /\ overlap' = overlap \ {p}

\* Mutant: the new process does not read the file the old one left.
RestartEmpty(p) ==
  /\ crashes < MaxCrashes
  /\ crashes' = crashes + 1
  /\ mem' = [mem EXCEPT ![p] = NoEndpoints]
  /\ End(p)
  /\ UNCHANGED <<file, exposed>>

\* A process ends, by a crash or in good order, and the next one loads the
\* file; temporary files left behind are never read.
Restart(p) ==
  /\ crashes < MaxCrashes
  /\ crashes' = crashes + 1
  /\ mem' = [mem EXCEPT ![p] = file]
  /\ End(p)
  /\ UNCHANGED <<file, exposed>>

-----------------------------------------------------------------------------
ObserveStep(o) ==
  \/ Observe(o) \/ ReadField(o) \/ WriteField(o)
  \/ OpenTemp(o) \/ DumpEndpoint(o) \/ Replace(o) \/ SaveFault(o)

\* Every call is over and the restarts of the bound are used up.
Finished == \A o \in Observations : pc[o] \in {"done", "failed", "dead"}

Next ==
  \/ \E o \in Observations : ObserveStep(o)
  \/ \E p \in Processes : Restart(p)
  \/ Finished /\ UNCHANGED vars

Spec == Init /\ [][Next]_vars

-----------------------------------------------------------------------------
(* Properties.                                                             *)

IsMap(map) ==
  /\ DOMAIN map \subseteq {EndpointOf[o] : o \in Observations}
  /\ \A e \in DOMAIN map :
       /\ DOMAIN map[e] = Fields
       /\ \A f \in Fields : map[e][f] \subseteq UNION {Adds[o][f] : o \in Observations}

\* Values a map may show under e: added by a call for e that has begun.
Known(e, f) ==
  UNION {Adds[o][f] : o \in {p \in Observations : EndpointOf[p] = e /\ pc[p] # "idle"}}

\* Whatever threads and processes do to each other, an endpoint only ever shows
\* what was observed at that endpoint, in every memory, in the file and in every
\* file being written: no value moves to another endpoint or field, none is
\* made up.
NothingInvented ==
  \A map \in {mem[p] : p \in Processes} \cup {file} \cup {temp[o] : o \in Observations} :
    IsMap(map) /\ \A e \in DOMAIN map : \A f \in Fields : map[e][f] \subseteq Known(e, f)

Holds(map, o) ==
  /\ EndpointOf[o] \in DOMAIN map
  /\ \A f \in Fields : Adds[o][f] \subseteq map[EndpointOf[o]][f]

\* observe returned, so the observation is in the file, across failed saves and
\* restarts, until a process saves that loaded the map before another one saved
\* or that runs several calls at once.
ReturnedIsSaved ==
  \A o \in Observations : pc[o] = "done" /\ o \notin exposed => Holds(file, o)

\* Every returned observation is in the file.  Threads of the proxy break this:
\* two of them read the same list before either stores it back, or the older of
\* two snapshots is the last to replace the file.
EveryReturnIsSaved ==
  \A o \in Observations : pc[o] = "done" => Holds(file, o)

Grows(old, new) ==
  \A e \in DOMAIN old : e \in DOMAIN new /\ \A f \in Fields : old[e][f] \subseteq new[e][f]

\* What the file says of an endpoint is only ever taken back by a save of a
\* process that is stale or runs several calls at once, never by a failed save,
\* a restart or a process that loaded the file after the others had saved.
FileOnlyGrows ==
  [][\/ Grows(file, file')
     \/ \E o \in Observations :
          pc'[o] # pc[o] /\ pc'[o] = "done" /\ ProcessOf[o] \in stale \cup overlap]_vars

\* A thread that has its endpoint to itself loses nothing to the others in
\* memory: from the moment it starts to save, until the process is replaced.
OwnEndpointKept ==
  \A o \in Observations :
    /\ pc[o] \in {"save", "dump"}
    /\ \A p \in Observations \ {o} :
         ProcessOf[p] = ProcessOf[o] => EndpointOf[p] # EndpointOf[o]
    => Holds(Mem(o), o) /\ (pc[o] = "dump" /\ EndpointOf[o] \notin todo[o] => Holds(temp[o], o))
=============================================================================
