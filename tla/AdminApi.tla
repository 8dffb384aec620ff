------------------------------ MODULE AdminApi ------------------------------
(***************************************************************************)
(* The admin API (internal/api/router.go) over the registry and the JSON   *)
(* store (internal/store/store.go): several requests in flight, each a     *)
(* sequence of critical sections of the store's and the registry's mutex,  *)
(* with save errors, crashes and restarts in between.                      *)
(*                                                                         *)
(* The store keeps the same *Backend objects as the registry, so its list  *)
(* is a set of ids and what it writes is whatever the live objects hold    *)
(* when it marshals them.  updateBackend edits the live object under no    *)
(* lock, field by field; two halves are enough to see it half done.        *)
(* os.WriteFile truncates the file before it writes, so a failed or        *)
(* interrupted save can leave a file that is no JSON: Torn.                *)
(*                                                                         *)
(* Health rounds are left out: all they do to shared state is publish      *)
(* again (RegistryProofs, ProbesAreLost), as SnapshotRefresh does.         *)
(***************************************************************************)
EXTENDS Registry

CONSTANTS
  Admins,      \* admin requests that can be in flight together
  Strategies,  \* strategy names
  Mapped,      \* BOUND: the models strategies are set for
  NoStrategy,  \* no entry for a model
  Torn,        \* the content of a half-written state file
  NoInput,     \* the payload of a request without one
  Unknown,     \* nothing was promised about a backend
  Faults,      \* which faults occur: "error", "torn", "crash", "crash in save"
  Serialized   \* whether requests on one backend are sent one after another

ASSUME NoInputAssumption == NoInput \notin BackendInput
ASSUME FaultsAssumption  == Faults \subseteq {"error", "torn", "crash", "crash in save"}
ASSUME MappedAssumption == Mapped \subseteq Models
ASSUME SerializedAssumption == Serialized \in BOOLEAN

VARIABLES
  stored,      \* the ids of storeData.Backends
  strategies,  \* storeData.Strategies: model -> name
  cache,       \* strategyCache in main, refreshed every five seconds
  file,        \* proxy_state.json
  up,          \* whether the process runs
  call,        \* admin -> where its request is
  acked        \* HISTORY: id -> the configuration last acknowledged to a client

storeVars == <<stored, strategies, file>>
adminVars == <<stored, strategies, cache, file, up, call, acked>>
allVars   == <<vars, adminVars>>

Idle == [step |-> "idle"]
At(step, id, in) == [step |-> step, id |-> id, in |-> in]

Busy(id) == \E a \in Admins : call[a] # Idle /\ call[a].id = id

\* What an admin configures of a backend.
Configs == [ endpoint : Endpoints, key : Keys \union {NoKey},
             models : SUBSET Models, balance : Int ]

\* What the state file holds when it can be read.
StateFile == [ backends   : [Ids -> Backend \union {NoBackend}],
               strategies : [Models -> Strategies \union {NoStrategy}] ]

ASSUME TornAssumption == Torn \notin StateFile
ASSUME UnknownAssumption == Unknown \notin Configs /\ NoBackend \notin Configs

Config(b) ==
  IF b = NoBackend THEN NoBackend
  ELSE [endpoint |-> b.endpoint, key |-> b.key,
        models |-> b.models, balance |-> b.balance]

-----------------------------------------------------------------------------
(* The store                                                               *)

\* save: marshal the objects as they are now.  ConsecutiveFails is not saved.
Image(heap, ids, names) ==
  [backends   |-> [id \in Ids |-> IF id \in ids THEN [heap[id] EXCEPT !.fails = 0]
                                  ELSE NoBackend],
   strategies |-> names]

\* A save that succeeds.
SaveOk(heap, ids, names) == file' = Image(heap, ids, names) /\ up' = up

\* One that fails before or after the file was truncated.
SaveError ==
  /\ \/ "error" \in Faults /\ file' = file
     \/ "torn" \in Faults /\ file' = Torn
  /\ up' = up

\* The handler answers 500: what it did to memory stays, the client is
\* promised nothing.
Fail(a, id) ==
  /\ SaveError
  /\ call' = [call EXCEPT ![a] = Idle]
  /\ acked' = [acked EXCEPT ![id] = Unknown]

\* The client gets its 200 or 201 for this configuration.
Acknowledge(a, id, config) ==
  /\ call' = [call EXCEPT ![a] = Idle]
  /\ acked' = [acked EXCEPT ![id] = config]

\* A new request, one per backend at a time if clients take turns.
Accept(a, id) == up /\ call[a] = Idle /\ (Serialized => ~ Busy(id))

\* Mutant: the error of a failed save is ignored.
SaveThenIgnored(a, heap, ids, next) ==
  /\ stored' = ids
  /\ SaveOk(heap, ids, strategies) \/ SaveError
  /\ call' = [call EXCEPT ![a] = next]
  /\ acked' = [acked EXCEPT ![next.id] = Unknown]
  /\ UNCHANGED <<strategies, cache>>

\* SaveBackend or DeleteBackend, then on to the registry or out with an error.
\* Until the answer nothing is promised about the backend.
SaveThen(a, heap, ids, next) ==
  /\ stored' = ids
  /\ \/ /\ SaveOk(heap, ids, strategies)
        /\ call' = [call EXCEPT ![a] = next]
        /\ acked' = [acked EXCEPT ![next.id] = Unknown]
     \/ Fail(a, next.id)
  /\ UNCHANGED <<strategies, cache>>

-----------------------------------------------------------------------------
(* POST /api/backends                                                      *)

CreateSave(a, id, in) ==
  LET heap == [obj EXCEPT ![id] = NewBackend(in)]
  IN  /\ Accept(a, id)
      /\ obj[id] = NoBackend
      /\ obj' = heap
      /\ SaveThen(a, heap, stored \union {id}, At("create_add", id, in))
      /\ UNCHANGED <<registered, runtimes, byModel, snapshot, probeVars>>

CreateAdd(a) ==
  LET id == call[a].id
  IN  /\ call[a].step = "create_add"
      /\ Add(obj, id)
      /\ Acknowledge(a, id, Config(NewBackend(call[a].in)))
      /\ UNCHANGED <<obj, probeVars, storeVars, cache, up>>

(* PUT /api/backends/{id}.  GetLive reads the map without the mutex; an    *)
(* unknown id is answered 404 and changes nothing.                         *)

\* Mutant: finds the object of a removed backend too.
UpdateLookupAny(a, id, in) ==
  /\ Accept(a, id)
  /\ obj[id] # NoBackend
  /\ call' = [call EXCEPT ![a] = At("update_endpoint", id, in)]
  /\ acked' = [acked EXCEPT ![id] = Unknown]
  /\ UNCHANGED <<vars, storeVars, cache, up>>

UpdateLookup(a, id, in) ==
  /\ Accept(a, id)
  /\ id \in registered
  /\ call' = [call EXCEPT ![a] = At("update_endpoint", id, in)]
  /\ acked' = [acked EXCEPT ![id] = Unknown]
  /\ UNCHANGED <<vars, storeVars, cache, up>>

UpdateEndpoint(a) ==
  LET id == call[a].id
  IN  /\ call[a].step = "update_endpoint"
      /\ obj' = [obj EXCEPT ![id] = SetEndpoint(@, call[a].in)]
      /\ call' = [call EXCEPT ![a].step = "update_rest"]
      /\ UNCHANGED <<registered, runtimes, byModel, snapshot, probeVars,
                     storeVars, cache, up, acked>>

\* Mutant: a record rebuilt from the payload instead of edited in place.
UpdateRestRebuilt(a) ==
  LET id == call[a].id
  IN  /\ call[a].step = "update_rest"
      /\ obj' = [obj EXCEPT ![id] = NewBackend(call[a].in)]
      /\ call' = [call EXCEPT ![a].step = "update_save"]
      /\ UNCHANGED <<registered, runtimes, byModel, snapshot, probeVars,
                     storeVars, cache, up, acked>>

UpdateRest(a) ==
  LET id == call[a].id
  IN  /\ call[a].step = "update_rest"
      /\ obj' = [obj EXCEPT ![id] = SetRest(@, call[a].in)]
      /\ call' = [call EXCEPT ![a].step = "update_save"]
      /\ UNCHANGED <<registered, runtimes, byModel, snapshot, probeVars,
                     storeVars, cache, up, acked>>

\* SaveBackend inserts a backend that is not in the store.
UpdateSave(a) ==
  LET id == call[a].id
  IN  /\ call[a].step = "update_save"
      /\ SaveThen(a, obj, stored \union {id}, At("update_add", id, call[a].in))
      /\ UNCHANGED vars

\* Add registers a backend that is not registered.  What the client asked for
\* is its payload, with the key it left out taken from the object.
UpdateAdd(a) ==
  LET id == call[a].id
  IN  /\ call[a].step = "update_add"
      /\ Add(obj, id)
      /\ Acknowledge(a, id, Config(SetRest(SetEndpoint(obj[id], call[a].in), call[a].in)))
      /\ UNCHANGED <<obj, probeVars, storeVars, cache, up>>

(* DELETE /api/backends/{id}                                               *)

\* Mutant: an unknown id is saved too and the list is left alone.
DeleteStoreKept(a, id) ==
  /\ Accept(a, id)
  /\ SaveThen(a, obj, stored, At("delete_remove", id, NoInput))
  /\ UNCHANGED vars

\* DeleteBackend does not save when the store does not know the id.
DeleteStore(a, id) ==
  /\ Accept(a, id)
  /\ IF id \in stored
     THEN SaveThen(a, obj, stored \ {id}, At("delete_remove", id, NoInput))
     ELSE /\ call' = [call EXCEPT ![a] = At("delete_remove", id, NoInput)]
          /\ acked' = [acked EXCEPT ![id] = Unknown]
          /\ UNCHANGED <<storeVars, cache, up>>
  /\ UNCHANGED vars

\* Remove does nothing for an id that is not registered; the answer is 200.
DeleteRemove(a) ==
  LET id == call[a].id
  IN  /\ call[a].step = "delete_remove"
      /\ Remove(id) \/ (id \notin registered /\ UNCHANGED vars)
      /\ Acknowledge(a, id, NoBackend)
      /\ UNCHANGED <<storeVars, cache, up>>

(* POST /api/strategies: one critical section, which saves the backends    *)
(* too.  A failed save leaves the new name in memory.                      *)

SetStrategy(m, name) ==
  LET names == [strategies EXCEPT ![m] = name]
  IN  /\ up
      /\ strategies' = names
      /\ SaveOk(obj, stored, names) \/ SaveError
      /\ UNCHANGED <<vars, stored, cache, call, acked>>

\* The refresh loop in main.
CacheRefresh ==
  /\ up
  /\ cache' = strategies
  /\ UNCHANGED <<vars, storeVars, up, call, acked>>

-----------------------------------------------------------------------------
(* Crashes and restarts                                                    *)

\* The requests in flight are never answered.
Down ==
  /\ up' = FALSE
  /\ call' = [a \in Admins |-> Idle]
  /\ acked' = [id \in Ids |-> IF Busy(id) THEN Unknown ELSE acked[id]]
  /\ UNCHANGED <<vars, stored, strategies, cache>>

Crash == "crash" \in Faults /\ up /\ Down /\ file' = file

\* The process dies when a save, of a strategy if of nothing else, has
\* truncated the file and not yet written it.
CrashInSave == "crash in save" \in Faults /\ up /\ Down /\ file' = Torn

\* Mutant: the store keeps its list and only the registry is loaded.
RestartKeepsList ==
  /\ ~ up
  /\ file # Torn
  /\ LET l == Load(file.backends)
     IN  /\ obj' = l.obj /\ registered' = l.registered /\ byModel' = l.byModel
         /\ runtimes' = l.runtimes /\ snapshot' = l.snapshot
  /\ strategies' = file.strategies
  /\ cache' = file.strategies
  /\ up' = TRUE
  /\ UNCHANGED <<probeVars, stored, file, call, acked>>

Restart ==
  /\ ~ up
  /\ file # Torn
  /\ LET l == Load(file.backends)
     IN  /\ obj' = l.obj /\ registered' = l.registered /\ byModel' = l.byModel
         /\ runtimes' = l.runtimes /\ snapshot' = l.snapshot
         /\ stored' = l.registered
  /\ strategies' = file.strategies
  /\ cache' = file.strategies
  /\ up' = TRUE
  /\ UNCHANGED <<probeVars, file, call, acked>>

\* json.Unmarshal fails, log.Fatalf exits, the supervisor tries again.
FailedStart == ~ up /\ file = Torn /\ UNCHANGED allVars

-----------------------------------------------------------------------------
AdminInit ==
  /\ \E f \in Loads :
       /\ obj = f /\ snapshot = Load(f).snapshot
       /\ registered = Load(f).registered /\ byModel = Load(f).byModel
       /\ runtimes = Load(f).runtimes
       /\ stored = Load(f).registered
       /\ file = [backends |-> f, strategies |-> [m \in Models |-> NoStrategy]]
       /\ acked = [id \in Ids |-> Config(f[id])]
  /\ list = NoBackends /\ pending = {}
  /\ strategies = [m \in Models |-> NoStrategy] /\ cache = strategies
  /\ up = TRUE
  /\ call = [a \in Admins |-> Idle]

\* The registry's own activity while the process runs.
Serve == up /\ (Traffic \/ SnapshotRefresh) /\ UNCHANGED adminVars

Request ==
  \E a \in Admins :
    \/ \E id \in Ids, in \in Inputs : CreateSave(a, id, in) \/ UpdateLookup(a, id, in)
    \/ \E id \in Ids : DeleteStore(a, id)

Proceed(a) ==
  \/ CreateAdd(a) \/ UpdateEndpoint(a) \/ UpdateRest(a) \/ UpdateSave(a)
  \/ UpdateAdd(a) \/ DeleteRemove(a)

AdminNext ==
  \/ Request
  \/ \E a \in Admins : Proceed(a)
  \/ \E m \in Mapped, name \in Strategies : SetStrategy(m, name)
  \/ CacheRefresh
  \/ Serve
  \/ Crash \/ CrashInSave \/ Restart \/ FailedStart

AdminSpec == AdminInit /\ [][AdminNext]_allVars

-----------------------------------------------------------------------------
Steps == {"create_add", "update_endpoint", "update_rest", "update_save",
          "update_add", "delete_remove"}

\* Types, and the objects that must exist: the store's list and the requests
\* past their first step never point to nothing while the process runs.
AdminTypeOK ==
  /\ TypeOK
  /\ stored \subseteq Ids
  /\ strategies \in [Models -> Strategies \union {NoStrategy}]
  /\ cache \in [Models -> Strategies \union {NoStrategy}]
  /\ file \in StateFile \union {Torn}
  /\ up \in BOOLEAN
  /\ call \in [Admins -> {Idle} \union
                  [step : Steps, id : Ids, in : Inputs \union {NoInput}]]
  /\ acked \in [Ids -> Configs \union {NoBackend, Unknown}]
  /\ \A id \in stored : obj[id] # NoBackend
  /\ \A a \in Admins : call[a] # Idle /\ call[a].in # NoInput
                        => obj[call[a].id] # NoBackend

(***************************************************************************)
(* When saves succeed and clients take turns on a backend, the four copies *)
(* of a backend nobody is working on agree: the store's list, the          *)
(* registry, the published clone and the state file, and the index leads   *)
(* to it.  Whatever the requests on other backends do, and wherever the    *)
(* process crashed before.                                                 *)
(***************************************************************************)
Agree ==
  up => /\ file.strategies = strategies
        /\ \A id \in Ids : ~ Busy(id) =>
             /\ id \in stored <=> id \in registered
             /\ Config(Published(id)) = Config(file.backends[id])
             /\ Published(id) # NoBackend =>
                  \A m \in Published(id).models : id \in snapshot.byModel[m]

(***************************************************************************)
(* What a client was told is what a restart will load: as long as the file *)
(* can be read at all, it holds the last acknowledged configuration of     *)
(* every backend on which no later request failed or was cut off.  A       *)
(* failed request on another backend, whose changes stay in memory and     *)
(* enter the file with the next save, does not take it away.               *)
(***************************************************************************)
DurableAck ==
  file # Torn =>
    \A id \in Ids : acked[id] \in Configs =>
      Config(file.backends[id]) = acked[id]

(***************************************************************************)
(* "DeleteBackend removes a backend by ID" (store.go:80): a delete that    *)
(* was answered 200 is not undone by a restart.                            *)
(***************************************************************************)
DeleteIsDurable ==
  file # Torn =>
    \A id \in Ids : acked[id] = NoBackend => file.backends[id] = NoBackend

(***************************************************************************)
(* While the process runs no edit gives consumed tokens back ("Read from   *)
(* registry to get live TokenUsed, not stale store value", router.go:168). *)
(***************************************************************************)
TokensNeverRefunded ==
  [][up /\ up' => \A id \in Ids : obj[id] # NoBackend =>
                    obj'[id] # NoBackend /\ obj'[id].used >= obj[id].used]_allVars

(***************************************************************************)
(* "Remove removes a backend by ID" (registry.go:70), and PUT answers 404  *)
(* for one that does not exist (router.go:170): a backend that is not      *)
(* registered is registered only by its creation or by a start.            *)
(***************************************************************************)
DeletedStaysDeleted ==
  [][\A id \in registered' \ registered :
       \/ ~ up
       \/ \E a \in Admins : call[a] # Idle /\ call[a].step = "create_add"
                            /\ call[a].id = id]_allVars
=============================================================================
