----------------------------- MODULE Registry ------------------------------
(***************************************************************************)
(* The backend registry (internal/backend/registry.go): the live backend   *)
(* objects behind one mutex, the model index, and the deep-copied snapshot *)
(* that every request handler reads without a lock.                        *)
(*                                                                         *)
(* Backends are Go pointers.  The registry, the store and an admin handler *)
(* that edits a backend all hold the SAME object, and an id names one      *)
(* object for ever (ids are fresh UUIDs), so the heap is a function of the *)
(* id.  The clones in a snapshot are other objects: List() hands the       *)
(* health checker clones, and what it writes to them it does not write to  *)
(* the heap.                                                               *)
(*                                                                         *)
(* Each action is one critical section of Registry.mu.  This module is the *)
(* registry as its contract wants it used: a caller that edits a live      *)
(* object does so "while holding r.mu (or for single-threaded mutation)",  *)
(* so Update edits and re-adds in one step.  AdminApi drops that promise.  *)
(***************************************************************************)
EXTENDS Backend

CONSTANTS
  Inputs,      \* the admin payloads that are sent
  Loads,       \* the contents the state file may have at startup
  Headers,     \* the rate-limit headers responses carry
  Counts,      \* the token counts a response may report
  MaxFails,    \* failed probes before a backend is degraded
  Dead,        \* backends that answer no probe
  MaxUsed      \* BOUND: tokens recorded for one backend

ASSUME InputsAssumption  == Inputs \subseteq BackendInput
ASSUME LoadsAssumption   ==
  /\ Loads \subseteq [Ids -> Backend \union {NoBackend}]
  /\ \A f \in Loads : \A id \in Ids : f[id] # NoBackend => f[id].fails = 0
ASSUME HeadersAssumption == Headers \subseteq RateHeaders
ASSUME CountsAssumption  == Counts \subseteq Nat \ {0}
ASSUME FailsAssumption   == MaxFails \in Nat /\ MaxFails >= 2
ASSUME DeadAssumption    == Dead \subseteq Ids
ASSUME MaxUsedAssumption == MaxUsed \in Nat

NoRuntime == -1

VARIABLES
  obj,         \* the heap: id -> *Backend, NoBackend before it is created
  registered,  \* the keys of Registry.backends
  runtimes,    \* id -> Runtime.TokensUsed, NoRuntime when there is no Runtime
  byModel,     \* model -> ids, the live index
  snapshot,    \* the published registrySnapshot
  list,        \* the clones the current probe round ranges over (their health)
  pending      \* those the round has not probed yet

vars == <<obj, registered, runtimes, byModel, snapshot, list, pending>>

regVars == <<obj, registered, runtimes, byModel, snapshot>>
probeVars == <<list, pending>>

-----------------------------------------------------------------------------
NoBackends == [id \in Ids |-> NoBackend]

\* Mutant: an incremental copy that keeps the clones it already has.
StaleClones(heap, ids) ==
  [id \in Ids |-> IF id \notin ids THEN NoBackend
                  ELSE IF snapshot.backends[id] # NoBackend
                  THEN snapshot.backends[id] ELSE heap[id]]

\* updateSnapshot: clone what is registered, copy the index.
Clones(heap, ids) == [id \in Ids |-> IF id \in ids THEN heap[id] ELSE NoBackend]

Publish(heap, ids, index) ==
  snapshot' = [backends |-> Clones(heap, ids), byModel |-> index]

\* Mutant: the new models first, then the removal of the old ones.
ReindexSwapped(index, id, old, new) ==
  [m \in Models |-> IF m \in old THEN index[m] \ {id}
                    ELSE IF m \in new THEN index[m] \union {id}
                    ELSE index[m]]

\* removeFromModelIndex for the old models, then appendIfMissing for the new.
\* An index entry has no duplicates, so it is a set here.
Reindex(index, id, old, new) ==
  [m \in Models |-> IF m \in new THEN index[m] \union {id}
                    ELSE IF m \in old THEN index[m] \ {id}
                    ELSE index[m]]

\* Add: `existing` is the registered object, which is heap[id] itself.
Add(heap, id) ==
  LET old   == IF id \in registered THEN heap[id].models ELSE {}
      index == Reindex(byModel, id, old, heap[id].models)
  IN  /\ registered' = registered \union {id}
      /\ byModel' = index
      /\ runtimes' = IF id \in registered THEN runtimes
                     ELSE [runtimes EXCEPT ![id] = 0]
      /\ Publish(heap, registered \union {id}, index)

\* Mutant: leaves the publication to the periodic refresh.
RemoveUnpublished(id) ==
  /\ id \in registered
  /\ registered' = registered \ {id}
  /\ byModel' = Reindex(byModel, id, obj[id].models, {})
  /\ runtimes' = [runtimes EXCEPT ![id] = NoRuntime]
  /\ UNCHANGED <<obj, snapshot, probeVars>>

\* Remove: nothing happens, and nothing is published, for an unknown id.
Remove(id) ==
  LET index == Reindex(byModel, id, obj[id].models, {})
  IN  /\ id \in registered
      /\ registered' = registered \ {id}
      /\ byModel' = index
      /\ runtimes' = [runtimes EXCEPT ![id] = NoRuntime]
      /\ Publish(obj, registered \ {id}, index)
      /\ UNCHANGED <<obj, probeVars>>

\* UpdateFromSlice and DecryptKeys at startup, from the loaded state file.
Load(f) ==
  LET ids   == {id \in Ids : f[id] # NoBackend}
      index == [m \in Models |-> {id \in ids : m \in f[id].models}]
  IN  [obj |-> f, registered |-> ids, byModel |-> index,
       runtimes |-> [id \in Ids |-> IF id \in ids THEN 0 ELSE NoRuntime],
       snapshot |-> [backends |-> f, byModel |-> index]]

Init ==
  \E f \in Loads :
    /\ obj = Load(f).obj
    /\ registered = Load(f).registered
    /\ byModel = Load(f).byModel
    /\ runtimes = Load(f).runtimes
    /\ snapshot = Load(f).snapshot
    /\ list = NoBackends
    /\ pending = {}

-----------------------------------------------------------------------------
(* Admin operations, as the registry's contract wants them.                *)

Create(id, in) ==
  LET heap == [obj EXCEPT ![id] = NewBackend(in)]
  IN  /\ obj[id] = NoBackend
      /\ obj' = heap
      /\ Add(heap, id)
      /\ UNCHANGED probeVars

Update(id, in) ==
  LET heap == [obj EXCEPT ![id] = SetRest(SetEndpoint(@, in), in)]
  IN  /\ id \in registered
      /\ obj' = heap
      /\ Add(heap, id)
      /\ UNCHANGED probeVars

(* What a finished request reports; the snapshot is not refreshed here.    *)

RecordTokens(id, n) ==
  /\ id \in registered
  /\ obj[id].used + n <= MaxUsed
  /\ obj' = [obj EXCEPT ![id].used = @ + n]
  /\ runtimes' = [runtimes EXCEPT ![id] = @ + n]
  /\ UNCHANGED <<registered, byModel, snapshot, probeVars>>

CaptureRateLimits(id, h) ==
  /\ id \in registered
  /\ obj' = [obj EXCEPT ![id] = CaptureRateLimitHeaders(@, h)]
  /\ UNCHANGED <<registered, runtimes, byModel, snapshot, probeVars>>

(* StartSnapshotRefresh: one tick.                                         *)
SnapshotRefresh ==
  /\ Publish(obj, registered, byModel)
  /\ UNCHANGED <<obj, registered, runtimes, byModel, probeVars>>

(* StartHealthChecks: a tick lists the published clones; the round probes  *)
(* them one by one, in map order, and marks each CLONE, which stays in the *)
(* list until the round is over.  Of a clone only its health matters.      *)

HealthTick ==
  /\ pending = {}
  /\ list' = [id \in Ids |-> IF snapshot.backends[id] = NoBackend THEN NoBackend
                             ELSE Health(snapshot.backends[id])]
  /\ pending' = {id \in Ids : snapshot.backends[id] # NoBackend}
  /\ UNCHANGED regVars

\* Mutant: the verdict reaches the live object.
MarkLive(id, clone) ==
  /\ id \in pending
  /\ list' = IF pending = {id} THEN NoBackends ELSE [list EXCEPT ![id] = clone]
  /\ pending' = pending \ {id}
  /\ obj' = IF id \in registered
            THEN [obj EXCEPT ![id].fails = clone.fails, ![id].status = clone.status]
            ELSE obj
  /\ Publish(obj', registered, byModel)
  /\ UNCHANGED <<registered, runtimes, byModel>>

Mark(id, clone) ==
  /\ id \in pending
  /\ list' = IF pending = {id} THEN NoBackends ELSE [list EXCEPT ![id] = clone]
  /\ pending' = pending \ {id}
  /\ Publish(obj, registered, byModel)
  /\ UNCHANGED <<obj, registered, runtimes, byModel>>

ProbeSuccess(id) == id \notin Dead /\ Mark(id, MarkSuccess(list[id]))

ProbeFailure(id) == Mark(id, MarkFailure(list[id], MaxFails))

-----------------------------------------------------------------------------
Admin ==
  \/ \E id \in Ids, in \in Inputs : Create(id, in) \/ Update(id, in)
  \/ \E id \in Ids : Remove(id)

Traffic ==
  \/ \E id \in Ids, n \in Counts : RecordTokens(id, n)
  \/ \E id \in Ids, h \in Headers : CaptureRateLimits(id, h)

Probe == \E id \in Ids : ProbeSuccess(id) \/ ProbeFailure(id)

Next == Admin \/ Traffic \/ SnapshotRefresh \/ HealthTick \/ Probe

Spec == Init /\ [][Next]_vars

\* The two background goroutines tick until shutdown, and a probe returns
\* within its ten second deadline.  Nothing is owed by admins or clients.
FairSpec ==
  /\ Spec
  /\ WF_vars(SnapshotRefresh)
  /\ WF_vars(HealthTick)
  /\ WF_vars(Probe)

-----------------------------------------------------------------------------
Snapshot ==
  [ backends : [Ids -> Backend \union {NoBackend}],
    byModel  : [Models -> SUBSET Ids] ]

TypeOK ==
  /\ obj \in [Ids -> Backend \union {NoBackend}]
  /\ registered \subseteq Ids
  /\ runtimes \in [Ids -> Nat \union {NoRuntime}]
  /\ byModel \in [Models -> SUBSET Ids]
  /\ snapshot \in Snapshot
  /\ list \in [Ids -> HealthRecord \union {NoBackend}]
  /\ pending \subseteq Ids

Published(id) == snapshot.backends[id]

(***************************************************************************)
(* The published snapshot never hides a backend: every model a published   *)
(* backend lists leads to it through the published index, so GetForModel   *)
(* finds it.  Add must reindex before it publishes, and a Remove of one    *)
(* backend must not take another's entry with it.                          *)
(***************************************************************************)
IndexCovers ==
  \A id \in Ids : Published(id) # NoBackend =>
    \A m \in Published(id).models : id \in snapshot.byModel[m]

(***************************************************************************)
(* The lock-free reader lags and never leads: it sees only registered      *)
(* backends, and never more consumed tokens than the live object has.  A   *)
(* budget decision made on a snapshot can be late, never premature.        *)
(***************************************************************************)
SnapshotLags ==
  \A id \in Ids : Published(id) # NoBackend =>
    /\ id \in registered
    /\ Published(id).used <= obj[id].used

(***************************************************************************)
(* Of two snapshots a reader loads, the second is never the older one      *)
(* (atomic.Pointer, registry.go:46): no backend has fewer tokens consumed  *)
(* in it, and one that was removed is not back.                            *)
(***************************************************************************)
ViewGoesForward ==
  [][\A id \in Ids :
       /\ (Published(id) # NoBackend /\ Published(id)' # NoBackend)
            => Published(id).used <= Published(id)'.used
       /\ (Published(id) = NoBackend /\ obj[id] # NoBackend)
            => Published(id)' = NoBackend]_vars

(***************************************************************************)
(* A probe verdict is written to a clone that the next publication throws  *)
(* away: failures never accumulate, neither in the heap nor in the clones  *)
(* of a round, so (MaxFails being at least two) no live or published       *)
(* status ever changes after startup.                                      *)
(***************************************************************************)
FailsNeverAccumulate ==
  /\ \A id \in Ids : obj[id] # NoBackend => obj[id].fails = 0
  /\ \A id \in Ids : Published(id) # NoBackend =>
       Published(id).fails = 0 /\ Published(id).status = obj[id].status
  /\ \A id \in Ids : list[id] # NoBackend => list[id].fails <= 1

(***************************************************************************)
(* The asynchronous refresh catches up: tokens recorded for a backend      *)
(* reach the snapshot the handlers filter on, unless it is removed.        *)
(***************************************************************************)
TokensGetPublished ==
  \A id \in Ids : \A n \in 1..MaxUsed :
    (id \in registered /\ obj[id].used >= n)
      ~> (id \notin registered
          \/ (Published(id) # NoBackend /\ Published(id).used >= n))

(***************************************************************************)
(* "Automatic degradation (active -> degraded -> disabled)" (README.md:36, *)
(* under "Health checks"): a backend that answers no probe does not stay   *)
(* published as active.                                                    *)
(***************************************************************************)
DeadIsDegraded ==
  \A id \in Dead :
    id \in registered ~> (Published(id) = NoBackend
                          \/ Published(id).status # "active")
=============================================================================
