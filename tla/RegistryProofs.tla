--------------------------- MODULE RegistryProofs ---------------------------
(***************************************************************************)
(* Proofs about Registry, for every set of backends, models, payloads and  *)
(* state files.                                                            *)
(*                                                                         *)
(* The published snapshot is a copy of the live state taken under the      *)
(* mutex, so what holds of the live state at every publication (Live)      *)
(* holds of the snapshot, and the steps between two publications disturb   *)
(* only what SnapshotLags allows.  The invariant therefore strengthens the *)
(* checked ones with the same facts about the live state, and with what a  *)
(* health round knows of the clones it has not probed yet.                 *)
(***************************************************************************)
EXTENDS Registry, BackendProofs

\* The live state, under the mutex.
Live ==
  /\ \A id \in registered : obj[id] # NoBackend /\ runtimes[id] # NoRuntime
  /\ \A id \in registered : \A m \in obj[id].models : id \in byModel[m]
  /\ \A id \in Ids : obj[id] # NoBackend => obj[id].fails = 0

\* The published snapshot against the live state.
Seen ==
  /\ IndexCovers
  /\ SnapshotLags
  /\ \A id \in Ids : Published(id) # NoBackend =>
       Published(id).fails = 0 /\ Published(id).status = obj[id].status

\* The clones of the current health round.
Round ==
  /\ \A id \in pending : list[id] # NoBackend /\ list[id].fails = 0
  /\ \A id \in Ids : list[id] # NoBackend => list[id].fails <= 1

\* What is registered is published, at once.
Shown == \A id \in registered : Published(id) # NoBackend

IInv == TypeOK /\ Live /\ Seen /\ Round

-----------------------------------------------------------------------------
\* A probe adds at most one failure to the clone it was given.
LEMMA MarkFacts ==
  ASSUME NEW c \in HealthRecord, c.fails = 0
  PROVE  /\ MarkSuccess(c) \in HealthRecord /\ MarkSuccess(c).fails <= 1
         /\ MarkFailure(c, MaxFails) \in HealthRecord
         /\ MarkFailure(c, MaxFails).fails <= 1
<1>1. MarkSuccess(c) \in HealthRecord /\ MarkSuccess(c).fails = 0
  BY DEF MarkSuccess, HealthRecord, Status
<1>2. MarkFailure(c, MaxFails) \in HealthRecord
      /\ MarkFailure(c, MaxFails).fails = 1
  <2> DEFINE n == c.fails + 1
  <2>1. n = 1 /\ ~ (n >= 3 * MaxFails) /\ ~ (n >= MaxFails)
    BY FailsAssumption
  <2>2. MarkFailure(c, MaxFails) = [c EXCEPT !.fails = n, !.status = c.status]
    BY <2>1, Zenon DEF MarkFailure
  <2>3. MarkFailure(c, MaxFails) = [status |-> c.status, fails |-> 1]
    BY <2>1, <2>2 DEF HealthRecord
  <2> QED BY <2>3 DEF HealthRecord
<1> QED BY <1>1, <1>2

-----------------------------------------------------------------------------
(* Steps that publish: what the live state promises, the snapshot shows.   *)

LiveType ==
  /\ obj \in [Ids -> Backend \union {NoBackend}]
  /\ registered \subseteq Ids
  /\ runtimes \in [Ids -> Nat \union {NoRuntime}]
  /\ byModel \in [Models -> SUBSET Ids]

LEMMA PublishSeen ==
  ASSUME LiveType', Live', Publish(obj', registered', byModel')
  PROVE  snapshot' \in Snapshot /\ Seen'
<1> DEFINE clones == Clones(obj', registered')
<1>1. /\ snapshot'.backends = clones
      /\ snapshot'.byModel = byModel'
      /\ snapshot' = [backends |-> clones, byModel |-> byModel']
  BY DEF Publish
<1>2. \A id \in Ids : clones[id] # NoBackend =>
        id \in registered' /\ clones[id] = obj'[id]
  BY DEF Clones
<1>3. clones \in [Ids -> Backend \union {NoBackend}]
  BY DEF Clones, LiveType
<1> HIDE DEF clones
<1>4. snapshot' \in Snapshot
  BY <1>1, <1>3 DEF Snapshot, LiveType
<1>5. IndexCovers'
  BY <1>1, <1>2 DEF IndexCovers, Published, Live
<1>6. SnapshotLags'
  <2> SUFFICES ASSUME NEW id \in Ids, clones[id] # NoBackend
               PROVE  id \in registered' /\ clones[id].used <= obj'[id].used
    BY <1>1 DEF SnapshotLags, Published
  <2>1. obj'[id] \in Backend
    BY <1>2 DEF LiveType
  <2> QED BY <2>1, <1>2, BackendFields
<1>7. (\A id \in Ids : Published(id) # NoBackend =>
         Published(id).fails = 0 /\ Published(id).status = obj[id].status)'
  BY <1>1, <1>2 DEF Published, Live
<1> QED BY <1>4, <1>5, <1>6, <1>7 DEF Seen

\* The index after an edit: the new models lead to the backend, and no other
\* backend loses an entry.
LEMMA ReindexFacts ==
  ASSUME NEW index \in [Models -> SUBSET Ids], NEW id \in Ids,
         NEW old, NEW new \in SUBSET Models
  PROVE  LET r == Reindex(index, id, old, new)
         IN  /\ r \in [Models -> SUBSET Ids]
             /\ \A m \in new : id \in r[m]
             /\ \A m \in Models, j \in Ids : j # id /\ j \in index[m] => j \in r[m]
BY DEF Reindex

\* Add(heap, id) keeps the invariant whenever the heap gained one healthy
\* backend in place of id, with the status id had if it was registered.
LEMMA AddPreserves ==
  ASSUME IInv, NEW id \in Ids, NEW b \in Backend, b.fails = 0,
         obj' = [obj EXCEPT ![id] = b], Add(obj', id), UNCHANGED probeVars
  PROVE  IInv'
<1> USE DEF IInv
<1> DEFINE old == IF id \in registered THEN obj'[id].models ELSE {}
<1>1. obj'[id] = b /\ b # NoBackend
  BY NoBackendAssumption DEF TypeOK
<1>2. /\ registered' = registered \union {id}
      /\ byModel' = Reindex(byModel, id, old, b.models)
      /\ runtimes' = IF id \in registered THEN runtimes
                     ELSE [runtimes EXCEPT ![id] = 0]
      /\ Publish(obj', registered', byModel')
  BY <1>1 DEF Add
<1>3. b.models \in SUBSET Models
  BY DEF Backend
<1> HIDE DEF old
<1>4. /\ byModel' \in [Models -> SUBSET Ids]
      /\ \A m \in b.models : id \in byModel'[m]
      /\ \A m \in Models, j \in Ids : j # id /\ j \in byModel[m] => j \in byModel'[m]
  BY <1>2, <1>3, ReindexFacts DEF TypeOK
<1>5. LiveType'
  BY <1>2, <1>4 DEF LiveType, TypeOK
<1>6. Live'
  <2>1. \A j \in registered' : obj'[j] # NoBackend
    BY <1>1, <1>2 DEF Live, TypeOK
  <2>2. \A j \in registered' : runtimes'[j] # NoRuntime
    BY <1>2 DEF Live, TypeOK, NoRuntime
  <2>3. ASSUME NEW j \in registered', NEW m \in obj'[j].models
        PROVE  j \in byModel'[m]
    <3>1. CASE j = id
      BY <3>1, <2>3, <1>1, <1>4
    <3>2. CASE j # id
      <4>1. j \in registered /\ j \in Ids /\ obj'[j] = obj[j]
        BY <3>2, <1>2 DEF TypeOK
      <4>2. obj[j] \in Backend /\ m \in Models
        BY <4>1, <2>3, BackendFields DEF TypeOK, Live
      <4> QED BY <4>1, <4>2, <3>2, <2>3, <1>4 DEF Live
    <3> QED BY <3>1, <3>2
  <2>4. \A j \in Ids : obj'[j] # NoBackend => obj'[j].fails = 0
    BY <1>1 DEF Live, TypeOK
  <2> QED BY <2>1, <2>2, <2>3, <2>4 DEF Live
<1>7. snapshot' \in Snapshot /\ Seen'
  BY <1>2, <1>5, <1>6, PublishSeen
<1>8. TypeOK'
  BY <1>5, <1>7 DEF LiveType, TypeOK, probeVars
<1>9. Round'
  BY DEF Round, probeVars
<1> QED BY <1>6, <1>7, <1>8, <1>9

-----------------------------------------------------------------------------
(* One lemma per group of actions.                                         *)

LEMMA InitIInv == Init => IInv
<1> SUFFICES ASSUME Init PROVE IInv
  OBVIOUS
<1>1. PICK f \in Loads : /\ obj = Load(f).obj
                         /\ registered = Load(f).registered
                         /\ byModel = Load(f).byModel
                         /\ runtimes = Load(f).runtimes
                         /\ snapshot = Load(f).snapshot
                         /\ list = NoBackends /\ pending = {}
  BY DEF Init
<1>2. /\ f \in [Ids -> Backend \union {NoBackend}]
      /\ \A id \in Ids : f[id] # NoBackend => f[id].fails = 0
  BY LoadsAssumption
<1>3. /\ obj = f
      /\ registered = {id \in Ids : f[id] # NoBackend}
      /\ byModel = [m \in Models |-> {id \in registered : m \in f[id].models}]
      /\ runtimes = [id \in Ids |-> IF id \in registered THEN 0 ELSE NoRuntime]
      /\ snapshot = [backends |-> f, byModel |-> byModel]
  BY <1>1 DEF Load
<1>4. TypeOK
  BY <1>1, <1>2, <1>3 DEF TypeOK, Snapshot, NoBackends, NoRuntime
<1>5. \A id \in registered : f[id] \in Backend
  BY <1>2, <1>3
<1>6. Live
  <2>1. \A id \in registered : obj[id] # NoBackend /\ runtimes[id] # NoRuntime
    <3> SUFFICES ASSUME NEW id \in registered
                 PROVE  obj[id] # NoBackend /\ runtimes[id] # NoRuntime
      OBVIOUS
    <3>1. id \in Ids /\ f[id] # NoBackend
      BY <1>3
    <3>2. runtimes[id] = 0
      BY <1>3, <3>1
    <3> QED BY <1>3, <3>1, <3>2 DEF NoRuntime
  <2>2. ASSUME NEW id \in registered, NEW m \in obj[id].models
        PROVE  id \in byModel[m]
    <3>1. f[id].models \subseteq Models
      BY <1>5, BackendFields
    <3> QED BY <1>3, <2>2, <3>1
  <2> QED BY <1>2, <1>3, <2>1, <2>2 DEF Live
<1>7. IndexCovers
  BY <1>3, <1>5, BackendFields DEF IndexCovers, Published
<1>8. SnapshotLags
  BY <1>3, <1>5, BackendFields DEF SnapshotLags, Published
<1>9. Seen
  BY <1>2, <1>3, <1>7, <1>8 DEF Seen, Published
<1>10. Round
  BY <1>1 DEF Round, NoBackends
<1> QED BY <1>4, <1>6, <1>9, <1>10 DEF IInv

LEMMA CreateStep ==
  ASSUME IInv, NEW id \in Ids, NEW in \in Inputs, Create(id, in)
  PROVE  IInv'
<1>1. in \in BackendInput
  BY InputsAssumption
<1>2. obj' = [obj EXCEPT ![id] = NewBackend(in)] /\ Add(obj', id)
      /\ UNCHANGED probeVars
  BY DEF Create
<1> QED BY <1>1, <1>2, NewBackendFacts, AddPreserves

LEMMA UpdateStep ==
  ASSUME IInv, NEW id \in Ids, NEW in \in Inputs, Update(id, in)
  PROVE  IInv'
<1> DEFINE e == SetRest(SetEndpoint(obj[id], in), in)
<1>1. in \in BackendInput
  BY InputsAssumption
<1>2. obj[id] \in Backend /\ obj[id].fails = 0
  BY DEF Update, IInv, TypeOK, Live
<1>3. e \in Backend /\ e.fails = 0
  BY <1>1, <1>2, EditFacts
<1>4. obj' = [obj EXCEPT ![id] = e] /\ Add(obj', id) /\ UNCHANGED probeVars
  BY DEF Update
<1> HIDE DEF e
<1> QED BY <1>3, <1>4, AddPreserves

LEMMA RemoveStep ==
  ASSUME IInv, NEW id \in Ids, Remove(id)
  PROVE  IInv'
<1> USE DEF IInv
<1>1. /\ id \in registered
      /\ obj' = obj
      /\ registered' = registered \ {id}
      /\ byModel' = Reindex(byModel, id, obj[id].models, {})
      /\ runtimes' = [runtimes EXCEPT ![id] = NoRuntime]
      /\ Publish(obj', registered', byModel')
      /\ UNCHANGED probeVars
  BY DEF Remove
<1>2. /\ byModel' \in [Models -> SUBSET Ids]
      /\ \A m \in Models, j \in Ids : j # id /\ j \in byModel[m] => j \in byModel'[m]
  BY <1>1, ReindexFacts, {} \in SUBSET Models DEF TypeOK
<1>3. LiveType'
  BY <1>1, <1>2 DEF LiveType, TypeOK
<1>4. Live'
  <2>1. ASSUME NEW j \in registered'
        PROVE  /\ obj'[j] # NoBackend /\ runtimes'[j] # NoRuntime
               /\ \A m \in obj'[j].models : j \in byModel'[m]
    <3>1. j \in registered /\ j \in Ids /\ j # id
      BY <1>1 DEF TypeOK
    <3>2. obj[j] \in Backend
      BY <3>1 DEF TypeOK, Live
    <3>3. obj[j].models \subseteq Models
      BY <3>2, BackendFields
    <3> QED BY <1>1, <1>2, <3>1, <3>3 DEF Live, TypeOK
  <2> QED BY <2>1, <1>1 DEF Live
<1>5. snapshot' \in Snapshot /\ Seen'
  BY <1>1, <1>3, <1>4, PublishSeen
<1>6. TypeOK' /\ Round'
  BY <1>1, <1>3, <1>5 DEF LiveType, TypeOK, Round, probeVars
<1> QED BY <1>4, <1>5, <1>6

\* A step that rewrites one live backend without publishing it: the snapshot
\* stays behind as long as the backend's counter does not decrease.
LEMMA SilentPreserves ==
  ASSUME IInv, NEW id \in registered, NEW b \in Backend,
         b.fails = 0, b.status = obj[id].status, b.models = obj[id].models,
         b.used >= obj[id].used,
         obj' = [obj EXCEPT ![id] = b],
         runtimes' \in [Ids -> Nat \union {NoRuntime}],
         \A j \in registered : runtimes'[j] # NoRuntime,
         UNCHANGED <<registered, byModel, snapshot, probeVars>>
  PROVE  IInv'
<1> USE DEF IInv
<1>1. /\ id \in Ids /\ obj'[id] = b /\ b # NoBackend
      /\ \A j \in Ids : j # id => obj'[j] = obj[j]
  BY NoBackendAssumption DEF TypeOK
<1>2. TypeOK'
  BY <1>1 DEF TypeOK, probeVars
<1>3. Live'
  BY <1>1 DEF Live, TypeOK
<1>4. Seen'
  <2>1. \A j \in Ids : Published(j)' = Published(j)
    BY DEF Published
  <2>2. IndexCovers'
    BY <2>1 DEF Seen, IndexCovers, Published
  <2>3. ASSUME NEW j \in Ids, Published(j) # NoBackend
        PROVE  j \in registered' /\ Published(j).used <= obj'[j].used
    <3>1. Published(j) \in Backend /\ j \in registered
          /\ Published(j).used <= obj[j].used
      BY <2>3 DEF TypeOK, Snapshot, Published, Seen, SnapshotLags
    <3>2. obj[j] \in Backend
      BY <3>1 DEF TypeOK, Live
    <3>3. Published(j).used \in Nat /\ obj[j].used \in Nat /\ b.used \in Nat
      BY <3>1, <3>2, BackendFields
    <3>4. CASE j = id
      BY <3>1, <3>3, <3>4, <1>1
    <3>5. CASE j # id
      BY <3>1, <3>5, <1>1
    <3> QED BY <3>4, <3>5
  <2>4. \A j \in Ids : Published(j) # NoBackend =>
          Published(j).fails = 0 /\ Published(j).status = obj'[j].status
    BY <1>1 DEF Seen
  <2>5. SnapshotLags'
    BY <2>1, <2>3 DEF SnapshotLags
  <2> QED BY <2>1, <2>2, <2>4, <2>5 DEF Seen
<1>5. Round'
  BY DEF Round, probeVars
<1> QED BY <1>2, <1>3, <1>4, <1>5

LEMMA RecordTokensStep ==
  ASSUME IInv, NEW id \in Ids, NEW n \in Counts, RecordTokens(id, n)
  PROVE  IInv'
<1> DEFINE b == [obj[id] EXCEPT !.used = @ + n]
<1>1. id \in registered /\ obj[id] \in Backend /\ obj[id].fails = 0
      /\ runtimes[id] \in Nat /\ n \in Nat
  BY CountsAssumption DEF RecordTokens, IInv, TypeOK, Live
<1>2. /\ b \in Backend /\ b.fails = 0 /\ b.status = obj[id].status
      /\ b.models = obj[id].models /\ b.used >= obj[id].used
  BY <1>1 DEF Backend
<1>3. /\ obj' = [obj EXCEPT ![id] = b]
      /\ runtimes' = [runtimes EXCEPT ![id] = @ + n]
      /\ UNCHANGED <<registered, byModel, snapshot, probeVars>>
  BY DEF RecordTokens
<1>4. /\ runtimes' \in [Ids -> Nat \union {NoRuntime}]
      /\ \A j \in registered : runtimes'[j] # NoRuntime
  BY <1>1, <1>3 DEF IInv, TypeOK, Live, NoRuntime
<1> HIDE DEF b
<1> QED BY <1>1, <1>2, <1>3, <1>4, SilentPreserves

LEMMA CaptureStep ==
  ASSUME IInv, NEW id \in Ids, NEW h \in Headers, CaptureRateLimits(id, h)
  PROVE  IInv'
<1> DEFINE b == CaptureRateLimitHeaders(obj[id], h)
<1>1. /\ id \in registered /\ obj[id] \in Backend /\ obj[id].fails = 0
      /\ h \in RateHeaders
  BY HeadersAssumption DEF CaptureRateLimits, IInv, TypeOK, Live
<1>2. /\ b \in Backend /\ b.fails = 0 /\ b.status = obj[id].status
      /\ b.models = obj[id].models /\ b.used >= obj[id].used
  BY <1>1, CaptureFacts, BackendFields
<1>3. /\ obj' = [obj EXCEPT ![id] = b]
      /\ UNCHANGED <<registered, runtimes, byModel, snapshot, probeVars>>
  BY DEF CaptureRateLimits
<1> HIDE DEF b
<1>4. /\ runtimes' \in [Ids -> Nat \union {NoRuntime}]
      /\ \A j \in registered : runtimes'[j] # NoRuntime
  BY <1>3 DEF IInv, TypeOK, Live
<1> QED BY <1>1, <1>2, <1>3, <1>4, SilentPreserves

\* A step that only publishes again.
LEMMA RepublishSeen ==
  ASSUME IInv, Publish(obj, registered, byModel),
         UNCHANGED <<obj, registered, runtimes, byModel>>
  PROVE  LiveType' /\ Live' /\ snapshot' \in Snapshot /\ Seen'
<1>1. LiveType' /\ Live'
  BY DEF IInv, TypeOK, LiveType, Live
<1>2. Publish(obj', registered', byModel')
  OBVIOUS
<1> QED BY <1>1, <1>2, PublishSeen

LEMMA RefreshStep == ASSUME IInv, SnapshotRefresh PROVE IInv'
<1>1. LiveType' /\ Live' /\ snapshot' \in Snapshot /\ Seen'
  BY RepublishSeen DEF SnapshotRefresh
<1>2. UNCHANGED <<list, pending>>
  BY DEF SnapshotRefresh, probeVars
<1> QED BY <1>1, <1>2 DEF IInv, TypeOK, LiveType, Round

LEMMA HealthTickStep == ASSUME IInv, HealthTick PROVE IInv'
<1> USE DEF IInv
<1>1. UNCHANGED <<obj, registered, runtimes, byModel, snapshot>>
  BY DEF HealthTick, regVars
<1>2. Live'
  BY <1>1 DEF Live
<1>3. Seen'
  BY <1>1 DEF Seen, IndexCovers, SnapshotLags, Published
<1>4. \A id \in Ids : snapshot.backends[id] # NoBackend =>
        /\ Health(snapshot.backends[id]) \in HealthRecord
        /\ Health(snapshot.backends[id]) # NoBackend
        /\ Health(snapshot.backends[id]).fails = 0
  BY HealthFacts DEF TypeOK, Snapshot, Seen, Published
<1>5. /\ list' = [id \in Ids |->
                   IF snapshot.backends[id] = NoBackend THEN NoBackend
                   ELSE Health(snapshot.backends[id])]
      /\ pending' = {id \in Ids : snapshot.backends[id] # NoBackend}
  BY DEF HealthTick
<1>6. list' \in [Ids -> HealthRecord \union {NoBackend}] /\ pending' \subseteq Ids
  BY <1>4, <1>5
<1>7. Round'
  BY <1>4, <1>5 DEF Round
<1>8. TypeOK'
  BY <1>1, <1>6 DEF TypeOK
<1> QED BY <1>2, <1>3, <1>7, <1>8

LEMMA ProbeStep ==
  ASSUME IInv, NEW id \in Ids, ProbeSuccess(id) \/ ProbeFailure(id)
  PROVE  IInv'
<1> USE DEF IInv
<1>1. id \in pending
  BY DEF ProbeSuccess, ProbeFailure, Mark
<1>2. list[id] \in HealthRecord /\ list[id].fails = 0
  BY <1>1 DEF TypeOK, Round
<1>3. PICK clone \in HealthRecord : Mark(id, clone) /\ clone.fails <= 1
  BY <1>2, MarkFacts DEF ProbeSuccess, ProbeFailure
<1>4. LiveType' /\ Live' /\ snapshot' \in Snapshot /\ Seen'
  BY <1>3, RepublishSeen DEF Mark
<1>5. /\ pending' = pending \ {id}
      /\ list' = IF pending = {id} THEN NoBackends ELSE [list EXCEPT ![id] = clone]
  BY <1>3 DEF Mark
<1>6. TypeOK'
  BY <1>4, <1>5 DEF TypeOK, LiveType, NoBackends
<1>7. Round'
  BY <1>1, <1>3, <1>5 DEF Round, TypeOK, NoBackends
<1> QED BY <1>4, <1>6, <1>7

LEMMA Inductive == IInv /\ [Next]_vars => IInv'
<1> SUFFICES ASSUME IInv, [Next]_vars PROVE IInv'
  OBVIOUS
<1>1. CASE Admin
  BY <1>1, CreateStep, UpdateStep, RemoveStep DEF Admin
<1>2. CASE Traffic
  BY <1>2, RecordTokensStep, CaptureStep DEF Traffic
<1>3. CASE SnapshotRefresh
  BY <1>3, RefreshStep
<1>4. CASE HealthTick
  BY <1>4, HealthTickStep
<1>5. CASE Probe
  BY <1>5, ProbeStep DEF Probe
<1>6. CASE UNCHANGED vars
  BY <1>6 DEF vars, IInv, TypeOK, Live, Seen, IndexCovers, SnapshotLags,
              Published, Round
<1> QED BY <1>1, <1>2, <1>3, <1>4, <1>5, <1>6 DEF Next

LEMMA Invariance == Spec => []IInv
BY InitIInv, Inductive, PTL DEF Spec

-----------------------------------------------------------------------------
(***************************************************************************)
(* Every variable of the registry keeps its type, whatever the payloads,   *)
(* the state file and the interleaving of critical sections.               *)
(***************************************************************************)
THEOREM TypeCorrect == Spec => []TypeOK
<1>1. IInv => TypeOK
  BY DEF IInv
<1> QED BY <1>1, Invariance, PTL

(***************************************************************************)
(* GetForModel finds every published backend under each of its models.     *)
(***************************************************************************)
THEOREM PublishedIsRoutable == Spec => []IndexCovers
<1>1. IInv => IndexCovers
  BY DEF IInv, Seen
<1> QED BY <1>1, Invariance, PTL

(***************************************************************************)
(* What a handler reads without the lock is registered, and its consumed   *)
(* tokens never exceed the live count.                                     *)
(***************************************************************************)
THEOREM SnapshotNeverLeads == Spec => []SnapshotLags
<1>1. IInv => SnapshotLags
  BY DEF IInv, Seen
<1> QED BY <1>1, Invariance, PTL

(***************************************************************************)
(* However often its probes fail, no backend counts a failure: the health  *)
(* checker cannot change a status once the process runs.                   *)
(***************************************************************************)
THEOREM ProbesAreLost == Spec => []FailsNeverAccumulate
<1>1. IInv => FailsNeverAccumulate
  BY DEF IInv, Live, Seen, Round, FailsNeverAccumulate
<1> QED BY <1>1, Invariance, PTL

-----------------------------------------------------------------------------
(* Two looks at the snapshot                                               *)

\* Objects are never destroyed, and never lose tokens.
LEMMA HeapGrows ==
  ASSUME IInv, [Next]_vars, NEW id \in Ids, obj[id] # NoBackend
  PROVE  /\ obj'[id] # NoBackend /\ obj[id].used <= obj'[id].used
         /\ id \in registered' => id \in registered
<1> USE DEF IInv, TypeOK
<1>1. obj[id] \in Backend /\ obj[id].used \in Nat BY BackendFields
<1>2. ASSUME NEW i \in Ids, NEW in \in Inputs, Create(i, in)
      PROVE  obj'[id] = obj[id] /\ (id \in registered' => id \in registered)
  BY <1>2 DEF Create, Add
<1>3. ASSUME NEW i \in Ids, NEW in \in Inputs, Update(i, in)
      PROVE  /\ obj'[id] # NoBackend /\ obj[id].used <= obj'[id].used
             /\ id \in registered' => id \in registered
  <2>1. in \in BackendInput BY InputsAssumption
  <2>2. /\ SetRest(SetEndpoint(obj[id], in), in) # NoBackend
        /\ SetRest(SetEndpoint(obj[id], in), in).used = obj[id].used
    BY <1>1, <2>1, EditFacts
  <2>3. obj'[id] \in {obj[id], SetRest(SetEndpoint(obj[id], in), in)} BY <1>3 DEF Update
  <2>4. registered' = registered BY <1>3 DEF Update, Add
  <2> QED BY <1>1, <2>2, <2>3, <2>4
<1>4. ASSUME NEW i \in Ids, Remove(i)
      PROVE  obj'[id] = obj[id] /\ (id \in registered' => id \in registered)
  BY <1>4 DEF Remove
<1>5. ASSUME NEW i \in Ids, NEW n \in Counts, RecordTokens(i, n)
      PROVE  /\ obj'[id] # NoBackend /\ obj[id].used <= obj'[id].used
             /\ id \in registered' => id \in registered
  <2>1. registered' = registered /\ obj' = [obj EXCEPT ![i].used = @ + n]
    BY <1>5 DEF RecordTokens
  <2>2. CASE i # id BY <1>1, <2>1, <2>2
  <2>3. CASE i = id
    <3>1. obj'[id] = [obj[id] EXCEPT !.used = @ + n] BY <2>1, <2>3
    <3>2. obj'[id] \in Backend /\ obj'[id].used = obj[id].used + n /\ n \in Nat
      BY <1>1, <3>1, CountsAssumption DEF Backend
    <3> QED BY <1>1, <2>1, <3>2, NoBackendAssumption
  <2> QED BY <2>2, <2>3
<1>6. ASSUME NEW i \in Ids, NEW h \in Headers, CaptureRateLimits(i, h)
      PROVE  /\ obj'[id] # NoBackend /\ obj[id].used <= obj'[id].used
             /\ id \in registered' => id \in registered
  <2>1. /\ CaptureRateLimitHeaders(obj[id], h) # NoBackend
        /\ CaptureRateLimitHeaders(obj[id], h).used = obj[id].used
    BY <1>1, CaptureFacts, HeadersAssumption
  <2>2. obj'[id] \in {obj[id], CaptureRateLimitHeaders(obj[id], h)} /\ registered' = registered
    BY <1>6 DEF CaptureRateLimits
  <2> QED BY <1>1, <2>1, <2>2
<1>7. CASE SnapshotRefresh BY <1>1, <1>7 DEF SnapshotRefresh
<1>8. CASE HealthTick BY <1>1, <1>8 DEF HealthTick, regVars
<1>9. CASE Probe BY <1>1, <1>9 DEF Probe, ProbeSuccess, ProbeFailure, Mark
<1>10. CASE UNCHANGED vars BY <1>1, <1>10 DEF vars
<1> QED BY <1>1, <1>2, <1>3, <1>4, <1>5, <1>6, <1>7, <1>8, <1>9, <1>10
        DEF Next, Admin, Traffic

\* A step leaves the snapshot and who is registered alone, or publishes.
LEMMA StepsPublish ==
  ASSUME [Next]_vars
  PROVE  \/ UNCHANGED <<snapshot, registered>>
         \/ Publish(obj', registered', byModel')
<1>1. CASE Admin
  BY <1>1 DEF Admin, Create, Update, Remove, Add
<1>2. CASE Traffic BY <1>2 DEF Traffic, RecordTokens, CaptureRateLimits
<1>3. CASE SnapshotRefresh BY <1>3 DEF SnapshotRefresh
<1>4. CASE HealthTick BY <1>4 DEF HealthTick, regVars
<1>5. CASE Probe BY <1>5 DEF Probe, ProbeSuccess, ProbeFailure, Mark
<1>6. CASE UNCHANGED vars BY <1>6 DEF vars
<1> QED BY <1>1, <1>2, <1>3, <1>4, <1>5, <1>6 DEF Next

\* What a publication shows.
LEMMA Publication ==
  ASSUME Publish(obj', registered', byModel')
  PROVE  \A id \in Ids : Published(id)' = IF id \in registered' THEN obj'[id] ELSE NoBackend
BY DEF Publish, Published, Clones

LEMMA ShownKept == ASSUME IInv, IInv', Shown, [Next]_vars PROVE Shown'
<1>1. registered' \subseteq Ids /\ \A id \in registered' : obj'[id] # NoBackend
  BY DEF IInv, TypeOK, Live
<1>2. CASE UNCHANGED <<snapshot, registered>> BY <1>2 DEF Shown, Published
<1>3. CASE Publish(obj', registered', byModel') BY <1>1, <1>3, Publication DEF Shown
<1> QED BY <1>2, <1>3, StepsPublish

LEMMA ShownInitially == Init => Shown
<1> SUFFICES ASSUME Init PROVE Shown OBVIOUS
<1>1. PICK f \in Loads : registered = Load(f).registered /\ snapshot = Load(f).snapshot
  BY DEF Init
<1>2. registered = {id \in Ids : f[id] # NoBackend} /\ snapshot.backends = f
  BY <1>1 DEF Load
<1> QED BY <1>2 DEF Shown, Published

(***************************************************************************)
(* A handler that loads the snapshot twice, between any steps of anybody,  *)
(* goes forward in time: tokens are not given back, nobody returns.        *)
(***************************************************************************)
THEOREM SnapshotsGoForward == Spec => ViewGoesForward
<1> DEFINE Forward(id) ==
      /\ (Published(id) # NoBackend /\ Published(id)' # NoBackend)
           => Published(id).used <= Published(id)'.used
      /\ (Published(id) = NoBackend /\ obj[id] # NoBackend)
           => Published(id)' = NoBackend
<1>1. ASSUME IInv, IInv', Shown, [Next]_vars, NEW id \in Ids
      PROVE  Forward(id)
  <2>1. Published(id) # NoBackend =>
          id \in registered /\ obj[id] # NoBackend /\ Published(id).used <= obj[id].used
    BY <1>1 DEF IInv, Seen, SnapshotLags, Live
  <2>2. obj[id] # NoBackend =>
          /\ obj'[id] # NoBackend /\ obj[id].used <= obj'[id].used
          /\ id \in registered' => id \in registered
    BY <1>1, HeapGrows
  <2>3. CASE UNCHANGED <<snapshot, registered>>
    <3>1. Published(id)' = Published(id) BY <2>3 DEF Published
    <3>2. Published(id) # NoBackend => Published(id).used \in Nat
      BY <1>1, BackendFields DEF IInv, TypeOK, Snapshot, Published
    <3> QED BY <3>1, <3>2
  <2>4. CASE Publish(obj', registered', byModel')
    <3>1. Published(id)' = IF id \in registered' THEN obj'[id] ELSE NoBackend
      BY <2>4, Publication
    <3>2. ASSUME Published(id) # NoBackend, Published(id)' # NoBackend
          PROVE  Published(id).used <= Published(id)'.used
      <4>1. Published(id)' = obj'[id] BY <3>1, <3>2
      <4>2. Published(id).used \in Nat /\ obj[id].used \in Nat /\ obj'[id].used \in Nat
        BY <1>1, <2>1, <2>2, <3>2, BackendFields DEF IInv, TypeOK, Snapshot, Published
      <4> QED BY <2>1, <2>2, <3>2, <4>1, <4>2
    <3>3. ASSUME Published(id) = NoBackend, obj[id] # NoBackend
          PROVE  Published(id)' = NoBackend
      <4>1. id \notin registered BY <1>1, <3>3 DEF Shown
      <4> QED BY <2>2, <3>1, <3>3, <4>1
    <3> QED BY <3>2, <3>3
  <2> QED BY <1>1, <2>3, <2>4, StepsPublish
<1>2. Spec => [](IInv /\ Shown)
  <2>1. IInv /\ IInv' /\ Shown /\ [Next]_vars => Shown' BY ShownKept
  <2> QED BY Invariance, ShownInitially, <2>1, PTL DEF Spec
<1>3. IInv /\ IInv' /\ Shown /\ [Next]_vars => [\A id \in Ids : Forward(id)]_vars
  BY <1>1
<1> QED BY <1>2, <1>3, PTL DEF Spec, ViewGoesForward
=============================================================================
