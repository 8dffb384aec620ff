--------------------------- MODULE AdminApiProofs ---------------------------
(***************************************************************************)
(* What the admin API acknowledges survives, for any backends, payloads,   *)
(* clients, faults and crashes, when clients take turns on a backend.      *)
(*                                                                         *)
(* Ack is what is promised about one backend: memory and every file that   *)
(* can be read hold its last acknowledged configuration.  It is not        *)
(* inductive, because a request acknowledges at its end what it put into   *)
(* memory and file in earlier steps, while saves of other requests rewrite *)
(* the file from the shared objects.  Underway says how far a request has  *)
(* come with that; Turns, that no other request is at the same backend and *)
(* that nothing is promised about it meanwhile.                            *)
(*                                                                         *)
(* On top of that: no update resurrects, nothing is refunded, and, when    *)
(* saves succeed, the copies of a backend nobody works on agree.           *)
(*                                                                         *)
(* That every variable keeps its type needs no turns and no luck with      *)
(* saves; what it needs is that whatever is registered or worked on exists *)
(* (Exists): objects are only dropped when the process ends.               *)
(***************************************************************************)
EXTENDS AdminApi, BackendProofs

AdminTypes ==
  /\ obj \in [Ids -> Backend \union {NoBackend}]
  /\ \A id \in registered : id \in Ids /\ obj[id] # NoBackend
  /\ \A id \in stored : id \in Ids /\ obj[id] # NoBackend
  /\ file # Torn => file.backends \in [Ids -> Backend \union {NoBackend}]
  /\ call \in [Admins -> {Idle} \union
                 [step : Steps, id : Ids, in : Inputs \union {NoInput}]]
  /\ acked \in [Ids -> Configs \union {NoBackend, Unknown}]
  /\ \A a \in Admins : (call[a] # Idle /\ call[a].step # "delete_remove") =>
       call[a].in \in Inputs /\ obj[call[a].id] # NoBackend
  /\ ~ up => \A a \in Admins : call[a] = Idle

Turns ==
  /\ \A a, b \in Admins : (a # b /\ call[a] # Idle /\ call[b] # Idle) =>
       call[a].id # call[b].id
  /\ \A a \in Admins : call[a] # Idle => acked[call[a].id] = Unknown

InFile(id, config) == file # Torn => Config(file.backends[id]) = config

Ack(id) ==
  acked[id] \in Configs =>
    /\ up => id \in stored /\ Config(obj[id]) = acked[id]
    /\ InFile(id, acked[id])

\* The configuration an update asks for, given the one it finds.
Wanted(config, in) ==
  [ endpoint |-> in.endpoint, key |-> IF in.key = NoKey THEN config.key ELSE in.key,
    models |-> in.models, balance |-> in.balance ]

\* How far a request on one backend has come.
Progress(c) ==
  /\ c.step = "update_rest" => Config(obj[c.id]).endpoint = c.in.endpoint
  /\ c.step \in {"update_save", "update_add"} =>
       Config(obj[c.id]) = Wanted(Config(obj[c.id]), c.in)
  /\ c.step = "create_add" => Config(obj[c.id]) = Config(NewBackend(c.in))
  /\ c.step \in {"update_add", "create_add"} =>
       c.id \in stored /\ InFile(c.id, Config(obj[c.id]))

Underway == \A a \in Admins : call[a] # Idle => Progress(call[a])

AInv == AdminTypes /\ Turns /\ (\A id \in Ids : Ack(id)) /\ Underway

-----------------------------------------------------------------------------
(* Configurations                                                          *)

LEMMA ConfigFacts ==
  ASSUME NEW b \in Backend
  PROVE  /\ b # NoBackend /\ Config(b) \in Configs
         /\ Config(b) = [endpoint |-> b.endpoint, key |-> b.key,
                         models |-> b.models, balance |-> b.balance]
BY NoBackendAssumption DEF Config, Configs, Backend

LEMMA NewConfig ==
  ASSUME NEW in \in Inputs
  PROVE  NewBackend(in) \in Backend /\ Config(NewBackend(in)) \in Configs
<1>1. NewBackend(in) \in Backend BY InputsAssumption, NewBackendFacts
<1> QED BY <1>1, ConfigFacts

LEMMA EditedConfig ==
  ASSUME NEW b \in Backend, NEW in \in Inputs
  PROVE  /\ SetEndpoint(b, in) \in Backend /\ SetRest(b, in) \in Backend
         /\ SetRest(SetEndpoint(b, in), in) \in Backend
         /\ Config(SetEndpoint(b, in)).endpoint = in.endpoint
         /\ Config(b).endpoint = in.endpoint =>
              Config(SetRest(b, in)) = Wanted(Config(SetRest(b, in)), in)
         /\ Config(SetRest(SetEndpoint(b, in), in)) = Wanted(Config(b), in)
<1>1. in \in BackendInput BY InputsAssumption
<1>2. /\ SetEndpoint(b, in) \in Backend /\ SetRest(b, in) \in Backend
      /\ SetEndpoint(b, in).endpoint = in.endpoint /\ SetEndpoint(b, in).key = b.key
      /\ SetRest(b, in).endpoint = b.endpoint /\ SetRest(b, in).models = in.models
      /\ SetRest(b, in).balance = in.balance
      /\ SetRest(b, in).key = IF in.key = NoKey THEN b.key ELSE in.key
  BY <1>1 DEF SetEndpoint, SetRest, Backend, BackendInput
<1>3. LET e == SetRest(SetEndpoint(b, in), in)
      IN  /\ e \in Backend /\ e.endpoint = in.endpoint /\ e.models = in.models
          /\ e.balance = in.balance /\ e.key = IF in.key = NoKey THEN b.key ELSE in.key
  BY <1>1 DEF SetEndpoint, SetRest, Backend, BackendInput
<1>4. Config(SetEndpoint(b, in)).endpoint = in.endpoint BY <1>2, ConfigFacts
<1>5. Config(b).endpoint = in.endpoint =>
              Config(SetRest(b, in)) = Wanted(Config(SetRest(b, in)), in)
  BY <1>2, ConfigFacts DEF Wanted
<1>6. Config(SetRest(SetEndpoint(b, in), in)) = Wanted(Config(b), in)
  BY <1>3, ConfigFacts DEF Wanted
<1> QED BY <1>2, <1>3, <1>4, <1>5, <1>6

\* What a save writes of a backend that is in the list.
LEMMA ImageFacts ==
  ASSUME NEW heap \in [Ids -> Backend \union {NoBackend}], NEW ids, NEW names,
         \A id \in ids : id \in Ids /\ heap[id] # NoBackend
  PROVE  /\ Image(heap, ids, names).backends \in [Ids -> Backend \union {NoBackend}]
         /\ \A id \in ids : Config(Image(heap, ids, names).backends[id]) = Config(heap[id])
<1> DEFINE f == Image(heap, ids, names).backends
<1>1. \A id \in Ids : f[id] = IF id \in ids THEN [heap[id] EXCEPT !.fails = 0] ELSE NoBackend
  BY DEF Image
<1>2. ASSUME NEW id \in ids
      PROVE  f[id] \in Backend /\ Config(f[id]) = Config(heap[id])
  <2>1. id \in Ids /\ heap[id] \in Backend OBVIOUS
  <2>2. f[id] = [heap[id] EXCEPT !.fails = 0] BY <1>1, <2>1
  <2>3. /\ f[id] \in Backend
        /\ f[id].endpoint = heap[id].endpoint /\ f[id].key = heap[id].key
        /\ f[id].models = heap[id].models /\ f[id].balance = heap[id].balance
    BY <2>1, <2>2 DEF Backend
  <2> QED BY <2>1, <2>3, ConfigFacts
<1>3. f \in [Ids -> Backend \union {NoBackend}] BY <1>1, <1>2 DEF Image
<1> QED BY <1>2, <1>3

-----------------------------------------------------------------------------
(* Steps of requests                                                       *)

Calls == {Idle} \union [step : Steps, id : Ids, in : Inputs \union {NoInput}]

\* A step of request a on backend i may change the object, its place in the
\* list and, with a save, the whole file; it leaves the other backends and the
\* other requests as they are.  What remains to be shown of such a step is what
\* it does at i.
StepAt(a, i) ==
  /\ up /\ up' = up
  /\ \A b \in Admins \ {a} : call[b] # Idle => call[b].id # i
  /\ obj' \in [Ids -> Backend \union {NoBackend}]
  /\ obj[i] # NoBackend => obj'[i] # NoBackend
  /\ \A j \in Ids \ {i} : obj'[j] = obj[j] /\ (j \in stored' <=> j \in stored)
  /\ \A j \in registered' : j \in Ids /\ obj'[j] # NoBackend
  /\ \A j \in stored' : j \in Ids /\ obj'[j] # NoBackend
  /\ file' = file \/ file' = Torn \/ \E names : file' = Image(obj', stored', names)
  /\ call' = [call EXCEPT ![a] = call'[a]] /\ call'[a] \in Calls
  /\ acked' = [acked EXCEPT ![i] = acked'[i]]
  /\ acked'[i] \in Configs \union {NoBackend, Unknown}

\* What it does there.
Effect(a, i) ==
  /\ call'[a] # Idle =>
       /\ call'[a].id = i /\ acked'[i] = Unknown
       /\ call'[a].step # "delete_remove" => call'[a].in \in Inputs /\ obj'[i] # NoBackend
       /\ Progress(call[a])'
  /\ acked'[i] \in Configs =>
       i \in stored' /\ Config(obj'[i]) = acked'[i] /\ InFile(i, acked[i])'

\* The other backends keep what was promised about them.
LEMMA OthersKeepTheirs ==
  ASSUME AInv, NEW a \in Admins, NEW i \in Ids, StepAt(a, i), NEW j \in Ids \ {i}
  PROVE  /\ Ack(j)'
         /\ \A b \in Admins \ {a} : (call[b] # Idle /\ call[b].id = j) => Progress(call[b])'
<1>1. /\ up /\ up' /\ obj'[j] = obj[j] /\ (j \in stored' <=> j \in stored)
      /\ acked'[j] = acked[j] /\ \A b \in Admins \ {a} : call'[b] = call[b]
  BY DEF AInv, AdminTypes, StepAt
<1>2. ASSUME NEW config, j \in stored, config = Config(obj[j]), InFile(j, config)
      PROVE  file' # Torn => Config(file'.backends[j]) = config
  <2>1. CASE file' = file BY <1>2, <2>1 DEF InFile
  <2>2. CASE \E names : file' = Image(obj', stored', names)
    <3>1. PICK names : file' = Image(obj', stored', names) BY <2>2
    <3>2. /\ obj' \in [Ids -> Backend \union {NoBackend}]
          /\ \A k \in stored' : k \in Ids /\ obj'[k] # NoBackend
      BY DEF StepAt
    <3>3. \A id \in stored' :
            Config(Image(obj', stored', names).backends[id]) = Config(obj'[id])
      BY <3>2, ImageFacts
    <3> QED BY <1>1, <1>2, <3>1, <3>3
  <2> QED BY <2>1, <2>2 DEF StepAt
<1>3. Ack(j)'
  <2> SUFFICES ASSUME acked[j] \in Configs
               PROVE  /\ j \in stored' /\ Config(obj'[j]) = acked[j]
                      /\ file' # Torn => Config(file'.backends[j]) = acked[j]
    BY <1>1 DEF Ack, InFile
  <2>1. j \in stored /\ Config(obj[j]) = acked[j] /\ InFile(j, acked[j])
    BY <1>1 DEF AInv, Ack
  <2> QED BY <1>1, <1>2, <2>1
<1>4. ASSUME NEW b \in Admins \ {a}, call[b] # Idle, call[b].id = j
      PROVE  Progress(call[b])'
  <2>1. call'[b] = call[b] /\ Progress(call[b]) BY <1>1, <1>4 DEF AInv, Underway
  <2>2. call[b].step \in {"update_add", "create_add"} =>
          /\ j \in stored'
          /\ file' # Torn => Config(file'.backends[j]) = Config(obj[j])
    BY <1>1, <1>2, <1>4, <2>1 DEF Progress
  <2> QED BY <1>1, <1>4, <2>1, <2>2 DEF Progress, InFile
<1> QED BY <1>3, <1>4

LEMMA StepKeeps ==
  ASSUME AInv, NEW a \in Admins, NEW i \in Ids, StepAt(a, i), Effect(a, i)
  PROVE  AInv'
<1>1. \A j \in Ids \ {i} :
        /\ Ack(j)'
        /\ \A b \in Admins \ {a} : (call[b] # Idle /\ call[b].id = j) => Progress(call[b])'
  BY OthersKeepTheirs
<1>2. /\ up /\ up' /\ call \in [Admins -> Calls]
      /\ acked \in [Ids -> Configs \union {NoBackend, Unknown}]
      /\ obj \in [Ids -> Backend \union {NoBackend}]
  BY DEF AInv, AdminTypes, StepAt, Calls
<1>3. \A b \in Admins \ {a} : call'[b] = call[b] /\ (call[b] # Idle => call[b].id # i)
  BY <1>2 DEF StepAt
<1>4. \A j \in Ids \ {i} : acked'[j] = acked[j] /\ obj'[j] = obj[j]
  BY <1>2 DEF StepAt
<1>5. \A b \in Admins : call[b] # Idle => call[b].id \in Ids
  BY <1>2 DEF Calls
<1>6. AdminTypes'
  <2>1. call' \in [Admins -> Calls]
        /\ acked' \in [Ids -> Configs \union {NoBackend, Unknown}]
    BY <1>2 DEF StepAt
  <2>2. file' # Torn => file'.backends \in [Ids -> Backend \union {NoBackend}]
    <3>1. CASE file' = file BY <3>1 DEF AInv, AdminTypes
    <3>2. ASSUME NEW names, file' = Image(obj', stored', names)
          PROVE  file'.backends \in [Ids -> Backend \union {NoBackend}]
      <4>1. /\ obj' \in [Ids -> Backend \union {NoBackend}]
            /\ \A k \in stored' : k \in Ids /\ obj'[k] # NoBackend
        BY DEF StepAt
      <4> QED BY <3>2, <4>1, ImageFacts
    <3> QED BY <3>1, <3>2 DEF StepAt
  <2>3. ASSUME NEW b \in Admins, call'[b] # Idle, call'[b].step # "delete_remove"
        PROVE  call'[b].in \in Inputs /\ obj'[call'[b].id] # NoBackend
    <3>1. CASE b = a BY <2>3, <3>1 DEF Effect
    <3>2. CASE b # a
      <4>1. call'[b] = call[b] /\ call[b].id \in Ids \ {i} BY <1>3, <1>5, <2>3, <3>2
      <4> QED BY <1>4, <2>3, <4>1 DEF AInv, AdminTypes
    <3> QED BY <3>1, <3>2
  <2> QED BY <1>2, <2>1, <2>2, <2>3 DEF AdminTypes, StepAt, Calls
<1>7. Turns'
  <2>1. ASSUME NEW b \in Admins, call'[b] # Idle PROVE acked'[call'[b].id] = Unknown
    <3>1. CASE b = a BY <2>1, <3>1 DEF Effect
    <3>2. CASE b # a
      <4>1. call'[b] = call[b] /\ call[b].id \in Ids \ {i} BY <1>3, <1>5, <2>1, <3>2
      <4> QED BY <1>4, <2>1, <4>1 DEF AInv, Turns
    <3> QED BY <3>1, <3>2
  <2>2. ASSUME NEW b \in Admins, NEW c \in Admins, b # c, call'[b] # Idle, call'[c] # Idle
        PROVE  call'[b].id # call'[c].id
    <3>1. CASE b = a BY <1>3, <2>2, <3>1 DEF Effect
    <3>2. CASE c = a BY <1>3, <2>2, <3>2 DEF Effect
    <3>3. CASE b # a /\ c # a BY <1>3, <2>2, <3>3 DEF AInv, Turns
    <3> QED BY <3>1, <3>2, <3>3
  <2> QED BY <2>1, <2>2 DEF Turns
<1>8. ASSUME NEW j \in Ids PROVE Ack(j)'
  <2>1. CASE j = i BY <2>1 DEF Effect, Ack
  <2>2. CASE j # i BY <1>1, <2>2
  <2> QED BY <2>1, <2>2
<1>9. ASSUME NEW b \in Admins, call'[b] # Idle PROVE Progress(call[b])'
  <2>1. CASE b = a BY <1>9, <2>1 DEF Effect
  <2>2. CASE b # a
    <3>1. call[b] # Idle /\ call[b].id \in Ids \ {i} BY <1>3, <1>5, <1>9, <2>2
    <3> QED BY <1>1, <2>2, <3>1
  <2> QED BY <2>1, <2>2
<1> QED BY <1>6, <1>7, <1>8, <1>9 DEF AInv, Underway

\* A request in flight, and the object it is about.
LEMMA InFlight ==
  ASSUME AInv, NEW a \in Admins, call[a] # Idle
  PROVE  /\ up /\ call[a].id \in Ids /\ call[a].step \in Steps
         /\ call[a] \in [step : Steps, id : Ids, in : Inputs \union {NoInput}]
         /\ acked[call[a].id] = Unknown
         /\ \A b \in Admins \ {a} : call[b] # Idle => call[b].id # call[a].id
         /\ call[a].step # "delete_remove" =>
              call[a].in \in Inputs /\ obj[call[a].id] \in Backend
         /\ Progress(call[a])
<1>1. /\ call[a] \in [step : Steps, id : Ids, in : Inputs \union {NoInput}] /\ up
      /\ obj \in [Ids -> Backend \union {NoBackend}]
  BY DEF AInv, AdminTypes
<1> QED BY <1>1 DEF AInv, AdminTypes, Turns, Underway

\* Under Serialized a new request has its backend to itself.
LEMMA Alone ==
  ASSUME Serialized, NEW a \in Admins, NEW i \in Ids, Accept(a, i)
  PROVE  /\ up /\ call[a] = Idle
         /\ \A b \in Admins \ {a} : call[b] # Idle => call[b].id # i
BY DEF Accept, Busy

\* A call is never mistaken for the absence of one.
LEMMA CallsAreCalls ==
  ASSUME NEW step \in Steps, NEW i \in Ids, NEW in \in Inputs \union {NoInput}
  PROVE  /\ At(step, i, in) # Idle /\ At(step, i, in) \in Calls
         /\ At(step, i, in).step = step /\ At(step, i, in).id = i
         /\ At(step, i, in).in = in
<1>1. At(step, i, in).step = step BY DEF At
<1>2. Idle.step = "idle" BY DEF Idle
<1>3. "idle" \notin Steps BY DEF Steps
<1> QED BY <1>1, <1>2, <1>3 DEF At, Calls

\* A save that the request goes on after, or one that failed.
Saved(a, i, next) ==
  /\ up' = up
  /\ acked' = [acked EXCEPT ![i] = Unknown]
  /\ \/ /\ call' = [call EXCEPT ![a] = next]
        /\ \E names : file' = Image(obj', stored', names)
     \/ /\ call' = [call EXCEPT ![a] = Idle]
        /\ file' = file \/ file' = Torn

LEMMA SavedFacts ==
  ASSUME AInv, NEW a \in Admins, NEW i \in Ids, NEW step \in Steps,
         NEW in \in Inputs \union {NoInput}, Saved(a, i, At(step, i, in))
  PROVE  /\ up' = up
         /\ acked' = [acked EXCEPT ![i] = acked'[i]] /\ acked'[i] = Unknown
         /\ call' = [call EXCEPT ![a] = call'[a]] /\ call'[a] \in Calls
         /\ file' = file \/ file' = Torn \/ \E names : file' = Image(obj', stored', names)
         /\ call'[a] # Idle =>
              /\ call'[a] = At(step, i, in)
              /\ \E names : file' = Image(obj', stored', names)
<1>1. call \in [Admins -> Calls] /\ acked \in [Ids -> Configs \union {NoBackend, Unknown}]
  BY DEF AInv, AdminTypes, Calls
<1>2. At(step, i, in) \in Calls /\ Idle \in Calls BY CallsAreCalls DEF Calls
<1> QED BY <1>1, <1>2 DEF Saved

LEMMA CreateSaveKeeps ==
  ASSUME AInv, Serialized, NEW a \in Admins, NEW i \in Ids, NEW in \in Inputs,
         CreateSave(a, i, in)
  PROVE  AInv'
<1>1. /\ up /\ \A b \in Admins \ {a} : call[b] # Idle => call[b].id # i
  BY Alone DEF CreateSave
<1>2. /\ obj' = [obj EXCEPT ![i] = NewBackend(in)] /\ registered' = registered
      /\ stored' = stored \union {i} /\ Saved(a, i, At("create_add", i, in))
  BY DEF CreateSave, SaveThen, SaveOk, SaveError, Fail, Saved, At
<1>3. "create_add" \in Steps BY DEF Steps
<1>4. /\ obj \in [Ids -> Backend \union {NoBackend}]
      /\ \A j \in registered : j \in Ids /\ obj[j] # NoBackend
      /\ \A j \in stored : j \in Ids /\ obj[j] # NoBackend
  BY DEF AInv, AdminTypes
<1>5. NewBackend(in) \in Backend /\ NewBackend(in) # NoBackend
  BY NewConfig, NoBackendAssumption
<1>6. /\ obj' \in [Ids -> Backend \union {NoBackend}]
      /\ obj'[i] = NewBackend(in) /\ \A j \in Ids \ {i} : obj'[j] = obj[j]
  BY <1>2, <1>4, <1>5
<1>7. StepAt(a, i) BY <1>1, <1>2, <1>3, <1>4, <1>5, <1>6, SavedFacts DEF StepAt
<1>8. ASSUME call'[a] # Idle PROVE Progress(call[a])'
  <2>1. /\ call'[a].step = "create_add" /\ call'[a].id = i /\ call'[a].in = in
    BY <1>2, <1>3, <1>8, SavedFacts, CallsAreCalls
  <2>2. PICK names : file' = Image(obj', stored', names)
    BY <1>2, <1>3, <1>8, SavedFacts
  <2>3. \A k \in stored' : k \in Ids /\ obj'[k] # NoBackend BY <1>7 DEF StepAt
  <2>4. \A k \in stored' :
          Config(Image(obj', stored', names).backends[k]) = Config(obj'[k])
    BY <1>6, <2>3, ImageFacts
  <2>5. i \in stored' /\ Config(file'.backends[i]) = Config(obj'[i])
    BY <1>2, <2>2, <2>4
  <2> QED BY <1>2, <1>6, <2>1, <2>5 DEF Progress, InFile
<1>9. Effect(a, i)
  BY <1>2, <1>3, <1>5, <1>6, <1>8, SavedFacts, CallsAreCalls, UnknownAssumption
     DEF Effect
<1> QED BY <1>7, <1>9, StepKeeps

LEMMA UpdateLookupKeeps ==
  ASSUME AInv, Serialized, NEW a \in Admins, NEW i \in Ids, NEW in \in Inputs,
         UpdateLookup(a, i, in)
  PROVE  AInv'
<1> DEFINE c == At("update_endpoint", i, in)
<1>1. /\ up /\ \A b \in Admins \ {a} : call[b] # Idle => call[b].id # i
  BY Alone DEF UpdateLookup
<1>2. /\ i \in registered /\ call' = [call EXCEPT ![a] = c]
      /\ acked' = [acked EXCEPT ![i] = Unknown]
      /\ UNCHANGED <<obj, registered, stored, file, up>>
  BY DEF UpdateLookup, vars, storeVars
<1>3. /\ c # Idle /\ c \in Calls /\ c.step = "update_endpoint" /\ c.id = i /\ c.in = in
  BY CallsAreCalls DEF Steps
<1> HIDE DEF c
<1>4. AdminTypes /\ call \in [Admins -> Calls] BY DEF AInv, AdminTypes, Calls
<1>5. call'[a] = c /\ acked'[i] = Unknown BY <1>2, <1>4 DEF AdminTypes
<1>6. StepAt(a, i) BY <1>1, <1>2, <1>3, <1>4, <1>5 DEF StepAt, AdminTypes
<1>7. Effect(a, i)
  BY <1>2, <1>3, <1>4, <1>5, UnknownAssumption DEF Effect, Progress, AdminTypes
<1> QED BY <1>6, <1>7, StepKeeps

LEMMA DeleteStoreKeeps ==
  ASSUME AInv, Serialized, NEW a \in Admins, NEW i \in Ids, DeleteStore(a, i)
  PROVE  AInv'
<1> DEFINE c == At("delete_remove", i, NoInput)
<1>1. /\ up /\ \A b \in Admins \ {a} : call[b] # Idle => call[b].id # i
  BY Alone DEF DeleteStore
<1>2. "delete_remove" \in Steps /\ NoInput \in Inputs \union {NoInput} BY DEF Steps
<1>3. /\ c # Idle /\ c \in Calls /\ c.step = "delete_remove" /\ c.id = i
  BY <1>2, CallsAreCalls
<1>4. AdminTypes /\ call \in [Admins -> Calls] BY DEF AInv, AdminTypes, Calls
<1>5. /\ UNCHANGED <<obj, registered>>
      /\ stored' = stored \ {i} /\ up' = up
      /\ file' = file \/ file' = Torn \/ \E names : file' = Image(obj', stored', names)
      /\ acked' = [acked EXCEPT ![i] = Unknown]
      /\ call'[a] \in {Idle, c} /\ call' = [call EXCEPT ![a] = call'[a]]
  <2>1. CASE i \in stored
    <3>1. /\ UNCHANGED <<obj, registered>> /\ stored' = stored \ {i} /\ Saved(a, i, c)
      BY <2>1 DEF DeleteStore, vars, SaveThen, SaveOk, SaveError, Fail, Saved, At
    <3> HIDE DEF c
    <3> QED BY <1>4, <3>1 DEF Saved
  <2>2. CASE i \notin stored
    <3>1. /\ UNCHANGED <<obj, registered, stored, file, up>>
          /\ call' = [call EXCEPT ![a] = c] /\ acked' = [acked EXCEPT ![i] = Unknown]
      BY <2>2 DEF DeleteStore, vars, storeVars
    <3> HIDE DEF c
    <3> QED BY <1>4, <2>2, <3>1
  <2> QED BY <2>1, <2>2
<1> HIDE DEF c
<1>6. acked'[i] = Unknown BY <1>4, <1>5 DEF AdminTypes
<1>7. StepAt(a, i) BY <1>1, <1>3, <1>4, <1>5, <1>6 DEF StepAt, AdminTypes, Calls
<1>8. Effect(a, i) BY <1>3, <1>5, <1>6, UnknownAssumption DEF Effect, Progress
<1> QED BY <1>7, <1>8, StepKeeps

\* The steps on the object itself, and the answers.
LEMMA UpdateEndpointKeeps ==
  ASSUME AInv, NEW a \in Admins, UpdateEndpoint(a)
  PROVE  AInv'
<1>1. call[a].step = "update_endpoint" /\ call[a] # Idle BY DEF UpdateEndpoint, Idle
<1>2. PICK i \in Ids : i = call[a].id BY <1>1, InFlight
<1>3. PICK in \in Inputs : in = call[a].in BY <1>1, InFlight
<1>4. /\ obj' = [obj EXCEPT ![i] = SetEndpoint(@, in)]
      /\ call' = [call EXCEPT ![a].step = "update_rest"]
      /\ UNCHANGED <<registered, stored, file, up, acked>>
  BY <1>2, <1>3 DEF UpdateEndpoint, storeVars
<1>5. AdminTypes /\ call \in [Admins -> Calls] BY DEF AInv, AdminTypes, Calls
<1>6. /\ up /\ acked[i] = Unknown /\ obj[i] \in Backend
      /\ \A b \in Admins \ {a} : call[b] # Idle => call[b].id # i
      /\ call[a] \in [step : Steps, id : Ids, in : Inputs \union {NoInput}]
  BY <1>1, <1>2, InFlight
<1>7. /\ SetEndpoint(obj[i], in) \in Backend
      /\ Config(SetEndpoint(obj[i], in)).endpoint = in.endpoint
  BY <1>6, EditedConfig
<1>8. /\ obj' \in [Ids -> Backend \union {NoBackend}] /\ obj'[i] = SetEndpoint(obj[i], in)
      /\ obj'[i] # NoBackend /\ \A j \in Ids \ {i} : obj'[j] = obj[j]
  BY <1>4, <1>5, <1>7, NoBackendAssumption DEF AdminTypes
<1>9. /\ call'[a] \in Calls /\ call'[a].step = "update_rest" /\ call'[a].id = i
      /\ call'[a].in = in /\ call' = [call EXCEPT ![a] = call'[a]]
  BY <1>2, <1>3, <1>4, <1>5, <1>6 DEF Calls, Steps
<1>10. StepAt(a, i) BY <1>4, <1>5, <1>6, <1>8, <1>9 DEF StepAt, AdminTypes
<1>11. Effect(a, i)
  BY <1>4, <1>6, <1>7, <1>8, <1>9, UnknownAssumption DEF Effect, Progress
<1> QED BY <1>10, <1>11, StepKeeps

LEMMA UpdateRestKeeps ==
  ASSUME AInv, NEW a \in Admins, UpdateRest(a)
  PROVE  AInv'
<1>1. call[a].step = "update_rest" /\ call[a] # Idle BY DEF UpdateRest, Idle
<1>2. PICK i \in Ids : i = call[a].id BY <1>1, InFlight
<1>3. PICK in \in Inputs : in = call[a].in BY <1>1, InFlight
<1>4. /\ obj' = [obj EXCEPT ![i] = SetRest(@, in)]
      /\ call' = [call EXCEPT ![a].step = "update_save"]
      /\ UNCHANGED <<registered, stored, file, up, acked>>
  BY <1>2, <1>3 DEF UpdateRest, storeVars
<1>5. AdminTypes /\ call \in [Admins -> Calls] BY DEF AInv, AdminTypes, Calls
<1>6. /\ up /\ acked[i] = Unknown /\ obj[i] \in Backend
      /\ \A b \in Admins \ {a} : call[b] # Idle => call[b].id # i
      /\ call[a] \in [step : Steps, id : Ids, in : Inputs \union {NoInput}]
      /\ Config(obj[i]).endpoint = in.endpoint
  BY <1>1, <1>2, <1>3, InFlight DEF Progress
<1>7. /\ SetRest(obj[i], in) \in Backend
      /\ Config(SetRest(obj[i], in)) = Wanted(Config(SetRest(obj[i], in)), in)
  BY <1>6, EditedConfig
<1>8. /\ obj' \in [Ids -> Backend \union {NoBackend}] /\ obj'[i] = SetRest(obj[i], in)
      /\ obj'[i] # NoBackend /\ \A j \in Ids \ {i} : obj'[j] = obj[j]
  BY <1>4, <1>5, <1>7, NoBackendAssumption DEF AdminTypes
<1>9. /\ call'[a] \in Calls /\ call'[a].step = "update_save" /\ call'[a].id = i
      /\ call'[a].in = in /\ call' = [call EXCEPT ![a] = call'[a]]
  BY <1>2, <1>3, <1>4, <1>5, <1>6 DEF Calls, Steps
<1>10. StepAt(a, i) BY <1>4, <1>5, <1>6, <1>8, <1>9 DEF StepAt, AdminTypes
<1>11. Effect(a, i)
  BY <1>4, <1>6, <1>7, <1>8, <1>9, UnknownAssumption DEF Effect, Progress
<1> QED BY <1>10, <1>11, StepKeeps

LEMMA UpdateSaveKeeps ==
  ASSUME AInv, NEW a \in Admins, UpdateSave(a)
  PROVE  AInv'
<1>1. call[a].step = "update_save" /\ call[a] # Idle BY DEF UpdateSave, Idle
<1>2. PICK i \in Ids : i = call[a].id BY <1>1, InFlight
<1>3. PICK in \in Inputs : in = call[a].in BY <1>1, InFlight
<1>4. /\ stored' = stored \union {i} /\ UNCHANGED <<obj, registered>>
      /\ Saved(a, i, At("update_add", i, in))
  BY <1>2, <1>3 DEF UpdateSave, vars, SaveThen, SaveOk, SaveError, Fail, Saved, At
<1>5. AdminTypes BY DEF AInv
<1>6. /\ up /\ obj[i] \in Backend /\ obj[i] # NoBackend
      /\ \A b \in Admins \ {a} : call[b] # Idle => call[b].id # i
      /\ Config(obj[i]) = Wanted(Config(obj[i]), in)
  BY <1>1, <1>2, <1>3, InFlight, NoBackendAssumption DEF Progress
<1>7. "update_add" \in Steps BY DEF Steps
<1>8. StepAt(a, i) BY <1>4, <1>5, <1>6, <1>7, SavedFacts DEF StepAt, AdminTypes
<1>9. ASSUME call'[a] # Idle PROVE Progress(call[a])'
  <2>1. /\ call'[a].step = "update_add" /\ call'[a].id = i /\ call'[a].in = in
    BY <1>4, <1>7, <1>9, SavedFacts, CallsAreCalls
  <2>2. PICK names : file' = Image(obj', stored', names)
    BY <1>4, <1>7, <1>9, SavedFacts
  <2>3. /\ \A k \in stored' : k \in Ids /\ obj'[k] # NoBackend
        /\ obj' \in [Ids -> Backend \union {NoBackend}]
    BY <1>8 DEF StepAt
  <2>4. \A k \in stored' :
          Config(Image(obj', stored', names).backends[k]) = Config(obj'[k])
    BY <2>3, ImageFacts
  <2>5. i \in stored' /\ Config(file'.backends[i]) = Config(obj'[i])
    BY <1>4, <2>2, <2>4
  <2> QED BY <1>4, <1>6, <2>1, <2>5 DEF Progress, InFile
<1>10. Effect(a, i)
  <2>1. acked'[i] = Unknown BY <1>4, <1>7, SavedFacts
  <2>2. call'[a] # Idle => call'[a] = At("update_add", i, in)
    BY <1>4, <1>7, SavedFacts
  <2>3. At("update_add", i, in).id = i /\ At("update_add", i, in).in = in
    BY DEF At
  <2> QED BY <1>4, <1>6, <1>9, <2>1, <2>2, <2>3, UnknownAssumption DEF Effect
<1> QED BY <1>8, <1>10, StepKeeps

\* What a request that ends acknowledges is in memory and in the file.
LEMMA EndKeeps ==
  ASSUME AInv, NEW a \in Admins, NEW i \in Ids, call[a] # Idle, call[a].id = i,
         call' = [call EXCEPT ![a] = Idle],
         acked' = [acked EXCEPT ![i] = acked'[i]],
         acked'[i] \in Configs \union {NoBackend},
         acked'[i] \in Configs =>
           i \in stored /\ Config(obj[i]) = acked'[i] /\ InFile(i, Config(obj[i])),
         \A j \in registered' : j \in registered \/ (j = i /\ obj[i] # NoBackend),
         UNCHANGED <<obj, stored, file, up>>
  PROVE  AInv'
<1>1. AdminTypes /\ call \in [Admins -> Calls] BY DEF AInv, AdminTypes, Calls
<1>2. up /\ \A b \in Admins \ {a} : call[b] # Idle => call[b].id # i BY InFlight
<1>3. call'[a] = Idle /\ Idle \in Calls BY <1>1 DEF Calls
<1>4. StepAt(a, i) BY <1>1, <1>2, <1>3 DEF StepAt, AdminTypes
<1>5. Effect(a, i) BY <1>3 DEF Effect, InFile
<1> QED BY <1>4, <1>5, StepKeeps

LEMMA CreateAddKeeps ==
  ASSUME AInv, NEW a \in Admins, CreateAdd(a)
  PROVE  AInv'
<1>1. call[a].step = "create_add" /\ call[a] # Idle BY DEF CreateAdd, Idle
<1>2. PICK i \in Ids : i = call[a].id BY <1>1, InFlight
<1>3. PICK in \in Inputs : in = call[a].in BY <1>1, InFlight
<1>4. /\ call' = [call EXCEPT ![a] = Idle]
      /\ acked' = [acked EXCEPT ![i] = Config(NewBackend(in))]
      /\ registered' = registered \union {i} /\ UNCHANGED <<obj, stored, file, up>>
  BY <1>2, <1>3 DEF CreateAdd, Acknowledge, Add, storeVars
<1>5. acked \in [Ids -> Configs \union {NoBackend, Unknown}] BY DEF AInv, AdminTypes
<1>6. acked'[i] = Config(NewBackend(in)) /\ acked'[i] \in Configs
  BY <1>4, <1>5, NewConfig
<1>7. /\ obj[i] \in Backend /\ obj[i] # NoBackend
      /\ i \in stored /\ Config(obj[i]) = acked'[i] /\ InFile(i, Config(obj[i]))
  BY <1>1, <1>2, <1>3, <1>6, InFlight, NoBackendAssumption DEF Progress
<1>8. acked' = [acked EXCEPT ![i] = acked'[i]] BY <1>4, <1>6
<1> QED BY <1>1, <1>2, <1>4, <1>6, <1>7, <1>8, EndKeeps

LEMMA UpdateAddKeeps ==
  ASSUME AInv, NEW a \in Admins, UpdateAdd(a)
  PROVE  AInv'
<1>1. call[a].step = "update_add" /\ call[a] # Idle BY DEF UpdateAdd, Idle
<1>2. PICK i \in Ids : i = call[a].id BY <1>1, InFlight
<1>3. PICK in \in Inputs : in = call[a].in BY <1>1, InFlight
<1> DEFINE config == Config(SetRest(SetEndpoint(obj[i], in), in))
<1>4. /\ call' = [call EXCEPT ![a] = Idle]
      /\ acked' = [acked EXCEPT ![i] = config]
      /\ registered' = registered \union {i} /\ UNCHANGED <<obj, stored, file, up>>
  BY <1>2, <1>3 DEF UpdateAdd, Acknowledge, Add, storeVars
<1>5. /\ obj[i] \in Backend /\ obj[i] # NoBackend
      /\ i \in stored /\ Config(obj[i]) = Wanted(Config(obj[i]), in)
      /\ InFile(i, Config(obj[i]))
  BY <1>1, <1>2, <1>3, InFlight, NoBackendAssumption DEF Progress
<1>6. config = Config(obj[i]) /\ config \in Configs
  BY <1>5, EditedConfig, ConfigFacts
<1> HIDE DEF config
<1>7. acked \in [Ids -> Configs \union {NoBackend, Unknown}] BY DEF AInv, AdminTypes
<1>8. acked'[i] = config /\ acked' = [acked EXCEPT ![i] = acked'[i]] BY <1>4, <1>7
<1>9. /\ acked'[i] \in Configs /\ Config(obj[i]) = acked'[i]
      /\ \A j \in registered' : j \in registered \/ (j = i /\ obj[i] # NoBackend)
  BY <1>4, <1>5, <1>6, <1>8
<1> QED BY <1>1, <1>2, <1>4, <1>5, <1>8, <1>9, EndKeeps

LEMMA DeleteRemoveKeeps ==
  ASSUME AInv, NEW a \in Admins, DeleteRemove(a)
  PROVE  AInv'
<1>1. call[a].step = "delete_remove" /\ call[a] # Idle BY DEF DeleteRemove, Idle
<1>2. PICK i \in Ids : i = call[a].id BY <1>1, InFlight
<1>3. /\ call' = [call EXCEPT ![a] = Idle] /\ acked' = [acked EXCEPT ![i] = NoBackend]
      /\ registered' \subseteq registered /\ UNCHANGED <<obj, stored, file, up>>
  BY <1>2 DEF DeleteRemove, Acknowledge, Remove, storeVars, vars
<1>4. acked \in [Ids -> Configs \union {NoBackend, Unknown}] BY DEF AInv, AdminTypes
<1>5. acked'[i] = NoBackend /\ acked' = [acked EXCEPT ![i] = acked'[i]] BY <1>3, <1>4
<1>6. acked'[i] \notin Configs BY <1>5, UnknownAssumption
<1> QED BY <1>1, <1>2, <1>3, <1>5, <1>6, EndKeeps

-----------------------------------------------------------------------------
(* Steps of the process                                                    *)

\* Saving a strategy rewrites the backends too.
LEMMA SetStrategyKeeps ==
  ASSUME AInv, NEW m, NEW name, SetStrategy(m, name)
  PROVE  AInv'
<1>1. /\ up /\ up' = up /\ UNCHANGED <<obj, registered, stored, call, acked>>
      /\ file' = file \/ file' = Torn \/ \E names : file' = Image(obj, stored, names)
  BY DEF SetStrategy, vars, SaveOk, SaveError
<1>2. AdminTypes BY DEF AInv
<1>3. /\ file' # Torn => file'.backends \in [Ids -> Backend \union {NoBackend}]
      /\ \A i \in stored : InFile(i, Config(obj[i])) => InFile(i, Config(obj[i]))'
  <2>1. CASE file' = file BY <1>1, <1>2, <2>1 DEF AdminTypes, InFile
  <2>2. ASSUME NEW names, file' = Image(obj, stored, names)
        PROVE  /\ file'.backends \in [Ids -> Backend \union {NoBackend}]
               /\ \A i \in stored : InFile(i, Config(obj[i]))'
    <3>1. /\ obj \in [Ids -> Backend \union {NoBackend}]
          /\ \A k \in stored : k \in Ids /\ obj[k] # NoBackend
      BY <1>2 DEF AdminTypes
    <3>2. /\ Image(obj, stored, names).backends \in [Ids -> Backend \union {NoBackend}]
          /\ \A k \in stored :
               Config(Image(obj, stored, names).backends[k]) = Config(obj[k])
      BY <3>1, ImageFacts
    <3> QED BY <1>1, <2>2, <3>2 DEF InFile
  <2>3. CASE file' = Torn BY <2>3 DEF InFile
  <2> QED BY <1>1, <2>1, <2>2, <2>3
<1>4. AdminTypes' BY <1>1, <1>2, <1>3 DEF AdminTypes
<1>5. Turns' BY <1>1 DEF AInv, Turns
<1>6. ASSUME NEW i \in Ids PROVE Ack(i)'
  <2> SUFFICES ASSUME acked[i] \in Configs
               PROVE  i \in stored /\ Config(obj[i]) = acked[i] /\ InFile(i, acked[i])'
    BY <1>1 DEF Ack
  <2>1. i \in stored /\ Config(obj[i]) = acked[i] /\ InFile(i, acked[i])
    BY <1>1 DEF AInv, Ack
  <2>2. InFile(i, Config(obj[i]))' BY <1>3, <2>1
  <2> QED BY <1>1, <2>1, <2>2 DEF InFile
<1>7. ASSUME NEW a \in Admins, call[a] # Idle PROVE Progress(call[a])'
  <2>1. Progress(call[a]) BY <1>7 DEF AInv, Underway
  <2>2. call[a].step \in {"update_add", "create_add"} =>
          call[a].id \in stored /\ InFile(call[a].id, Config(obj[call[a].id]))'
    <3> SUFFICES ASSUME call[a].step \in {"update_add", "create_add"}
                 PROVE  call[a].id \in stored /\ InFile(call[a].id, Config(obj[call[a].id]))'
      OBVIOUS
    <3>1. call[a].id \in stored /\ InFile(call[a].id, Config(obj[call[a].id]))
      BY <2>1 DEF Progress
    <3>2. PICK i \in stored : i = call[a].id BY <3>1
    <3>3. InFile(i, Config(obj[i])) BY <3>1, <3>2
    <3>4. InFile(i, Config(obj[i]))' BY <1>3, <3>3
    <3> QED BY <1>1, <3>2, <3>4 DEF InFile
  <2> QED BY <1>1, <2>1, <2>2 DEF Progress, InFile
<1> QED BY <1>1, <1>4, <1>5, <1>6, <1>7 DEF AInv, Underway

\* Traffic changes counters and quotas, which are nobody's configuration.
LEMMA TrafficKeepsConfigs ==
  ASSUME AInv, Traffic
  PROVE  /\ obj' \in [Ids -> Backend \union {NoBackend}] /\ registered' = registered
         /\ \A i \in Ids : Config(obj'[i]) = Config(obj[i])
                           /\ (obj'[i] = NoBackend <=> obj[i] = NoBackend)
<1>1. /\ obj \in [Ids -> Backend \union {NoBackend}]
      /\ \A i \in registered : i \in Ids /\ obj[i] # NoBackend
  BY DEF AInv, AdminTypes
<1>2. ASSUME NEW i \in registered, NEW b \in Backend, Config(b) = Config(obj[i]),
             obj' = [obj EXCEPT ![i] = b]
      PROVE  /\ obj' \in [Ids -> Backend \union {NoBackend}]
             /\ \A j \in Ids : Config(obj'[j]) = Config(obj[j])
                               /\ (obj'[j] = NoBackend <=> obj[j] = NoBackend)
  BY <1>1, <1>2, NoBackendAssumption
<1>3. ASSUME NEW i \in Ids, NEW n \in Counts, RecordTokens(i, n)
      PROVE  \E b \in Backend : Config(b) = Config(obj[i]) /\ obj' = [obj EXCEPT ![i] = b]
                                /\ i \in registered /\ registered' = registered
  <2> DEFINE b == [obj[i] EXCEPT !.used = @ + n]
  <2>1. i \in registered /\ obj' = [obj EXCEPT ![i] = b] /\ registered' = registered
    BY <1>3 DEF RecordTokens
  <2>2. obj[i] \in Backend /\ n \in Nat BY <1>1, <2>1, CountsAssumption
  <2>3. /\ b \in Backend /\ b.endpoint = obj[i].endpoint /\ b.key = obj[i].key
        /\ b.models = obj[i].models /\ b.balance = obj[i].balance
    BY <2>2 DEF Backend
  <2> HIDE DEF b
  <2>4. Config(b) = Config(obj[i]) BY <2>2, <2>3, ConfigFacts
  <2> QED BY <2>1, <2>3, <2>4
<1>4. ASSUME NEW i \in Ids, NEW h \in Headers, CaptureRateLimits(i, h)
      PROVE  \E b \in Backend : Config(b) = Config(obj[i]) /\ obj' = [obj EXCEPT ![i] = b]
                                /\ i \in registered /\ registered' = registered
  <2> DEFINE b == CaptureRateLimitHeaders(obj[i], h)
  <2>1. i \in registered /\ obj' = [obj EXCEPT ![i] = b] /\ registered' = registered
    BY <1>4 DEF CaptureRateLimits
  <2>2. obj[i] \in Backend /\ h \in RateHeaders BY <1>1, <2>1, HeadersAssumption
  <2>3. b \in Backend BY <2>2, CaptureFacts
  <2>4. /\ b.endpoint = obj[i].endpoint /\ b.key = obj[i].key
        /\ b.models = obj[i].models /\ b.balance = obj[i].balance
    BY <2>2 DEF CaptureRateLimitHeaders, Backend
  <2> HIDE DEF b
  <2>5. Config(b) = Config(obj[i]) BY <2>2, <2>3, <2>4, ConfigFacts
  <2> QED BY <2>1, <2>3, <2>5
<1> QED BY <1>2, <1>3, <1>4 DEF Traffic

LEMMA ServeKeeps ==
  ASSUME AInv, Serve
  PROVE  AInv'
<1>1. UNCHANGED <<stored, file, up, call, acked>> BY DEF Serve, adminVars, storeVars
<1>2. /\ obj' \in [Ids -> Backend \union {NoBackend}] /\ registered' = registered
      /\ \A i \in Ids : Config(obj'[i]) = Config(obj[i])
                        /\ (obj'[i] = NoBackend <=> obj[i] = NoBackend)
  <2>1. CASE Traffic BY <2>1, TrafficKeepsConfigs
  <2>2. CASE SnapshotRefresh BY <2>2 DEF SnapshotRefresh, AInv, AdminTypes
  <2> QED BY <2>1, <2>2 DEF Serve
<1>3. \A a \in Admins : call[a] # Idle => call[a].id \in Ids
  BY DEF AInv, AdminTypes
<1>4. AdminTypes' BY <1>1, <1>2, <1>3 DEF AInv, AdminTypes
<1>5. Turns' BY <1>1 DEF AInv, Turns
<1>6. \A i \in Ids : Ack(i)' BY <1>1, <1>2 DEF AInv, Ack, InFile
<1>7. ASSUME NEW a \in Admins, call[a] # Idle PROVE Progress(call[a])'
  <2>1. Progress(call[a]) BY <1>7 DEF AInv, Underway
  <2>2. Config(obj'[call[a].id]) = Config(obj[call[a].id]) BY <1>2, <1>3, <1>7
  <2> QED BY <1>1, <2>1, <2>2 DEF Progress, InFile
<1> QED BY <1>1, <1>4, <1>5, <1>6, <1>7 DEF AInv, Underway

\* A crash forgets the requests in flight; about their backends nothing is
\* promised any more.
LEMMA CrashKeeps ==
  ASSUME AInv, Crash \/ CrashInSave
  PROVE  AInv'
<1>1. /\ ~ up' /\ UNCHANGED <<obj, registered, stored>>
      /\ call' = [a \in Admins |-> Idle]
      /\ acked' = [id \in Ids |-> IF Busy(id) THEN Unknown ELSE acked[id]]
      /\ file' = file \/ file' = Torn
  BY DEF Crash, CrashInSave, Down, vars
<1>2. AdminTypes' BY <1>1 DEF AInv, AdminTypes
<1>3. Turns' /\ Underway' BY <1>1 DEF Turns, Underway
<1>4. ASSUME NEW i \in Ids PROVE Ack(i)'
  BY <1>1, UnknownAssumption DEF AInv, Ack, InFile
<1> QED BY <1>2, <1>3, <1>4 DEF AInv

LEMMA RestartKeeps ==
  ASSUME AInv, Restart
  PROVE  AInv'
<1>1. /\ ~ up /\ file # Torn /\ UNCHANGED <<file, call, acked>>
      /\ obj' = file.backends
      /\ registered' = {id \in Ids : file.backends[id] # NoBackend}
      /\ stored' = {id \in Ids : file.backends[id] # NoBackend}
  BY DEF Restart, Load
<1>2. \A a \in Admins : call'[a] = Idle BY <1>1 DEF AInv, AdminTypes
<1>3. AdminTypes' BY <1>1, <1>2 DEF AInv, AdminTypes
<1>4. Turns' /\ Underway' BY <1>2 DEF Turns, Underway
<1>5. ASSUME NEW i \in Ids PROVE Ack(i)'
  <2> SUFFICES ASSUME acked[i] \in Configs
               PROVE  i \in stored' /\ Config(obj'[i]) = acked[i] /\ InFile(i, acked[i])
    BY <1>1 DEF Ack, InFile
  <2>1. Config(file.backends[i]) = acked[i] /\ InFile(i, acked[i])
    BY <1>1 DEF AInv, Ack, InFile
  <2>2. file.backends[i] # NoBackend BY <2>1, UnknownAssumption DEF Config
  <2> QED BY <1>1, <2>1, <2>2
<1> QED BY <1>3, <1>4, <1>5 DEF AInv

-----------------------------------------------------------------------------
LEMMA AInitially == AdminInit => AInv
<1> SUFFICES ASSUME AdminInit PROVE AInv OBVIOUS
<1>1. PICK f \in Loads :
        /\ obj = f /\ registered = Load(f).registered /\ stored = Load(f).registered
        /\ file = [backends |-> f, strategies |-> [m \in Models |-> NoStrategy]]
        /\ acked = [id \in Ids |-> Config(f[id])]
  BY DEF AdminInit
<1>2. up /\ \A a \in Admins : call[a] = Idle BY DEF AdminInit
<1>3. call \in [Admins -> {Idle}] BY DEF AdminInit
<1>4. f \in [Ids -> Backend \union {NoBackend}] BY LoadsAssumption
<1>5. \A id \in Ids : Config(f[id]) \in Configs \union {NoBackend}
  BY <1>4, ConfigFacts DEF Config
<1>6. /\ registered = {id \in Ids : f[id] # NoBackend} /\ stored = registered
      /\ file.backends = f
  BY <1>1 DEF Load
<1>7. AdminTypes BY <1>1, <1>2, <1>3, <1>4, <1>5, <1>6 DEF AdminTypes
<1>8. Turns /\ Underway BY <1>2 DEF Turns, Underway
<1>9. ASSUME NEW i \in Ids PROVE Ack(i)
  <2> SUFFICES ASSUME acked[i] \in Configs PROVE i \in stored BY <1>1, <1>6 DEF Ack, InFile
  <2>1. f[i] # NoBackend BY <1>1, UnknownAssumption DEF Config
  <2> QED BY <1>6, <2>1
<1> QED BY <1>7, <1>8, <1>9 DEF AInv

LEMMA AKept == ASSUME Serialized PROVE AInv /\ [AdminNext]_allVars => AInv'
<1> SUFFICES ASSUME AInv, [AdminNext]_allVars PROVE AInv' OBVIOUS
<1>1. CASE Request
  BY <1>1, CreateSaveKeeps, UpdateLookupKeeps, DeleteStoreKeeps DEF Request
<1>2. ASSUME NEW a \in Admins, Proceed(a) PROVE AInv'
  BY <1>2, CreateAddKeeps, UpdateEndpointKeeps, UpdateRestKeeps, UpdateSaveKeeps,
     UpdateAddKeeps, DeleteRemoveKeeps DEF Proceed
<1>3. CASE \E m \in Mapped, name \in Strategies : SetStrategy(m, name)
  BY <1>3, SetStrategyKeeps
<1>4. CASE CacheRefresh \/ FailedStart \/ UNCHANGED allVars
  <2>1. UNCHANGED <<obj, registered, stored, file, up, call, acked>>
    BY <1>4 DEF CacheRefresh, FailedStart, allVars, vars, adminVars, storeVars
  <2> QED BY <2>1 DEF AInv, AdminTypes, Turns, Ack, InFile, Underway, Progress
<1>5. CASE Serve BY <1>5, ServeKeeps
<1>6. CASE Crash \/ CrashInSave BY <1>6, CrashKeeps
<1>7. CASE Restart BY <1>7, RestartKeeps
<1> QED BY <1>1, <1>2, <1>3, <1>4, <1>5, <1>6, <1>7, Zenon DEF AdminNext

(***************************************************************************)
(* When clients take turns on a backend, what they were told is what a     *)
(* restart will load, whatever fails, tears or crashes in between (store.go*)
(* :53, :70; router.go:158, :203).                                         *)
(***************************************************************************)
THEOREM AcknowledgedSurvives ==
  ASSUME Serialized
  PROVE  AdminSpec => []DurableAck
<1>1. AInv => DurableAck BY DEF AInv, Ack, InFile, DurableAck
<1>2. AInv /\ [AdminNext]_allVars => AInv' BY AKept
<1> QED BY AInitially, <1>1, <1>2, PTL DEF AdminSpec

-----------------------------------------------------------------------------
(* What is deleted, and what is consumed                                   *)

UpdateSteps == {"update_endpoint", "update_rest", "update_save", "update_add"}

\* An update that is under way is about a registered backend: nobody else can
\* remove it meanwhile.
UpdatesRegistered ==
  \A a \in Admins : (call[a] # Idle /\ call[a].step \in UpdateSteps) =>
    call[a].id \in registered

\* A backend that enters the registry is being created or loaded.
Enters(i) ==
  \/ ~ up
  \/ \E a \in Admins : call[a] # Idle /\ call[a].step = "create_add" /\ call[a].id = i

\* A request's step that takes nothing out of the registry but what it removes.
LEMMA OthersStayRegistered ==
  ASSUME AInv, UpdatesRegistered, NEW a \in Admins,
         call' = [call EXCEPT ![a] = call'[a]],
         \A b \in Admins \ {a} : call[b] # Idle /\ call[b].step \in UpdateSteps
           /\ call[b].id \in registered => call[b].id \in registered',
         (call'[a] # Idle /\ call'[a].step \in UpdateSteps) => call'[a].id \in registered'
  PROVE  UpdatesRegistered'
<1>1. call \in [Admins -> Calls] BY DEF AInv, AdminTypes, Calls
<1>2. \A b \in Admins \ {a} : call'[b] = call[b] BY <1>1
<1> QED BY <1>2 DEF UpdatesRegistered

LEMMA RequestsKeepRegistered ==
  ASSUME AInv, UpdatesRegistered, Request
  PROVE  UpdatesRegistered' /\ registered' = registered
<1>0. call \in [Admins -> Calls] BY DEF AInv, AdminTypes, Calls
<1>1. ASSUME NEW a \in Admins, NEW i \in Ids, NEW in \in Inputs, CreateSave(a, i, in)
      PROVE  UpdatesRegistered' /\ registered' = registered
  <2>1. /\ registered' = registered
        /\ \/ call' = [call EXCEPT ![a] = At("create_add", i, in)]
           \/ call' = [call EXCEPT ![a] = Idle]
    BY <1>1 DEF CreateSave, SaveThen, Fail
  <2>2. call' = [call EXCEPT ![a] = call'[a]]
        /\ (call'[a] # Idle => call'[a].step = "create_add")
    BY <1>0, <2>1 DEF At
  <2> QED BY <2>1, <2>2, OthersStayRegistered DEF UpdateSteps
<1>2. ASSUME NEW a \in Admins, NEW i \in Ids, NEW in \in Inputs, UpdateLookup(a, i, in)
      PROVE  UpdatesRegistered' /\ registered' = registered
  <2>1. /\ i \in registered /\ registered' = registered
        /\ call' = [call EXCEPT ![a] = At("update_endpoint", i, in)]
    BY <1>2 DEF UpdateLookup, vars
  <2>2. call' = [call EXCEPT ![a] = call'[a]] /\ call'[a].id = i BY <1>0, <2>1 DEF At
  <2>3. call'[a].id \in registered' BY <2>1, <2>2
  <2>4. UpdatesRegistered' BY <2>1, <2>2, <2>3, OthersStayRegistered
  <2> QED BY <2>1, <2>4
<1>3. ASSUME NEW a \in Admins, NEW i \in Ids, DeleteStore(a, i)
      PROVE  UpdatesRegistered' /\ registered' = registered
  <2>1. /\ registered' = registered
        /\ \/ call' = [call EXCEPT ![a] = At("delete_remove", i, NoInput)]
           \/ call' = [call EXCEPT ![a] = Idle]
    BY <1>3 DEF DeleteStore, SaveThen, Fail, vars
  <2>2. call' = [call EXCEPT ![a] = call'[a]]
        /\ (call'[a] # Idle => call'[a].step = "delete_remove")
    BY <1>0, <2>1 DEF At
  <2> QED BY <2>1, <2>2, OthersStayRegistered DEF UpdateSteps
<1> QED BY <1>1, <1>2, <1>3 DEF Request

LEMMA ProceedKeepsRegistered ==
  ASSUME AInv, UpdatesRegistered, NEW a \in Admins, Proceed(a)
  PROVE  UpdatesRegistered' /\ \A i \in registered' \ registered : Enters(i)
<1>0. call \in [Admins -> Calls] BY DEF AInv, AdminTypes, Calls
<1>1. CASE CreateAdd(a)
  <2>1. call[a].step = "create_add" /\ call[a] # Idle BY <1>1 DEF CreateAdd, Idle
  <2>2. registered' = registered \union {call[a].id} /\ call' = [call EXCEPT ![a] = Idle]
    BY <1>1 DEF CreateAdd, Add, Acknowledge
  <2>3. call' = [call EXCEPT ![a] = call'[a]] /\ call'[a] = Idle BY <1>0, <2>2
  <2>4. UpdatesRegistered' BY <2>2, <2>3, OthersStayRegistered
  <2> QED BY <2>1, <2>2, <2>4 DEF Enters
<1>2. CASE UpdateEndpoint(a) \/ UpdateRest(a)
  <2>1. call[a].step \in UpdateSteps /\ call[a] # Idle /\ registered' = registered
    BY <1>2 DEF UpdateEndpoint, UpdateRest, UpdateSteps, Idle
  <2>2. PICK step \in UpdateSteps : call' = [call EXCEPT ![a].step = step]
    BY <1>2 DEF UpdateEndpoint, UpdateRest, UpdateSteps
  <2>3. call[a] \in [step : Steps, id : Ids, in : Inputs \union {NoInput}]
    BY <1>0, <2>1 DEF Calls
  <2>4. call' = [call EXCEPT ![a] = call'[a]] /\ call'[a].id = call[a].id
    BY <1>0, <2>2, <2>3
  <2>5. call[a].id \in registered BY <2>1 DEF UpdatesRegistered
  <2>6. UpdatesRegistered' BY <2>1, <2>4, <2>5, OthersStayRegistered
  <2> QED BY <2>1, <2>6
<1>3. CASE UpdateSave(a)
  <2>1. call[a].step = "update_save" /\ call[a] # Idle /\ registered' = registered
    BY <1>3 DEF UpdateSave, Idle, vars
  <2>2. \/ call' = [call EXCEPT ![a] = At("update_add", call[a].id, call[a].in)]
        \/ call' = [call EXCEPT ![a] = Idle]
    BY <1>3 DEF UpdateSave, SaveThen, Fail, At
  <2>3. call' = [call EXCEPT ![a] = call'[a]]
        /\ (call'[a] # Idle => call'[a].id = call[a].id)
    BY <1>0, <2>2 DEF At
  <2>4. call[a].id \in registered BY <2>1 DEF UpdatesRegistered, UpdateSteps
  <2>5. UpdatesRegistered' BY <2>1, <2>3, <2>4, OthersStayRegistered
  <2> QED BY <2>1, <2>5
<1>4. CASE UpdateAdd(a)
  <2>1. call[a].step = "update_add" /\ call[a] # Idle BY <1>4 DEF UpdateAdd, Idle
  <2>2. registered' = registered \union {call[a].id} /\ call' = [call EXCEPT ![a] = Idle]
    BY <1>4 DEF UpdateAdd, Add, Acknowledge
  <2>3. call' = [call EXCEPT ![a] = call'[a]] /\ call'[a] = Idle BY <1>0, <2>2
  <2>4. call[a].id \in registered BY <2>1 DEF UpdatesRegistered, UpdateSteps
  <2>5. UpdatesRegistered' BY <2>2, <2>3, OthersStayRegistered
  <2> QED BY <2>2, <2>4, <2>5
<1>5. CASE DeleteRemove(a)
  <2>1. call[a].step = "delete_remove" /\ call[a] # Idle BY <1>5 DEF DeleteRemove, Idle
  <2>2. /\ registered' \in {registered, registered \ {call[a].id}}
        /\ call' = [call EXCEPT ![a] = Idle]
    BY <1>5 DEF DeleteRemove, Remove, Acknowledge, vars
  <2>3. call' = [call EXCEPT ![a] = call'[a]] /\ call'[a] = Idle BY <1>0, <2>2
  <2>4. \A b \in Admins \ {a} : call[b] # Idle => call[b].id # call[a].id
    BY <2>1, InFlight
  <2>5. UpdatesRegistered' BY <2>2, <2>3, <2>4, OthersStayRegistered
  <2> QED BY <2>2, <2>5
<1> QED BY <1>1, <1>2, <1>3, <1>4, <1>5 DEF Proceed

LEMMA RegisteredKept ==
  ASSUME AInv, UpdatesRegistered, [AdminNext]_allVars
  PROVE  UpdatesRegistered' /\ \A i \in registered' \ registered : Enters(i)
<1>1. CASE Request BY <1>1, RequestsKeepRegistered
<1>2. CASE \E a \in Admins : Proceed(a) BY <1>2, ProceedKeepsRegistered
<1>3. ASSUME UNCHANGED <<registered, call>>
      PROVE  UpdatesRegistered' /\ \A i \in registered' \ registered : Enters(i)
  BY <1>3 DEF UpdatesRegistered
<1>4. CASE \/ \E m \in Mapped, name \in Strategies : SetStrategy(m, name)
           \/ CacheRefresh \/ FailedStart \/ UNCHANGED allVars
  BY <1>3, <1>4 DEF SetStrategy, CacheRefresh, FailedStart, allVars, vars, adminVars
<1>5. CASE Serve
  <2>1. call' = call BY <1>5 DEF Serve, adminVars
  <2>2. registered' = registered
    BY <1>5, TrafficKeepsConfigs DEF Serve, SnapshotRefresh
  <2> QED BY <1>3, <2>1, <2>2
<1>6. CASE Crash \/ CrashInSave
  BY <1>6 DEF Crash, CrashInSave, Down, vars, UpdatesRegistered
<1>7. CASE Restart
  <2>1. ~ up /\ call' = call BY <1>7 DEF Restart
  <2> QED BY <2>1 DEF AInv, AdminTypes, UpdatesRegistered, Enters
<1> QED BY <1>1, <1>2, <1>4, <1>5, <1>6, <1>7, Zenon DEF AdminNext

(***************************************************************************)
(* When clients take turns on a backend, an update never brings back what  *)
(* was deleted: only a creation or a start registers a backend that is not *)
(* registered (registry.go:70, router.go:166-209).                         *)
(***************************************************************************)
THEOREM UpdatesDoNotResurrect ==
  ASSUME Serialized
  PROVE  AdminSpec => DeletedStaysDeleted
<1>1. AdminInit => UpdatesRegistered BY DEF AdminInit, UpdatesRegistered
<1>2. AInv /\ UpdatesRegistered /\ [AdminNext]_allVars =>
        UpdatesRegistered' /\ \A i \in registered' \ registered : Enters(i)
  BY RegisteredKept
<1>3. AInv /\ [AdminNext]_allVars => AInv' BY AKept
<1>4. (\A i \in registered' \ registered : Enters(i)) <=>
        \A id \in registered' \ registered :
          \/ ~ up
          \/ \E a \in Admins : call[a] # Idle /\ call[a].step = "create_add"
                               /\ call[a].id = id
  BY DEF Enters
<1>5. AInv /\ UpdatesRegistered /\ [AdminNext]_allVars =>
        [\A id \in registered' \ registered :
          \/ ~ up
          \/ \E a \in Admins : call[a] # Idle /\ call[a].step = "create_add"
                               /\ call[a].id = id]_allVars
  BY <1>2, <1>4
<1> QED BY AInitially, <1>1, <1>2, <1>3, <1>5, PTL DEF AdminSpec, DeletedStaysDeleted

-----------------------------------------------------------------------------
\* The object of i is kept, and so are the tokens it has consumed.
KeepsUsed(i) == obj[i] # NoBackend => obj'[i] # NoBackend /\ obj'[i].used >= obj[i].used

LEMMA TrafficNeverRefunds ==
  ASSUME AInv, Traffic, NEW j \in Ids
  PROVE  KeepsUsed(j)
<1>1. /\ obj \in [Ids -> Backend \union {NoBackend}]
      /\ \A i \in registered : i \in Ids /\ obj[i] \in Backend
  BY DEF AInv, AdminTypes
<1>2. \A b \in Backend : b.used \in Nat BY DEF Backend
<1>3. obj'[j] = NoBackend <=> obj[j] = NoBackend BY TrafficKeepsConfigs
<1>4. ASSUME NEW i \in Ids, NEW n \in Counts, RecordTokens(i, n) PROVE KeepsUsed(j)
  <2>1. /\ i \in registered /\ n \in Nat
        /\ obj' = [obj EXCEPT ![i] = [obj[i] EXCEPT !.used = @ + n]]
    BY <1>4, CountsAssumption DEF RecordTokens
  <2>2. obj[i] \in Backend /\ obj[i].used \in Nat BY <1>1, <1>2, <2>1
  <2>3. [obj[i] EXCEPT !.used = @ + n].used = obj[i].used + n BY <2>2 DEF Backend
  <2>4. obj'[i].used >= obj[i].used BY <1>1, <2>1, <2>2, <2>3
  <2>5. CASE j = i BY <1>3, <2>4, <2>5 DEF KeepsUsed
  <2>6. CASE j # i /\ obj[j] # NoBackend
    <3>1. obj'[j] = obj[j] /\ obj[j].used \in Nat BY <1>1, <1>2, <2>1, <2>6
    <3> QED BY <2>6, <3>1 DEF KeepsUsed
  <2> QED BY <2>5, <2>6 DEF KeepsUsed
<1>5. ASSUME NEW i \in Ids, NEW h \in Headers, CaptureRateLimits(i, h) PROVE KeepsUsed(j)
  <2>1. /\ i \in registered
        /\ obj' = [obj EXCEPT ![i] = CaptureRateLimitHeaders(obj[i], h)]
    BY <1>5 DEF CaptureRateLimits
  <2>2. obj[i] \in Backend /\ obj[i].used \in Nat BY <1>1, <1>2, <2>1
  <2>3. CaptureRateLimitHeaders(obj[i], h).used = obj[i].used
    BY <2>2 DEF Backend, CaptureRateLimitHeaders
  <2>4. obj'[i].used >= obj[i].used BY <1>1, <2>1, <2>2, <2>3
  <2>5. CASE j = i BY <1>3, <2>4, <2>5 DEF KeepsUsed
  <2>6. CASE j # i /\ obj[j] # NoBackend
    <3>1. obj'[j] = obj[j] /\ obj[j].used \in Nat BY <1>1, <1>2, <2>1, <2>6
    <3> QED BY <2>6, <3>1 DEF KeepsUsed
  <2> QED BY <2>5, <2>6 DEF KeepsUsed
<1> QED BY <1>4, <1>5 DEF Traffic

\* The two halves of an update touch the configuration only.
LEMMA EditsNeverRefund ==
  ASSUME AInv, NEW a \in Admins, UpdateEndpoint(a) \/ UpdateRest(a), NEW j \in Ids
  PROVE  KeepsUsed(j)
<1>1. call[a] # Idle /\ call[a].step # "delete_remove"
  BY DEF UpdateEndpoint, UpdateRest, Idle
<1>2. PICK i \in Ids : i = call[a].id BY <1>1, InFlight
<1>3. PICK in \in Inputs : in = call[a].in BY <1>1, InFlight
<1>4. obj[i] \in Backend /\ obj \in [Ids -> Backend \union {NoBackend}]
  BY <1>1, <1>2, InFlight DEF AInv, AdminTypes
<1>5. PICK b \in Backend : b.used = obj[i].used /\ obj' = [obj EXCEPT ![i] = b]
  <2>1. SetEndpoint(obj[i], in) \in Backend /\ SetRest(obj[i], in) \in Backend
    BY <1>4, EditedConfig
  <2>2. SetEndpoint(obj[i], in).used = obj[i].used /\ SetRest(obj[i], in).used = obj[i].used
    BY <1>4 DEF SetEndpoint, SetRest, Backend
  <2>3. \/ obj' = [obj EXCEPT ![i] = SetEndpoint(obj[i], in)]
        \/ obj' = [obj EXCEPT ![i] = SetRest(obj[i], in)]
    BY <1>2, <1>3 DEF UpdateEndpoint, UpdateRest
  <2> QED BY <2>1, <2>2, <2>3
<1>6. \A c \in Backend : c.used \in Nat /\ c # NoBackend
  BY NoBackendAssumption DEF Backend
<1>7. CASE j = i BY <1>4, <1>5, <1>6, <1>7 DEF KeepsUsed
<1>8. CASE j # i
  <2>1. obj'[j] = obj[j] BY <1>4, <1>5, <1>8
  <2> QED BY <1>4, <1>6, <2>1 DEF KeepsUsed
<1> QED BY <1>7, <1>8

LEMMA NothingRefunds ==
  ASSUME AInv, [AdminNext]_allVars, up, up', NEW j \in Ids
  PROVE  KeepsUsed(j)
<1>1. obj \in [Ids -> Backend \union {NoBackend}] BY DEF AInv, AdminTypes
<1>2. \A c \in Backend : c.used \in Nat BY DEF Backend
<1>3. ASSUME obj'[j] = obj[j] PROVE KeepsUsed(j) BY <1>1, <1>2, <1>3 DEF KeepsUsed
<1>4. ASSUME NEW a \in Admins, NEW i \in Ids, NEW in \in Inputs, CreateSave(a, i, in)
      PROVE  KeepsUsed(j)
  <2>1. obj[i] = NoBackend /\ obj' = [obj EXCEPT ![i] = NewBackend(in)]
    BY <1>4 DEF CreateSave
  <2>2. CASE j = i BY <2>1, <2>2 DEF KeepsUsed
  <2>3. CASE j # i BY <1>1, <1>3, <2>1, <2>3
  <2> QED BY <2>2, <2>3
<1>5. CASE Request
  BY <1>3, <1>4, <1>5 DEF Request, UpdateLookup, DeleteStore, vars
<1>6. ASSUME NEW a \in Admins, Proceed(a) PROVE KeepsUsed(j)
  <2>1. CASE UpdateEndpoint(a) \/ UpdateRest(a) BY <2>1, EditsNeverRefund
  <2>2. CASE CreateAdd(a) \/ UpdateSave(a) \/ UpdateAdd(a) \/ DeleteRemove(a)
    BY <1>3, <2>2 DEF CreateAdd, UpdateSave, UpdateAdd, DeleteRemove, Remove, vars
  <2> QED BY <1>6, <2>1, <2>2 DEF Proceed
<1>7. CASE \/ \E m \in Mapped, name \in Strategies : SetStrategy(m, name)
           \/ CacheRefresh \/ FailedStart \/ UNCHANGED allVars
  BY <1>3, <1>7 DEF SetStrategy, CacheRefresh, FailedStart, allVars, vars
<1>8. CASE Serve
  BY <1>3, <1>8, TrafficNeverRefunds DEF Serve, SnapshotRefresh
<1>9. CASE Crash \/ CrashInSave \/ Restart
  BY <1>9 DEF Crash, CrashInSave, Down, Restart
<1> QED BY <1>5, <1>6, <1>7, <1>8, <1>9, Zenon DEF AdminNext

(***************************************************************************)
(* While the process runs, no edit, deletion or quota announcement gives   *)
(* consumed tokens back (router.go:168, registry.go:128).                  *)
(***************************************************************************)
THEOREM NoRefund ==
  ASSUME Serialized
  PROVE  AdminSpec => TokensNeverRefunded
<1>1. AInv /\ [AdminNext]_allVars => AInv' BY AKept
<1>2. AInv /\ [AdminNext]_allVars =>
        [up /\ up' => \A id \in Ids : obj[id] # NoBackend =>
                        obj'[id] # NoBackend /\ obj'[id].used >= obj[id].used]_allVars
  <2> SUFFICES ASSUME AInv, [AdminNext]_allVars, up, up', NEW id \in Ids,
                      obj[id] # NoBackend
               PROVE  obj'[id] # NoBackend /\ obj'[id].used >= obj[id].used
    OBVIOUS
  <2> QED BY NothingRefunds DEF KeepsUsed
<1> QED BY AInitially, <1>1, <1>2, PTL DEF AdminSpec, TokensNeverRefunded

-----------------------------------------------------------------------------
(* The four copies of a backend                                            *)

\* What the registry holds under an id.
Held(id) == IF id \in registered THEN obj[id] ELSE NoBackend

\* List, registry, published clone and file agree on a backend, and both
\* indices lead to it.
Settled(id) ==
  /\ id \in stored <=> id \in registered
  /\ Config(file.backends[id]) = Config(Held(id))
  /\ Config(Published(id)) = Config(Held(id))
  /\ id \in registered => \A m \in obj[id].models :
       id \in byModel[m] /\ id \in snapshot.byModel[m]

CopyTypes ==
  /\ file \in StateFile
  /\ strategies \in [Models -> Strategies \union {NoStrategy}]
  /\ byModel \in [Models -> SUBSET Ids]
  /\ snapshot.backends \in [Ids -> Backend \union {NoBackend}]

\* What is in no list is in no copy of it, and a deletion has left the list.
Gone ==
  /\ \A id \in Ids \ stored : file.backends[id] = NoBackend
  /\ \A id \in Ids \ registered : Published(id) = NoBackend
  /\ \A a \in Admins : (call[a] # Idle /\ call[a].step = "delete_remove") =>
       call[a].id \notin stored

Copies ==
  /\ CopyTypes
  /\ up => /\ file.strategies = strategies /\ Gone
           /\ \A id \in Ids : ~ Busy(id) => Settled(id)

\* A step changes the file only by a save, the snapshot only by publishing.
Written == \/ UNCHANGED <<file, strategies, stored>>
           \/ file' = Image(obj', stored', strategies')
Shown ==
  \/ UNCHANGED <<snapshot, registered>>
  \/ snapshot' = [backends |-> Clones(obj', registered'), byModel |-> byModel']

\* It does nothing to j but, perhaps, save and publish it.
Passes(j) ==
  /\ Config(obj'[j]) = Config(obj[j])
  /\ j \in stored' <=> j \in stored
  /\ j \in registered' <=> j \in registered
  /\ \A m \in Models : j \in byModel'[m] <=> j \in byModel[m]

\* A backend that a step passes over stays settled.
LEMMA PassedOver ==
  ASSUME AInv, AInv', Written, Shown, NEW j \in Ids, Passes(j), Settled(j)
  PROVE  Settled(j)'
<1>1. /\ obj[j] \in Backend \union {NoBackend} /\ obj'[j] \in Backend \union {NoBackend}
      /\ (j \in registered => obj[j] # NoBackend)
      /\ (j \in registered' => obj'[j] # NoBackend)
  BY DEF AInv, AdminTypes
<1>2. Config(Held(j))' = Config(Held(j)) BY DEF Passes, Held
<1>3. (j \in stored' <=> j \in registered') BY DEF Passes, Settled
<1>4. Config(file'.backends[j]) = Config(Held(j))'
  <2>1. CASE UNCHANGED <<file, strategies, stored>> BY <1>2, <2>1 DEF Settled
  <2>2. CASE file' = Image(obj', stored', strategies')
    <3>1. /\ obj' \in [Ids -> Backend \union {NoBackend}]
          /\ \A id \in stored' : id \in Ids /\ obj'[id] # NoBackend
      BY DEF AInv, AdminTypes
    <3>2. CASE j \in stored'
      <4>1. Config(Image(obj', stored', strategies').backends[j]) = Config(obj'[j])
        BY <3>1, <3>2, ImageFacts
      <4> QED BY <1>3, <2>2, <3>2, <4>1 DEF Held
    <3>3. CASE j \notin stored'
      <4>1. file'.backends[j] = NoBackend BY <2>2, <3>3 DEF Image
      <4> QED BY <1>3, <3>3, <4>1 DEF Held
    <3> QED BY <3>2, <3>3
  <2> QED BY <2>1, <2>2 DEF Written
<1>5. Config(Published(j))' = Config(Held(j))'
  <2>1. CASE UNCHANGED <<snapshot, registered>> BY <1>2, <2>1 DEF Settled, Published
  <2>2. CASE snapshot' = [backends |-> Clones(obj', registered'), byModel |-> byModel']
    BY <2>2 DEF Published, Clones, Held
  <2> QED BY <2>1, <2>2 DEF Shown
<1>6. ASSUME j \in registered', NEW m \in obj'[j].models
      PROVE  j \in byModel'[m] /\ j \in snapshot'.byModel[m]
  <2>1. j \in registered /\ obj[j] \in Backend /\ obj'[j] \in Backend
    BY <1>1, <1>6 DEF Passes
  <2>2. Config(obj'[j]) = Config(obj[j]) BY DEF Passes
  <2>3. \A b \in Backend : Config(b).models = b.models BY ConfigFacts
  <2>4. obj'[j].models = obj[j].models BY <2>1, <2>2, <2>3
  <2>5. m \in Models /\ m \in obj[j].models BY <1>6, <2>1, <2>4, BackendFields
  <2>6. j \in byModel[m] /\ j \in snapshot.byModel[m] BY <2>1, <2>5 DEF Settled
  <2>7. j \in byModel'[m] BY <2>5, <2>6 DEF Passes
  <2> QED BY <2>6, <2>7 DEF Shown
<1> QED BY <1>3, <1>4, <1>5, <1>6 DEF Settled

\* The requests As are the ones that act, Is the backends they are at.
Act(As, Is) ==
  /\ \A b \in Admins \ As : call'[b] = call[b] /\ (call[b] # Idle => call[b].id \notin Is)
  /\ \A b \in As : /\ call[b] # Idle => call[b].id \in Is
                   /\ (call'[b] # Idle /\ call'[b].step = "delete_remove")
                        => call'[b].id \notin stored'

Done(Is) == \A j \in Is : ~ Busy(j) => Settled(j)

LEMMA CopiesStep ==
  ASSUME AInv, AInv', Copies, up, up', NEW As \in SUBSET Admins, NEW Is \in SUBSET Ids,
         Written, Shown,
         strategies' \in [Models -> Strategies \union {NoStrategy}],
         byModel' \in [Models -> SUBSET Ids],
         Act(As, Is), \A j \in Ids \ Is : Passes(j), Done(Is)'
  PROVE  Copies'
<1>0. /\ obj' \in [Ids -> Backend \union {NoBackend}]
      /\ \A id \in registered' : id \in Ids
      /\ call \in [Admins -> Calls]
  BY DEF AInv, AdminTypes, Calls
<1>1. /\ file' \in StateFile /\ file'.strategies = strategies'
      /\ \A id \in Ids \ stored' : file'.backends[id] = NoBackend
  <2>1. CASE UNCHANGED <<file, strategies, stored>>
    BY <2>1 DEF Copies, CopyTypes, Gone
  <2>2. CASE file' = Image(obj', stored', strategies')
    <3>1. /\ file'.strategies = strategies'
          /\ file' = [backends |-> file'.backends, strategies |-> strategies']
      BY <2>2 DEF Image
    <3>2. /\ obj' \in [Ids -> Backend \union {NoBackend}]
          /\ \A id \in stored' : id \in Ids /\ obj'[id] # NoBackend
      BY DEF AInv, AdminTypes
    <3>3. file'.backends \in [Ids -> Backend \union {NoBackend}]
      BY <2>2, <3>2, ImageFacts
    <3>4. \A id \in Ids \ stored' : file'.backends[id] = NoBackend
      BY <2>2 DEF Image
    <3>5. file' \in StateFile BY <3>1, <3>3 DEF StateFile
    <3> QED BY <3>1, <3>4, <3>5
  <2> QED BY <2>1, <2>2 DEF Written
<1>2. /\ snapshot'.backends \in [Ids -> Backend \union {NoBackend}]
      /\ \A id \in Ids \ registered' : Published(id)' = NoBackend
  <2>1. CASE UNCHANGED <<snapshot, registered>>
    BY <2>1 DEF Copies, CopyTypes, Gone, Published
  <2>2. CASE snapshot' = [backends |-> Clones(obj', registered'), byModel |-> byModel']
    BY <1>0, <2>2 DEF Clones, Published
  <2> QED BY <2>1, <2>2 DEF Shown
<1>3. ASSUME NEW b \in Admins, call'[b] # Idle, call'[b].step = "delete_remove"
      PROVE  call'[b].id \notin stored'
  <2>1. CASE b \in As BY <1>3, <2>1 DEF Act
  <2>2. CASE b \notin As
    <3>1. call'[b] = call[b] /\ call[b].id \in Ids \ Is BY <1>0, <1>3, <2>2 DEF Act, Calls
    <3>2. call[b].id \notin stored BY <1>3, <3>1 DEF Copies, Gone
    <3> QED BY <3>1, <3>2 DEF Passes
  <2> QED BY <2>1, <2>2
<1>4. ASSUME NEW j \in Ids, ~ Busy(j)' PROVE Settled(j)'
  <2>1. CASE j \in Is BY <1>4, <2>1 DEF Done
  <2>2. CASE j \notin Is
    <3>1. ~ Busy(j) BY <1>4, <2>2 DEF Act, Busy
    <3>2. Settled(j) BY <3>1 DEF Copies
    <3> QED BY <2>2, <3>2, PassedOver
  <2> QED BY <2>1, <2>2
<1> QED BY <1>1, <1>2, <1>3, <1>4 DEF Copies, CopyTypes, Gone

\* A request begins or goes on, and is still at its backend afterwards.
LEMMA WorkCopies ==
  ASSUME AInv, AInv', Copies, up, up', NEW a \in Admins, NEW i \in Ids,
         \A b \in Admins \ {a} : call[b] # Idle => call[b].id # i,
         call[a] # Idle => call[a].id = i,
         call' = [call EXCEPT ![a] = call'[a]], call'[a] # Idle, call'[a].id = i,
         call'[a].step = "delete_remove" => i \notin stored',
         UNCHANGED <<registered, byModel, snapshot, strategies>>,
         \A j \in Ids \ {i} : obj'[j] = obj[j] /\ (j \in stored' <=> j \in stored),
         Written
  PROVE  Copies'
<1>1. call \in [Admins -> Calls] BY DEF AInv, AdminTypes, Calls
<1>2. \A b \in Admins \ {a} : call'[b] = call[b] BY <1>1
<1>3. Busy(i)' BY DEF Busy
<1>4. Shown /\ \A j \in Ids \ {i} : Passes(j) BY DEF Shown, Passes
<1>5. /\ strategies' \in [Models -> Strategies \union {NoStrategy}]
      /\ byModel' \in [Models -> SUBSET Ids]
  BY DEF Copies, CopyTypes
<1>6. {a} \in SUBSET Admins /\ {i} \in SUBSET Ids OBVIOUS
<1>7. Act({a}, {i}) BY <1>2 DEF Act
<1>8. Done({i})' BY <1>3 DEF Done
<1>9. up /\ up' OBVIOUS
<1> QED BY <1>4, <1>5, <1>6, <1>7, <1>8, <1>9, CopiesStep

LEMMA RequestCopies ==
  ASSUME Serialized, Faults \subseteq {"crash"}, AInv, AInv', Copies, Request
  PROVE  Copies'
<1>0. call \in [Admins -> Calls] BY DEF AInv, AdminTypes, Calls
<1>1. ~ SaveError BY DEF SaveError
<1>2. ASSUME NEW a \in Admins, NEW i \in Ids, NEW in \in Inputs, CreateSave(a, i, in)
      PROVE  Copies'
  <2> DEFINE c == At("create_add", i, in)
  <2>1. /\ up /\ call[a] = Idle /\ \A b \in Admins \ {a} : call[b] # Idle => call[b].id # i
    BY <1>2, Alone DEF CreateSave
  <2>2. /\ obj' = [obj EXCEPT ![i] = NewBackend(in)] /\ stored' = stored \union {i}
        /\ call' = [call EXCEPT ![a] = c] /\ up' = up
        /\ file' = Image(obj', stored', strategies')
        /\ UNCHANGED <<registered, byModel, snapshot, strategies>>
    BY <1>1, <1>2 DEF CreateSave, SaveThen, SaveOk, Fail
  <2>3. c # Idle /\ c.id = i /\ c.step = "create_add" BY CallsAreCalls DEF Steps
  <2> HIDE DEF c
  <2>4. call'[a] = c /\ \A j \in Ids \ {i} : obj'[j] = obj[j]
    BY <1>0, <2>2 DEF AInv, AdminTypes
  <2>5. Written BY <2>2 DEF Written
  <2> QED BY <2>1, <2>2, <2>3, <2>4, <2>5, WorkCopies
<1>3. ASSUME NEW a \in Admins, NEW i \in Ids, NEW in \in Inputs, UpdateLookup(a, i, in)
      PROVE  Copies'
  <2> DEFINE c == At("update_endpoint", i, in)
  <2>1. /\ up /\ call[a] = Idle /\ \A b \in Admins \ {a} : call[b] # Idle => call[b].id # i
    BY <1>3, Alone DEF UpdateLookup
  <2>2. /\ call' = [call EXCEPT ![a] = c]
        /\ UNCHANGED <<up, obj, stored, file, registered, byModel, snapshot, strategies>>
    BY <1>3 DEF UpdateLookup, vars, storeVars
  <2>3. c # Idle /\ c.id = i /\ c.step = "update_endpoint" BY CallsAreCalls DEF Steps
  <2> HIDE DEF c
  <2>4. call'[a] = c /\ Written BY <1>0, <2>2 DEF Written
  <2> QED BY <2>1, <2>2, <2>3, <2>4, WorkCopies
<1>4. ASSUME NEW a \in Admins, NEW i \in Ids, DeleteStore(a, i)
      PROVE  Copies'
  <2> DEFINE c == At("delete_remove", i, NoInput)
  <2>1. /\ up /\ call[a] = Idle /\ \A b \in Admins \ {a} : call[b] # Idle => call[b].id # i
    BY <1>4, Alone DEF DeleteStore
  <2>2. /\ call' = [call EXCEPT ![a] = c] /\ stored' = stored \ {i}
        /\ UNCHANGED <<up, obj, registered, byModel, snapshot, strategies>> /\ Written
    <3>1. CASE i \in stored
      BY <1>1, <1>4, <3>1 DEF DeleteStore, SaveThen, SaveOk, Fail, vars, Written
    <3>2. CASE i \notin stored
      BY <1>4, <3>2 DEF DeleteStore, vars, storeVars, Written
    <3> QED BY <3>1, <3>2
  <2>3. c # Idle /\ c.id = i BY CallsAreCalls DEF Steps
  <2> HIDE DEF c
  <2>4. call'[a] = c BY <1>0, <2>2
  <2> QED BY <2>1, <2>2, <2>3, <2>4, WorkCopies
<1> QED BY <1>2, <1>3, <1>4 DEF Request

LEMMA UpdateCopies ==
  ASSUME Faults \subseteq {"crash"}, AInv, AInv', Copies, NEW a \in Admins,
         UpdateEndpoint(a) \/ UpdateRest(a) \/ UpdateSave(a)
  PROVE  Copies'
<1>0. call \in [Admins -> Calls] /\ obj \in [Ids -> Backend \union {NoBackend}]
  BY DEF AInv, AdminTypes, Calls
<1>1. call[a] # Idle /\ call[a].step \in {"update_endpoint", "update_rest", "update_save"}
  BY DEF UpdateEndpoint, UpdateRest, UpdateSave, Idle
<1>2. PICK i \in Ids : i = call[a].id BY <1>1, InFlight
<1>3. /\ up /\ \A b \in Admins \ {a} : call[b] # Idle => call[b].id # i
      /\ call[a] \in [step : Steps, id : Ids, in : Inputs \union {NoInput}]
  BY <1>1, <1>2, InFlight
<1>4. ~ SaveError BY DEF SaveError
<1>5. CASE UpdateEndpoint(a) \/ UpdateRest(a)
  <2>1. /\ \E b : obj' = [obj EXCEPT ![i] = b]
        /\ \E step \in {"update_rest", "update_save"} : call' = [call EXCEPT ![a].step = step]
    <3>1. CASE UpdateEndpoint(a)
      <4>1. /\ obj' = [obj EXCEPT ![i] = SetEndpoint(obj[i], call[a].in)]
            /\ call' = [call EXCEPT ![a].step = "update_rest"]
        BY <1>2, <3>1 DEF UpdateEndpoint
      <4> QED BY <4>1
    <3>2. CASE UpdateRest(a)
      <4>1. /\ obj' = [obj EXCEPT ![i] = SetRest(obj[i], call[a].in)]
            /\ call' = [call EXCEPT ![a].step = "update_save"]
        BY <1>2, <3>2 DEF UpdateRest
      <4> QED BY <4>1
    <3> QED BY <1>5, <3>1, <3>2
  <2>2. UNCHANGED <<up, stored, file, registered, byModel, snapshot, strategies>>
    BY <1>5 DEF UpdateEndpoint, UpdateRest, storeVars
  <2>3. /\ call'[a].id = i /\ call'[a].step \in {"update_rest", "update_save"} /\ call' = [call EXCEPT ![a] = call'[a]]
        /\ \A j \in Ids \ {i} : obj'[j] = obj[j]
    BY <1>0, <1>2, <1>3, <2>1
  <2>4. call'[a] # Idle BY <2>3 DEF Idle
  <2>5. Written BY <2>2 DEF Written
  <2> QED BY <1>2, <1>3, <2>2, <2>3, <2>4, <2>5, WorkCopies
<1>6. CASE UpdateSave(a)
  <2> DEFINE c == At("update_add", i, call[a].in)
  <2>1. /\ call' = [call EXCEPT ![a] = c] /\ stored' = stored \union {i}
        /\ UNCHANGED <<up, obj, registered, byModel, snapshot, strategies>>
        /\ file' = Image(obj', stored', strategies')
    BY <1>2, <1>4, <1>6 DEF UpdateSave, SaveThen, SaveOk, Fail, vars
  <2>2. c # Idle /\ c.id = i /\ c.step = "update_add"
    BY <1>3, CallsAreCalls DEF Steps
  <2> HIDE DEF c
  <2>3. call'[a] = c /\ Written BY <1>0, <2>1 DEF Written
  <2> QED BY <1>2, <1>3, <2>1, <2>2, <2>3, WorkCopies
<1> QED BY <1>5, <1>6

\* The last step of a request leaves its backend settled.
LEMMA EndCopies ==
  ASSUME AInv, AInv', Copies, up, NEW a \in Admins, NEW i \in Ids,
         call[a] # Idle, call[a].id = i, call' = [call EXCEPT ![a] = Idle],
         UNCHANGED <<obj, stored, file, strategies, up>>,
         Shown, byModel' \in [Models -> SUBSET Ids],
         \A j \in Ids \ {i} : /\ j \in registered' <=> j \in registered
                              /\ \A m \in Models : j \in byModel'[m] <=> j \in byModel[m],
         Settled(i)'
  PROVE  Copies'
<1>1. call \in [Admins -> Calls] BY DEF AInv, AdminTypes, Calls
<1>2. call'[a] = Idle /\ \A b \in Admins \ {a} : call'[b] = call[b] BY <1>1
<1>3. \A b \in Admins \ {a} : call[b] # Idle => call[b].id # i BY InFlight
<1>4. Written /\ \A j \in Ids \ {i} : Passes(j) BY DEF Written, Passes
<1>5. strategies' \in [Models -> Strategies \union {NoStrategy}] BY DEF Copies, CopyTypes
<1>6. {a} \in SUBSET Admins /\ {i} \in SUBSET Ids OBVIOUS
<1>7. Act({a}, {i}) BY <1>2, <1>3 DEF Act
<1>8. Done({i})' BY DEF Done
<1>9. up /\ up' OBVIOUS
<1> QED BY <1>4, <1>5, <1>6, <1>7, <1>8, <1>9, CopiesStep

LEMMA AddCopies ==
  ASSUME AInv, AInv', Copies, NEW a \in Admins, CreateAdd(a) \/ UpdateAdd(a)
  PROVE  Copies'
<1>1. call[a] # Idle /\ call[a].step \in {"create_add", "update_add"}
  BY DEF CreateAdd, UpdateAdd, Idle
<1>2. PICK i \in Ids : i = call[a].id BY <1>1, InFlight
<1>3. up /\ obj[i] \in Backend /\ i \in stored /\ InFile(i, Config(obj[i]))
  BY <1>1, <1>2, InFlight DEF Progress
<1> DEFINE old == IF i \in registered THEN obj[i].models ELSE {}
           index == Reindex(byModel, i, old, obj[i].models)
<1>4. /\ registered' = registered \union {i} /\ byModel' = index
      /\ snapshot' = [backends |-> Clones(obj, registered \union {i}), byModel |-> index]
      /\ call' = [call EXCEPT ![a] = Idle]
      /\ UNCHANGED <<obj, stored, file, strategies, up>>
  BY <1>2 DEF CreateAdd, UpdateAdd, Add, Publish, Acknowledge, storeVars
<1>5. byModel \in [Models -> SUBSET Ids] /\ file \in StateFile BY DEF Copies, CopyTypes
<1>6. /\ index \in [Models -> SUBSET Ids]
      /\ \A m \in obj[i].models : i \in index[m]
      /\ \A j \in Ids \ {i}, m \in Models : j \in index[m] <=> j \in byModel[m]
  <2>1. \A m \in Models : index[m] = IF m \in obj[i].models THEN byModel[m] \union {i}
                                     ELSE IF m \in old THEN byModel[m] \ {i} ELSE byModel[m]
    BY DEF Reindex
  <2>2. index \in [Models -> SUBSET Ids] BY <1>5, <2>1 DEF Reindex
  <2>3. obj[i].models \subseteq Models BY <1>3, BackendFields
  <2> QED BY <2>1, <2>2, <2>3
<1> HIDE DEF index
<1>7. Shown BY <1>4 DEF Shown
<1>8. Settled(i)'
  <2>1. Config(file.backends[i]) = Config(obj[i])
    BY <1>3, <1>5, TornAssumption DEF InFile
  <2>2. Held(i)' = obj[i] BY <1>4 DEF Held
  <2>3. Published(i)' = obj[i] BY <1>4 DEF Published, Clones
  <2> QED BY <1>3, <1>4, <1>6, <2>1, <2>2, <2>3 DEF Settled
<1> QED BY <1>1, <1>2, <1>3, <1>4, <1>6, <1>7, <1>8, EndCopies

LEMMA RemoveCopies ==
  ASSUME AInv, AInv', Copies, NEW a \in Admins, DeleteRemove(a)
  PROVE  Copies'
<1>1. call[a].step = "delete_remove" /\ call[a] # Idle BY DEF DeleteRemove, Idle
<1>2. PICK i \in Ids : i = call[a].id BY <1>1, InFlight
<1>3. /\ up /\ i \notin stored /\ file.backends[i] = NoBackend
      /\ byModel \in [Models -> SUBSET Ids]
  BY <1>1, <1>2, InFlight DEF Copies, CopyTypes, Gone
<1>4. /\ call' = [call EXCEPT ![a] = Idle]
      /\ UNCHANGED <<obj, stored, file, strategies, up>>
  BY <1>2 DEF DeleteRemove, Acknowledge, Remove, storeVars, vars
<1>5. CASE i \in registered
  <2> DEFINE index == Reindex(byModel, i, obj[i].models, {})
  <2>1. /\ registered' = registered \ {i} /\ byModel' = index
        /\ snapshot' = [backends |-> Clones(obj, registered \ {i}), byModel |-> index]
    BY <1>2, <1>5 DEF DeleteRemove, Remove, Publish
  <2>2. /\ index \in [Models -> SUBSET Ids]
        /\ \A j \in Ids \ {i}, m \in Models : j \in index[m] <=> j \in byModel[m]
    BY <1>3 DEF Reindex
  <2> HIDE DEF index
  <2>3. Shown BY <1>4, <2>1 DEF Shown
  <2>4. Held(i)' = NoBackend /\ Published(i)' = NoBackend
    BY <2>1 DEF Held, Published, Clones
  <2>5. Settled(i)' BY <1>3, <1>4, <2>1, <2>4 DEF Settled
  <2> QED BY <1>1, <1>2, <1>3, <1>4, <2>1, <2>2, <2>3, <2>5, EndCopies
<1>6. CASE i \notin registered
  <2>1. UNCHANGED <<registered, byModel, snapshot>>
    BY <1>2, <1>6 DEF DeleteRemove, Remove, vars
  <2>2. Published(i) = NoBackend BY <1>3, <1>6 DEF Copies, Gone
  <2>3. Settled(i)' BY <1>3, <1>4, <1>6, <2>1, <2>2 DEF Settled, Held, Published
  <2>4. Shown BY <2>1 DEF Shown
  <2> QED BY <1>1, <1>2, <1>3, <1>4, <2>1, <2>3, <2>4, EndCopies
<1> QED BY <1>5, <1>6

\* What the process does by itself is nobody's request.
LEMMA OwnCopies ==
  ASSUME AInv, AInv', Copies, up, up', UNCHANGED <<call, registered, stored, byModel>>,
         \A j \in Ids : Config(obj'[j]) = Config(obj[j]),
         strategies' \in [Models -> Strategies \union {NoStrategy}],
         Written, Shown
  PROVE  Copies'
<1>1. \A j \in Ids : Passes(j) BY DEF Passes
<1>2. byModel' \in [Models -> SUBSET Ids] BY DEF Copies, CopyTypes
<1>3. {} \in SUBSET Admins /\ {} \in SUBSET Ids OBVIOUS
<1>4. Act({}, {}) /\ Done({})' BY DEF Act, Done
<1> QED BY <1>1, <1>2, <1>3, <1>4, CopiesStep

LEMMA RestartCopies ==
  ASSUME AInv, AInv', Copies, Restart
  PROVE  Copies'
<1> DEFINE f == file.backends
<1>1. /\ obj' = f /\ UNCHANGED <<file, call>> /\ strategies' = file.strategies
      /\ registered' = {id \in Ids : f[id] # NoBackend} /\ stored' = registered'
      /\ byModel' = [m \in Models |-> {id \in registered' : m \in f[id].models}]
      /\ snapshot' = [backends |-> f, byModel |-> byModel']
  BY DEF Restart, Load
<1>2. /\ file \in StateFile /\ f \in [Ids -> Backend \union {NoBackend}]
      /\ \A a \in Admins : call'[a] = Idle
  BY <1>1 DEF Copies, CopyTypes, StateFile, Restart, AInv, AdminTypes
<1>3. strategies' \in [Models -> Strategies \union {NoStrategy}]
  BY <1>1, <1>2 DEF StateFile
<1> HIDE DEF f
<1>4. CopyTypes' BY <1>1, <1>2, <1>3 DEF CopyTypes
<1>5. Gone' BY <1>1, <1>2 DEF Gone, Published, f
<1>6. ASSUME NEW j \in Ids PROVE Settled(j)'
  <2>1. Held(j)' = f[j] /\ Published(j)' = f[j] /\ file'.backends[j] = f[j]
    BY <1>1, <1>2 DEF Held, Published, f
  <2>2. j \in registered' => f[j].models \subseteq Models BY <1>1, <1>2, BackendFields
  <2> QED BY <1>1, <2>1, <2>2 DEF Settled
<1> QED BY <1>1, <1>4, <1>5, <1>6 DEF Copies

LEMMA CopiesInitially == AdminInit => Copies
<1> SUFFICES ASSUME AdminInit PROVE Copies OBVIOUS
<1>1. PICK f \in Loads :
        /\ obj = f /\ registered = Load(f).registered /\ stored = Load(f).registered
        /\ byModel = Load(f).byModel /\ snapshot = Load(f).snapshot
        /\ file = [backends |-> f, strategies |-> [m \in Models |-> NoStrategy]]
  BY DEF AdminInit
<1>2. /\ f \in [Ids -> Backend \union {NoBackend}]
      /\ registered = {id \in Ids : f[id] # NoBackend} /\ stored = registered
      /\ byModel = [m \in Models |-> {id \in registered : m \in f[id].models}]
      /\ snapshot = [backends |-> f, byModel |-> byModel]
      /\ strategies = file.strategies
      /\ strategies \in [Models -> Strategies \union {NoStrategy}]
      /\ \A a \in Admins : call[a] = Idle
  BY <1>1, LoadsAssumption DEF Load, AdminInit
<1>3. CopyTypes BY <1>1, <1>2 DEF CopyTypes, StateFile
<1>4. Gone BY <1>1, <1>2 DEF Gone, Published
<1>5. ASSUME NEW j \in Ids PROVE Settled(j)
  <2>1. Held(j) = f[j] /\ Published(j) = f[j] /\ file.backends[j] = f[j]
    BY <1>1, <1>2 DEF Held, Published
  <2>2. j \in registered => f[j].models \subseteq Models BY <1>2, BackendFields
  <2>3. j \in registered => \A m \in f[j].models :
          j \in byModel[m] /\ j \in snapshot.byModel[m]
    BY <1>2, <2>2
  <2> QED BY <1>1, <1>2, <2>1, <2>3 DEF Settled
<1> QED BY <1>2, <1>3, <1>4, <1>5 DEF Copies

LEMMA CopiesKept ==
  ASSUME Serialized, Faults \subseteq {"crash"}, AInv, AInv', Copies, [AdminNext]_allVars
  PROVE  Copies'
<1>1. CASE Request BY <1>1, RequestCopies
<1>2. ASSUME NEW a \in Admins, Proceed(a) PROVE Copies'
  BY <1>2, AddCopies, UpdateCopies, RemoveCopies DEF Proceed
<1>3. ASSUME NEW m \in Mapped, NEW name \in Strategies, SetStrategy(m, name)
      PROVE  Copies'
  <2>1. /\ up /\ up' /\ UNCHANGED <<call, registered, stored, byModel, obj, snapshot>>
        /\ strategies' = [strategies EXCEPT ![m] = name]
        /\ file' = Image(obj', stored', strategies')
    BY <1>3 DEF SetStrategy, SaveOk, SaveError, vars
  <2>2. strategies' \in [Models -> Strategies \union {NoStrategy}]
    BY <2>1, MappedAssumption DEF Copies, CopyTypes
  <2>3. Written /\ Shown BY <2>1 DEF Written, Shown
  <2> QED BY <2>1, <2>2, <2>3, OwnCopies
<1>4. CASE CacheRefresh \/ FailedStart \/ UNCHANGED allVars
  <2>1. UNCHANGED <<obj, registered, byModel, snapshot, stored, strategies, file, up, call>>
    BY <1>4 DEF CacheRefresh, FailedStart, allVars, vars, adminVars, storeVars
  <2> QED BY <2>1 DEF Copies, CopyTypes, Gone, Settled, Busy, Held, Published
<1>5. CASE Serve
  <2>1. up /\ up' /\ UNCHANGED <<call, stored, strategies, file>>
    BY <1>5 DEF Serve, adminVars, storeVars
  <2>2. /\ UNCHANGED <<registered, byModel>> /\ Shown
        /\ \A j \in Ids : Config(obj'[j]) = Config(obj[j])
    <3>1. CASE Traffic
      <4>1. /\ registered' = registered
            /\ \A j \in Ids : Config(obj'[j]) = Config(obj[j])
        BY <3>1, TrafficKeepsConfigs
      <4>2. UNCHANGED <<byModel, snapshot>>
        BY <3>1 DEF Traffic, RecordTokens, CaptureRateLimits
      <4> QED BY <4>1, <4>2 DEF Shown
    <3>2. CASE SnapshotRefresh BY <3>2 DEF SnapshotRefresh, Publish, Shown
    <3> QED BY <1>5, <3>1, <3>2 DEF Serve
  <2>3. strategies' \in [Models -> Strategies \union {NoStrategy}]
    BY <2>1 DEF Copies, CopyTypes
  <2>4. Written BY <2>1 DEF Written
  <2> QED BY <2>1, <2>2, <2>3, <2>4, OwnCopies
<1>6. CASE Crash \/ CrashInSave
  <2>1. ~ up' /\ UNCHANGED <<file, strategies, byModel, snapshot>>
    BY <1>6 DEF Crash, CrashInSave, Down, vars
  <2> QED BY <2>1 DEF Copies, CopyTypes
<1>7. CASE Restart BY <1>7, RestartCopies
<1> QED BY <1>1, <1>2, <1>3, <1>4, <1>5, <1>6, <1>7, Zenon DEF AdminNext

LEMMA SettledAgrees ==
  ASSUME AInv, Copies
  PROVE  Agree
<1> SUFFICES ASSUME up, NEW id \in Ids, ~ Busy(id)
             PROVE  /\ id \in stored <=> id \in registered
                    /\ Config(Published(id)) = Config(file.backends[id])
                    /\ Published(id) # NoBackend =>
                         \A m \in Published(id).models : id \in snapshot.byModel[m]
  BY DEF Agree, Copies
<1>1. Settled(id) BY DEF Copies
<1>2. ASSUME Published(id) # NoBackend, NEW m \in Published(id).models
      PROVE  id \in snapshot.byModel[m]
  <2>1. Published(id) \in Backend BY <1>2 DEF Copies, CopyTypes, Published
  <2>2. id \in registered BY <1>2 DEF Copies, Gone
  <2>3. obj[id] \in Backend /\ Held(id) = obj[id] BY <2>2 DEF AInv, AdminTypes, Held
  <2>4. \A b \in Backend : Config(b).models = b.models BY ConfigFacts
  <2>5. Published(id).models = obj[id].models BY <1>1, <2>1, <2>3, <2>4 DEF Settled
  <2> QED BY <1>1, <1>2, <2>2, <2>5 DEF Settled
<1> QED BY <1>1, <1>2 DEF Settled

(***************************************************************************)
(* When saves succeed and clients take turns on a backend, its entry in    *)
(* the store, in the registry, in the snapshot and in the file are the     *)
(* same whenever nobody works on it, however many requests on other        *)
(* backends, crashes and restarts there were (router.go:126-238).          *)
(***************************************************************************)
THEOREM FourCopiesAgree ==
  ASSUME Serialized, Faults \subseteq {"crash"}
  PROVE  AdminSpec => []Agree
<1>1. AInv /\ [AdminNext]_allVars => AInv' BY AKept
<1>2. AInv /\ AInv' /\ Copies /\ [AdminNext]_allVars => Copies' BY CopiesKept
<1>3. AInv /\ Copies => Agree BY SettledAgrees
<1> QED BY AInitially, CopiesInitially, <1>1, <1>2, <1>3, PTL DEF AdminSpec

-----------------------------------------------------------------------------
(* Types, whether clients take turns or not                                *)

Records == [Ids -> Backend \union {NoBackend}]

\* What is registered exists, and so does what a request past its first step is
\* about; only a request to delete has no payload.
Exists ==
  /\ \A id \in registered : obj[id] # NoBackend
  /\ \A a \in Admins : call[a] # Idle =>
       (call[a].in = NoInput <=> call[a].step = "delete_remove")
  /\ ~ up => \A a \in Admins : call[a] = Idle

ATypes == AdminTypeOK /\ Exists

\* What exists stays, as long as the process runs.
Keeps == obj' \in Records /\ \A id \in Ids : obj[id] # NoBackend => obj'[id] # NoBackend

\* What a step does to the registry, the store and the requests.
RegistryTypes == TypeOK /\ \A id \in registered : obj[id] # NoBackend

StoreTypes ==
  /\ stored \subseteq Ids /\ \A id \in stored : obj[id] # NoBackend
  /\ strategies \in [Models -> Strategies \union {NoStrategy}]
  /\ file \in StateFile \union {Torn}

LEMMA ImageTypes ==
  ASSUME NEW heap \in Records, NEW ids \in SUBSET Ids,
         \A id \in ids : heap[id] # NoBackend,
         NEW names \in [Models -> Strategies \union {NoStrategy}]
  PROVE  Image(heap, ids, names) \in StateFile
<1> DEFINE f == Image(heap, ids, names).backends
<1>1. f \in [Ids -> Backend \union {NoBackend}] BY ImageFacts DEF Records
<1>2. Image(heap, ids, names) = [backends |-> f, strategies |-> names] BY DEF Image
<1> HIDE DEF f
<1> QED BY <1>1, <1>2 DEF StateFile

\* The registry's operations.
LEMMA AddTypes ==
  ASSUME RegistryTypes, NEW id \in Ids, obj[id] # NoBackend, Add(obj, id),
         UNCHANGED <<obj, probeVars>>
  PROVE  RegistryTypes'
<1> USE DEF RegistryTypes, TypeOK
<1> DEFINE old == IF id \in registered THEN obj[id].models ELSE {}
           index == Reindex(byModel, id, old, obj[id].models)
<1>1. /\ registered' = registered \union {id} /\ byModel' = index
      /\ runtimes' = IF id \in registered THEN runtimes ELSE [runtimes EXCEPT ![id] = 0]
      /\ snapshot' = [backends |-> Clones(obj, registered \union {id}), byModel |-> index]
  BY DEF Add, Publish
<1>2. index \in [Models -> SUBSET Ids]
  <2> HIDE DEF old
  <2> QED BY DEF Reindex
<1> HIDE DEF index
<1>3. Clones(obj, registered \union {id}) \in [Ids -> Backend \union {NoBackend}]
  BY DEF Clones
<1>4. snapshot' \in Snapshot BY <1>1, <1>2, <1>3 DEF Snapshot
<1>5. runtimes' \in [Ids -> Nat \union {NoRuntime}] BY <1>1
<1> QED BY <1>1, <1>2, <1>4, <1>5 DEF probeVars

LEMMA RemoveTypes ==
  ASSUME RegistryTypes, NEW id \in Ids, Remove(id)
  PROVE  RegistryTypes' /\ obj' = obj
<1> USE DEF RegistryTypes, TypeOK
<1> DEFINE index == Reindex(byModel, id, obj[id].models, {})
<1>1. /\ registered' = registered \ {id} /\ byModel' = index /\ obj' = obj
      /\ runtimes' = [runtimes EXCEPT ![id] = NoRuntime]
      /\ snapshot' = [backends |-> Clones(obj, registered \ {id}), byModel |-> index]
      /\ UNCHANGED probeVars
  BY DEF Remove, Publish
<1>2. index \in [Models -> SUBSET Ids] BY DEF Reindex
<1> HIDE DEF index
<1>3. Clones(obj, registered \ {id}) \in [Ids -> Backend \union {NoBackend}]
  BY DEF Clones
<1>4. snapshot' \in Snapshot BY <1>1, <1>2, <1>3 DEF Snapshot
<1> QED BY <1>1, <1>2, <1>4 DEF probeVars

\* An object is created or edited.
LEMMA EditTypes ==
  ASSUME RegistryTypes, NEW id \in Ids, NEW b \in Backend,
         obj' = [obj EXCEPT ![id] = b],
         runtimes' \in [Ids -> Nat \union {NoRuntime}],
         UNCHANGED <<registered, byModel, snapshot, probeVars>>
  PROVE  RegistryTypes' /\ Keeps
<1> USE DEF RegistryTypes, TypeOK
<1>1. obj' \in Records BY DEF Records
<1>2. \A i \in Ids : obj[i] # NoBackend => obj'[i] # NoBackend
  BY NoBackendAssumption
<1> QED BY <1>1, <1>2 DEF probeVars, Keeps, Records

LEMMA TrafficTypes ==
  ASSUME RegistryTypes, Traffic
  PROVE  RegistryTypes' /\ Keeps
<1>1. ASSUME NEW id \in Ids, NEW n \in Counts, RecordTokens(id, n)
      PROVE  RegistryTypes' /\ Keeps
  <2> DEFINE b == [obj[id] EXCEPT !.used = @ + n]
  <2>1. /\ id \in registered /\ obj' = [obj EXCEPT ![id] = b]
        /\ runtimes' = [runtimes EXCEPT ![id] = @ + n]
        /\ UNCHANGED <<registered, byModel, snapshot, probeVars>>
    BY <1>1 DEF RecordTokens
  <2>2. obj[id] \in Backend /\ n \in Nat \ {0} /\ runtimes \in [Ids -> Nat \union {NoRuntime}]
    BY <2>1, CountsAssumption DEF RegistryTypes, TypeOK
  <2>3. b \in Backend BY <2>2 DEF Backend
  <2>4. runtimes[id] + n \in Nat
    <3>1. runtimes[id] \in Nat \/ runtimes[id] = -1 BY <2>2 DEF NoRuntime
    <3> QED BY <2>2, <3>1
  <2>5. runtimes' \in [Ids -> Nat \union {NoRuntime}] BY <2>1, <2>2, <2>4
  <2> HIDE DEF b
  <2> QED BY <2>1, <2>3, <2>5, EditTypes
<1>2. ASSUME NEW id \in Ids, NEW h \in Headers, CaptureRateLimits(id, h)
      PROVE  RegistryTypes' /\ Keeps
  <2> DEFINE b == CaptureRateLimitHeaders(obj[id], h)
  <2>1. /\ id \in registered /\ obj' = [obj EXCEPT ![id] = b]
        /\ UNCHANGED <<registered, runtimes, byModel, snapshot, probeVars>>
    BY <1>2 DEF CaptureRateLimits
  <2>2. obj[id] \in Backend /\ h \in RateHeaders
    BY <2>1, HeadersAssumption DEF RegistryTypes, TypeOK
  <2>3. b \in Backend BY <2>2, CaptureFacts
  <2>4. runtimes' \in [Ids -> Nat \union {NoRuntime}] BY <2>1 DEF RegistryTypes, TypeOK
  <2> HIDE DEF b
  <2> QED BY <2>1, <2>3, <2>4, EditTypes
<1> QED BY <1>1, <1>2 DEF Traffic

LEMMA RefreshTypes ==
  ASSUME RegistryTypes, SnapshotRefresh
  PROVE  RegistryTypes' /\ obj' = obj
<1> USE DEF RegistryTypes, TypeOK
<1>1. Clones(obj, registered) \in [Ids -> Backend \union {NoBackend}] BY DEF Clones
<1>2. snapshot' \in Snapshot BY <1>1 DEF SnapshotRefresh, Publish, Snapshot
<1> QED BY <1>2 DEF SnapshotRefresh, probeVars

LEMMA LoadTypes ==
  ASSUME NEW f \in Records
  PROVE  /\ Load(f).obj = f /\ Load(f).registered = {id \in Ids : f[id] # NoBackend}
         /\ Load(f).byModel \in [Models -> SUBSET Ids]
         /\ Load(f).runtimes \in [Ids -> Nat \union {NoRuntime}]
         /\ Load(f).snapshot \in Snapshot
<1> DEFINE ids == {id \in Ids : f[id] # NoBackend}
           index == [m \in Models |-> {id \in ids : m \in f[id].models}]
<1>1. index \in [Models -> SUBSET Ids] OBVIOUS
<1>2. [backends |-> f, byModel |-> index] \in Snapshot
  BY <1>1 DEF Snapshot, Records
<1>3. [id \in Ids |-> IF id \in ids THEN 0 ELSE NoRuntime] \in [Ids -> Nat \union {NoRuntime}]
  OBVIOUS
<1> HIDE DEF ids
<1> QED BY <1>1, <1>2, <1>3 DEF Load, ids

-----------------------------------------------------------------------------
(* Steps                                                                   *)

\* Requests other than a's are as they were; a's ends or goes on at i.
NextCall(a, i) ==
  \/ call' = [call EXCEPT ![a] = Idle]
  \/ \E step \in Steps, in \in Inputs \union {NoInput} :
       /\ call' = [call EXCEPT ![a] = At(step, i, in)]
       /\ in = NoInput <=> step = "delete_remove"
       /\ in # NoInput => obj'[i] # NoBackend

LEMMA ATypesFacts ==
  ASSUME ATypes
  PROVE  /\ RegistryTypes /\ StoreTypes /\ obj \in Records
         /\ call \in [Admins -> Calls]
         /\ \A a \in Admins : call[a] # Idle => call[a].id \in Ids
BY DEF ATypes, AdminTypeOK, Exists, RegistryTypes, TypeOK, StoreTypes, Records, Calls

\* What is left to show of a step of request a at i.
LEMMA StepTypes ==
  ASSUME ATypes, NEW a \in Admins, NEW i \in Ids, up, up' = up,
         RegistryTypes', Keeps, StoreTypes', NextCall(a, i),
         acked' \in [Ids -> Configs \union {NoBackend, Unknown}],
         cache' = cache
  PROVE  ATypes'
<1>1. call \in [Admins -> Calls] BY ATypesFacts
<1>2. ASSUME NEW c \in Calls, call' = [call EXCEPT ![a] = c],
             c # Idle => /\ c.in = NoInput <=> c.step = "delete_remove"
                         /\ c.in # NoInput => obj'[c.id] # NoBackend
      PROVE  ATypes'
  <2>1. call' \in [Admins -> Calls] BY <1>1, <1>2
  <2>2. ASSUME NEW b \in Admins, call'[b] # Idle
        PROVE  /\ call'[b].in = NoInput <=> call'[b].step = "delete_remove"
               /\ call'[b].in # NoInput => obj'[call'[b].id] # NoBackend
    <3>1. CASE b = a BY <1>1, <1>2, <2>2, <3>1
    <3>2. CASE b # a
      <4>1. call'[b] = call[b] BY <1>1, <1>2, <3>2
      <4>2. call[b].id \in Ids BY <2>2, <4>1, ATypesFacts
      <4> QED BY <2>2, <4>1, <4>2 DEF ATypes, AdminTypeOK, Exists, Keeps
    <3> QED BY <3>1, <3>2
  <2>3. Exists' BY <2>2 DEF RegistryTypes, Exists
  <2>4. AdminTypeOK'
    BY <2>1, <2>2 DEF ATypes, AdminTypeOK, RegistryTypes, StoreTypes, Calls
  <2> QED BY <2>3, <2>4 DEF ATypes
<1>3. CASE call' = [call EXCEPT ![a] = Idle]
  <2>1. Idle \in Calls BY DEF Calls
  <2> QED BY <1>2, <1>3, <2>1
<1>4. CASE \E step \in Steps, in \in Inputs \union {NoInput} :
             /\ call' = [call EXCEPT ![a] = At(step, i, in)]
             /\ in = NoInput <=> step = "delete_remove"
             /\ in # NoInput => obj'[i] # NoBackend
  <2>1. PICK step \in Steps, in \in Inputs \union {NoInput} :
             /\ call' = [call EXCEPT ![a] = At(step, i, in)]
             /\ in = NoInput <=> step = "delete_remove"
             /\ in # NoInput => obj'[i] # NoBackend
    BY <1>4
  <2> DEFINE c == At(step, i, in)
  <2>2. c \in Calls /\ c.step = step /\ c.id = i /\ c.in = in BY CallsAreCalls
  <2>3. call' = [call EXCEPT ![a] = c] BY <2>1
  <2> HIDE DEF c
  <2> QED BY <1>2, <2>1, <2>2, <2>3
<1> QED BY <1>3, <1>4 DEF NextCall

\* A save, and how the request goes on.
LEMMA SaveTypes ==
  ASSUME ATypes, NEW a \in Admins, NEW i \in Ids, up, RegistryTypes', Keeps,
         NEW ids \in SUBSET Ids, \A id \in ids : obj'[id] # NoBackend,
         NEW step \in Steps, NEW in \in Inputs \union {NoInput},
         in = NoInput <=> step = "delete_remove",
         in # NoInput => obj'[i] # NoBackend,
         SaveThen(a, obj', ids, At(step, i, in))
  PROVE  ATypes'
<1>1. At(step, i, in).id = i BY CallsAreCalls
<1>2. stored' = ids /\ strategies' = strategies /\ cache' = cache BY DEF SaveThen
<1>3. up' = up BY DEF SaveThen, SaveOk, Fail, SaveError
<1>4. file' = Image(obj', ids, strategies) \/ file' = file \/ file' = Torn
  BY DEF SaveThen, SaveOk, Fail, SaveError
<1>5. Image(obj', ids, strategies) \in StateFile
  BY ATypesFacts, ImageTypes DEF Keeps, StoreTypes
<1>6. StoreTypes' BY <1>2, <1>4, <1>5, ATypesFacts DEF StoreTypes
<1>7. acked' = [acked EXCEPT ![i] = Unknown] BY <1>1 DEF SaveThen, Fail
<1>8. acked' \in [Ids -> Configs \union {NoBackend, Unknown}]
  BY <1>7 DEF ATypes, AdminTypeOK
<1>9. NextCall(a, i) BY DEF NextCall, SaveThen, Fail
<1> QED BY <1>2, <1>3, <1>6, <1>8, <1>9, StepTypes

LEMMA StoreKept ==
  ASSUME ATypes, UNCHANGED storeVars, Keeps
  PROVE  StoreTypes'
BY ATypesFacts DEF StoreTypes, storeVars, Keeps

LEMMA SameHeap ==
  ASSUME ATypes, obj' = obj
  PROVE  Keeps
BY ATypesFacts DEF Keeps

LEMMA SameRegistry ==
  ASSUME ATypes, UNCHANGED vars
  PROVE  RegistryTypes' /\ Keeps
BY ATypesFacts DEF RegistryTypes, TypeOK, vars, Keeps

LEMMA RequestTypes ==
  ASSUME ATypes, Request
  PROVE  ATypes'
<1>0. /\ RegistryTypes /\ StoreTypes /\ obj \in Records
      /\ acked \in [Ids -> Configs \union {NoBackend, Unknown}]
  BY ATypesFacts DEF ATypes, AdminTypeOK
<1>s. {"create_add", "update_endpoint", "delete_remove"} \subseteq Steps BY DEF Steps
<1>n. \A in \in Inputs : in # NoInput BY InputsAssumption, NoInputAssumption
<1>1. ASSUME NEW a \in Admins, NEW i \in Ids, NEW in \in Inputs, CreateSave(a, i, in)
      PROVE  ATypes'
  <2> DEFINE b == NewBackend(in)
  <2>1. b \in Backend /\ b # NoBackend BY NewConfig, NoBackendAssumption
  <2> HIDE DEF b
  <2>2. /\ up /\ obj' = [obj EXCEPT ![i] = b]
        /\ UNCHANGED <<registered, runtimes, byModel, snapshot, probeVars>>
        /\ SaveThen(a, obj', stored \union {i}, At("create_add", i, in))
    BY <1>1 DEF CreateSave, Accept, b
  <2>3. runtimes' \in [Ids -> Nat \union {NoRuntime}]
    BY <1>0, <2>2 DEF RegistryTypes, TypeOK
  <2>4. RegistryTypes' /\ Keeps BY <1>0, <2>1, <2>2, <2>3, EditTypes
  <2>5. obj'[i] # NoBackend BY <1>0, <2>1, <2>2 DEF Records
  <2> DEFINE ids == stored \union {i}
  <2>6. ids \in SUBSET Ids /\ \A id \in ids : obj'[id] # NoBackend
    BY <1>0, <2>4, <2>5 DEF StoreTypes, Keeps
  <2>7. SaveThen(a, obj', ids, At("create_add", i, in)) BY <2>2
  <2> HIDE DEF ids
  <2> QED BY <1>s, <1>n, <2>2, <2>4, <2>5, <2>6, <2>7, SaveTypes
<1>2. ASSUME NEW a \in Admins, NEW i \in Ids, NEW in \in Inputs, UpdateLookup(a, i, in)
      PROVE  ATypes'
  <2>1. /\ up /\ up' = up /\ i \in registered /\ UNCHANGED <<vars, storeVars, cache>>
        /\ call' = [call EXCEPT ![a] = At("update_endpoint", i, in)]
        /\ acked' = [acked EXCEPT ![i] = Unknown]
    BY <1>2 DEF UpdateLookup, Accept
  <2>2. RegistryTypes' /\ Keeps BY <2>1, SameRegistry
  <2>3. StoreTypes' BY <2>1, <2>2, StoreKept
  <2>4. obj'[i] # NoBackend BY <1>0, <2>1, <2>2 DEF Keeps, RegistryTypes
  <2>5. NextCall(a, i) BY <1>s, <1>n, <2>1, <2>4 DEF NextCall
  <2>6. acked' \in [Ids -> Configs \union {NoBackend, Unknown}] BY <1>0, <2>1
  <2> QED BY <2>1, <2>2, <2>3, <2>5, <2>6, StepTypes
<1>3. ASSUME NEW a \in Admins, NEW i \in Ids, DeleteStore(a, i)
      PROVE  ATypes'
  <2>1. up /\ UNCHANGED vars /\ RegistryTypes' /\ Keeps
    BY <1>3, SameRegistry DEF DeleteStore, Accept
  <2>2. CASE i \in stored
    <3> DEFINE ids == stored \ {i}
    <3>1. ids \in SUBSET Ids /\ \A id \in ids : obj'[id] # NoBackend
      BY <1>0, <2>1 DEF StoreTypes, Keeps
    <3>2. SaveThen(a, obj', ids, At("delete_remove", i, NoInput))
      BY <1>3, <2>1, <2>2 DEF DeleteStore, vars
    <3> HIDE DEF ids
    <3>3. NoInput \in Inputs \union {NoInput} OBVIOUS
    <3> QED BY <1>s, <2>1, <3>1, <3>2, <3>3, SaveTypes
  <2>3. CASE i \notin stored
    <3>1. /\ call' = [call EXCEPT ![a] = At("delete_remove", i, NoInput)]
          /\ acked' = [acked EXCEPT ![i] = Unknown]
          /\ UNCHANGED <<storeVars, cache, up>>
      BY <1>3, <2>3 DEF DeleteStore
    <3>2. StoreTypes' BY <2>1, <3>1, StoreKept
    <3>3. NextCall(a, i) BY <1>s, <3>1 DEF NextCall
    <3>4. acked' \in [Ids -> Configs \union {NoBackend, Unknown}] BY <1>0, <3>1
    <3> QED BY <2>1, <3>1, <3>2, <3>3, <3>4, StepTypes
  <2> QED BY <2>2, <2>3
<1> QED BY <1>1, <1>2, <1>3 DEF Request

\* A request that has begun is at a backend, and a payload means that it exists.
LEMMA Begun ==
  ASSUME ATypes, NEW a \in Admins, call[a].step \in Steps
  PROVE  /\ up /\ call[a] # Idle /\ call[a].id \in Ids
         /\ call[a] \in [step : Steps, id : Ids, in : Inputs \union {NoInput}]
         /\ call[a].step # "delete_remove" =>
              call[a].in \in Inputs /\ obj[call[a].id] \in Backend
<1>1. call[a] # Idle BY DEF Steps, Idle
<1>2. call[a] \in [step : Steps, id : Ids, in : Inputs \union {NoInput}]
  BY <1>1 DEF ATypes, AdminTypeOK
<1>3. up BY <1>1 DEF ATypes, Exists
<1>4. call[a].step # "delete_remove" =>
              call[a].in \in Inputs /\ obj[call[a].id] \in Backend
  BY <1>1, <1>2 DEF ATypes, AdminTypeOK, Exists, TypeOK
<1> QED BY <1>1, <1>2, <1>3, <1>4

LEMMA EditStepTypes ==
  ASSUME ATypes, NEW a \in Admins, UpdateEndpoint(a) \/ UpdateRest(a)
  PROVE  ATypes'
<1>1. call[a].step \in Steps /\ call[a].step # "delete_remove"
  BY DEF UpdateEndpoint, UpdateRest, Steps
<1>2. PICK i \in Ids : i = call[a].id BY <1>1, Begun
<1>3. PICK in \in Inputs : in = call[a].in BY <1>1, Begun
<1>4. up /\ obj[i] \in Backend
      /\ call[a] \in [step : Steps, id : Ids, in : Inputs \union {NoInput}]
  BY <1>1, <1>2, Begun
<1>5. PICK b \in Backend, next \in {"update_rest", "update_save"} :
        obj' = [obj EXCEPT ![i] = b] /\ call' = [call EXCEPT ![a].step = next]
  <2>1. obj \in Records BY ATypesFacts
  <2>2. CASE UpdateEndpoint(a)
    <3>1. obj' = [obj EXCEPT ![i] = SetEndpoint(obj[i], in)]
      BY <1>2, <1>3, <2>1, <2>2 DEF UpdateEndpoint, Records
    <3> QED BY <1>4, <2>2, <3>1, EditedConfig DEF UpdateEndpoint
  <2>3. CASE UpdateRest(a)
    <3>1. obj' = [obj EXCEPT ![i] = SetRest(obj[i], in)]
      BY <1>2, <1>3, <2>1, <2>3 DEF UpdateRest, Records
    <3> QED BY <1>4, <2>3, <3>1, EditedConfig DEF UpdateRest
  <2> QED BY <2>2, <2>3
<1>6. UNCHANGED <<registered, runtimes, byModel, snapshot, probeVars,
                  storeVars, cache, up, acked>>
  BY DEF UpdateEndpoint, UpdateRest
<1>7. RegistryTypes' /\ Keeps
  <2>1. RegistryTypes /\ runtimes' \in [Ids -> Nat \union {NoRuntime}]
    BY <1>6, ATypesFacts DEF RegistryTypes, TypeOK
  <2> QED BY <1>5, <1>6, <2>1, EditTypes
<1>8. StoreTypes' BY <1>6, <1>7, StoreKept
<1>9. NextCall(a, i)
  <2>1. call' = [call EXCEPT ![a] = At(next, i, in)]
    <3>1. call[a] = [step |-> call[a].step, id |-> i, in |-> in] BY <1>2, <1>3, <1>4
    <3>2. [call[a] EXCEPT !.step = next] = At(next, i, in) BY <3>1 DEF At
    <3>3. call' = [call EXCEPT ![a] = [call[a] EXCEPT !.step = next]] BY <1>5
    <3> QED BY <3>2, <3>3
  <2>2. next \in Steps /\ next # "delete_remove" BY DEF Steps
  <2>3. in # NoInput BY InputsAssumption, NoInputAssumption
  <2>4. obj'[i] # NoBackend BY <1>4, <1>7, NoBackendAssumption DEF Keeps
  <2> QED BY <2>1, <2>2, <2>3, <2>4 DEF NextCall
<1>10. acked' \in [Ids -> Configs \union {NoBackend, Unknown}]
  BY <1>6 DEF ATypes, AdminTypeOK
<1> QED BY <1>4, <1>6, <1>7, <1>8, <1>9, <1>10, StepTypes

LEMMA UpdateSaveTypes ==
  ASSUME ATypes, NEW a \in Admins, UpdateSave(a)
  PROVE  ATypes'
<1>1. call[a].step \in Steps /\ call[a].step # "delete_remove"
  BY DEF UpdateSave, Steps
<1>2. PICK i \in Ids : i = call[a].id BY <1>1, Begun
<1>3. PICK in \in Inputs : in = call[a].in BY <1>1, Begun
<1>4. up /\ obj[i] \in Backend BY <1>1, <1>2, Begun
<1>5. RegistryTypes' /\ Keeps /\ obj' = obj BY SameRegistry DEF UpdateSave, vars
<1>6. obj'[i] # NoBackend BY <1>4, <1>5, NoBackendAssumption
<1> DEFINE ids == stored \union {i}
<1>7. ids \in SUBSET Ids /\ \A id \in ids : obj'[id] # NoBackend
  BY <1>5, <1>6, ATypesFacts DEF StoreTypes
<1>8. SaveThen(a, obj', ids, At("update_add", i, in))
  BY <1>2, <1>3, <1>5 DEF UpdateSave
<1> HIDE DEF ids
<1>9. "update_add" \in Steps /\ in # NoInput
  BY InputsAssumption, NoInputAssumption DEF Steps
<1> QED BY <1>4, <1>5, <1>6, <1>7, <1>8, <1>9, SaveTypes

\* The last step of a request.
LEMMA EndTypes ==
  ASSUME ATypes, NEW a \in Admins, CreateAdd(a) \/ UpdateAdd(a) \/ DeleteRemove(a)
  PROVE  ATypes'
<1>1. call[a].step \in Steps BY DEF CreateAdd, UpdateAdd, DeleteRemove, Steps
<1>2. PICK i \in Ids : i = call[a].id BY <1>1, Begun
<1>3. up BY <1>1, Begun
<1>4. RegistryTypes /\ obj \in Records /\ acked \in [Ids -> Configs \union {NoBackend, Unknown}]
  BY ATypesFacts DEF ATypes, AdminTypeOK
<1>5. UNCHANGED <<storeVars, cache, up>> BY DEF CreateAdd, UpdateAdd, DeleteRemove
<1>6. RegistryTypes' /\ obj' = obj
  <2>1. CASE CreateAdd(a) \/ UpdateAdd(a)
    <3>1. Add(obj, i) /\ UNCHANGED <<obj, probeVars>>
      BY <1>2, <2>1 DEF CreateAdd, UpdateAdd
    <3>2. call[a].step # "delete_remove" BY <2>1 DEF CreateAdd, UpdateAdd
    <3>3. obj[i] # NoBackend BY <1>1, <1>2, <3>2, Begun, NoBackendAssumption
    <3> QED BY <1>4, <3>1, <3>3, AddTypes
  <2>2. CASE DeleteRemove(a)
    <3>1. Remove(i) \/ UNCHANGED vars BY <1>2, <2>2 DEF DeleteRemove
    <3>2. CASE Remove(i) BY <1>4, <3>2, RemoveTypes
    <3>3. CASE UNCHANGED vars BY <3>3, SameRegistry DEF vars
    <3> QED BY <3>1, <3>2, <3>3
  <2> QED BY <2>1, <2>2
<1>7. PICK config \in Configs \union {NoBackend} : Acknowledge(a, i, config)
  <2>1. CASE CreateAdd(a)
    <3>1. call[a].step # "delete_remove" BY <2>1 DEF CreateAdd
    <3>2. PICK in \in Inputs : in = call[a].in BY <1>1, <3>1, Begun
    <3>3. Config(NewBackend(in)) \in Configs BY NewConfig
    <3> QED BY <1>2, <2>1, <3>2, <3>3 DEF CreateAdd
  <2>2. CASE UpdateAdd(a)
    <3>1. call[a].step # "delete_remove" BY <2>2 DEF UpdateAdd
    <3>2. PICK in \in Inputs : in = call[a].in BY <1>1, <3>1, Begun
    <3>3. obj[i] \in Backend BY <1>1, <1>2, <3>1, Begun
    <3>4. SetRest(SetEndpoint(obj[i], in), in) \in Backend BY <3>3, EditedConfig
    <3>5. Config(SetRest(SetEndpoint(obj[i], in), in)) \in Configs BY <3>4, ConfigFacts
    <3> QED BY <1>2, <2>2, <3>2, <3>5 DEF UpdateAdd
  <2>3. CASE DeleteRemove(a) BY <1>2, <2>3 DEF DeleteRemove
  <2> QED BY <2>1, <2>2, <2>3
<1>8. Keeps BY <1>6, SameHeap
<1>9. StoreTypes' BY <1>5, <1>8, StoreKept
<1>10. NextCall(a, i) BY <1>7 DEF Acknowledge, NextCall
<1>11. acked' \in [Ids -> Configs \union {NoBackend, Unknown}]
  BY <1>4, <1>7 DEF Acknowledge
<1> QED BY <1>3, <1>5, <1>6, <1>8, <1>9, <1>10, <1>11, StepTypes

\* The steps that are nobody's request.
LEMMA OwnTypes ==
  ASSUME ATypes, RegistryTypes', Keeps, StoreTypes', UNCHANGED <<up, call, acked>>,
         cache' \in [Models -> Strategies \union {NoStrategy}]
  PROVE  ATypes'
<1>1. ASSUME NEW a \in Admins, call[a] # Idle, call[a].in # NoInput
      PROVE  obj'[call[a].id] # NoBackend
  BY <1>1, ATypesFacts DEF ATypes, AdminTypeOK, Keeps
<1> QED BY <1>1 DEF ATypes, AdminTypeOK, Exists, RegistryTypes, StoreTypes

LEMMA SetStrategyTypes ==
  ASSUME ATypes, NEW m \in Mapped, NEW n \in Strategies, SetStrategy(m, n)
  PROVE  ATypes'
<1> DEFINE names == [strategies EXCEPT ![m] = n]
<1>1. names \in [Models -> Strategies \union {NoStrategy}]
  BY MappedAssumption DEF ATypes, AdminTypeOK
<1>2. /\ strategies' = names /\ UNCHANGED <<vars, stored, cache, call, acked, up>>
      /\ file' = Image(obj, stored, names) \/ file' = file \/ file' = Torn
  BY DEF SetStrategy, SaveOk, SaveError
<1> HIDE DEF names
<1>3. RegistryTypes' /\ Keeps BY <1>2, SameRegistry
<1>4. Image(obj, stored, names) \in StateFile
  BY <1>1, ATypesFacts, ImageTypes DEF StoreTypes
<1>5. StoreTypes'
  <2>1. StoreTypes BY ATypesFacts
  <2> QED BY <1>1, <1>2, <1>3, <1>4, <2>1 DEF StoreTypes, Keeps
<1>6. cache' \in [Models -> Strategies \union {NoStrategy}]
  BY <1>2 DEF ATypes, AdminTypeOK
<1> QED BY <1>2, <1>3, <1>5, <1>6, OwnTypes

LEMMA CrashTypes ==
  ASSUME ATypes, Crash \/ CrashInSave
  PROVE  ATypes'
<1>1. /\ up' = FALSE /\ call' = [a \in Admins |-> Idle]
      /\ acked' = [id \in Ids |-> IF Busy(id) THEN Unknown ELSE acked[id]]
      /\ UNCHANGED <<vars, stored, strategies, cache>>
      /\ file' = file \/ file' = Torn
  BY DEF Crash, CrashInSave, Down
<1>2. RegistryTypes' /\ Keeps BY <1>1, SameRegistry
<1>3. call' \in [Admins -> Calls] /\ \A a \in Admins : call'[a] = Idle
  BY <1>1 DEF Calls
<1>4. Exists' BY <1>2, <1>3 DEF Exists, RegistryTypes
<1>5. AdminTypeOK'
  BY <1>1, <1>2, <1>3 DEF ATypes, AdminTypeOK, RegistryTypes, Keeps, Calls
<1> QED BY <1>4, <1>5 DEF ATypes

LEMMA RestartTypes ==
  ASSUME ATypes, Restart
  PROVE  ATypes'
<1> DEFINE f == file.backends
<1>1. file \in StateFile /\ f \in Records /\ \A a \in Admins : call[a] = Idle
  BY DEF Restart, ATypes, AdminTypeOK, Exists, StateFile, Records
<1>2. /\ obj' = Load(f).obj /\ registered' = Load(f).registered
      /\ byModel' = Load(f).byModel /\ runtimes' = Load(f).runtimes
      /\ snapshot' = Load(f).snapshot /\ stored' = Load(f).registered
      /\ strategies' = file.strategies /\ cache' = file.strategies /\ up' = TRUE
      /\ UNCHANGED <<probeVars, file, call, acked>>
  BY DEF Restart
<1>3. file.strategies \in [Models -> Strategies \union {NoStrategy}]
  BY <1>1 DEF StateFile
<1> HIDE DEF f
<1>4. /\ obj' = f /\ registered' = {id \in Ids : f[id] # NoBackend} /\ stored' = registered'
      /\ byModel' \in [Models -> SUBSET Ids]
      /\ runtimes' \in [Ids -> Nat \union {NoRuntime}]
      /\ snapshot' \in Snapshot
  BY <1>1, <1>2, LoadTypes
<1>5. TypeOK' BY <1>1, <1>2, <1>4 DEF ATypes, AdminTypeOK, TypeOK, probeVars, Records
<1>6. Exists' BY <1>1, <1>2, <1>4 DEF Exists
<1>7. AdminTypeOK' BY <1>1, <1>2, <1>3, <1>4, <1>5 DEF ATypes, AdminTypeOK
<1> QED BY <1>6, <1>7 DEF ATypes

LEMMA ATypesInitially == AdminInit => ATypes
<1> SUFFICES ASSUME AdminInit PROVE ATypes OBVIOUS
<1>1. PICK f \in Loads :
        /\ obj = f /\ snapshot = Load(f).snapshot
        /\ registered = Load(f).registered /\ byModel = Load(f).byModel
        /\ runtimes = Load(f).runtimes
        /\ stored = Load(f).registered
        /\ file = [backends |-> f, strategies |-> [m \in Models |-> NoStrategy]]
        /\ acked = [id \in Ids |-> Config(f[id])]
  BY DEF AdminInit
<1>2. f \in Records BY LoadsAssumption DEF Records
<1>3. \A id \in Ids : Config(f[id]) \in Configs \union {NoBackend}
  BY <1>2, ConfigFacts DEF Config, Records
<1>4. /\ up = TRUE /\ call = [a \in Admins |-> Idle] /\ list = NoBackends /\ pending = {}
      /\ strategies = [m \in Models |-> NoStrategy] /\ cache = strategies
  BY DEF AdminInit
<1>5. /\ registered = {id \in Ids : f[id] # NoBackend} /\ stored = registered
      /\ byModel \in [Models -> SUBSET Ids]
      /\ runtimes \in [Ids -> Nat \union {NoRuntime}]
      /\ snapshot \in Snapshot
  BY <1>1, <1>2, LoadTypes
<1>6. list \in [Ids -> HealthRecord \union {NoBackend}] BY <1>4 DEF NoBackends
<1>7. TypeOK BY <1>1, <1>2, <1>4, <1>5, <1>6 DEF TypeOK, Records
<1>8. file \in StateFile BY <1>1, <1>2 DEF StateFile, Records
<1>9. Exists BY <1>1, <1>4, <1>5 DEF Exists
<1>10. AdminTypeOK BY <1>1, <1>3, <1>4, <1>5, <1>7, <1>8 DEF AdminTypeOK
<1> QED BY <1>9, <1>10 DEF ATypes

LEMMA ATypesKept == ATypes /\ [AdminNext]_allVars => ATypes'
<1> SUFFICES ASSUME ATypes, [AdminNext]_allVars PROVE ATypes' OBVIOUS
<1>1. CASE Request BY <1>1, RequestTypes
<1>2. ASSUME NEW a \in Admins, Proceed(a) PROVE ATypes'
  BY <1>2, EditStepTypes, UpdateSaveTypes, EndTypes DEF Proceed
<1>3. CASE \E m \in Mapped, n \in Strategies : SetStrategy(m, n)
  BY <1>3, SetStrategyTypes
<1>4. CASE CacheRefresh \/ FailedStart \/ UNCHANGED allVars
  <2>1. /\ UNCHANGED <<vars, storeVars, up, call, acked>>
        /\ cache' = strategies \/ cache' = cache
    BY <1>4 DEF CacheRefresh, FailedStart, allVars, adminVars, storeVars
  <2>2. RegistryTypes' /\ Keeps BY <2>1, SameRegistry
  <2>3. StoreTypes' BY <2>1, <2>2, StoreKept
  <2>4. cache' \in [Models -> Strategies \union {NoStrategy}]
    BY <2>1 DEF ATypes, AdminTypeOK
  <2> QED BY <2>1, <2>2, <2>3, <2>4, OwnTypes
<1>5. CASE Serve
  <2>1. UNCHANGED adminVars /\ (Traffic \/ SnapshotRefresh) BY <1>5 DEF Serve
  <2>2. RegistryTypes' /\ Keeps
    BY <2>1, ATypesFacts, TrafficTypes, RefreshTypes, SameHeap
  <2>3. UNCHANGED <<storeVars, up, call, acked, cache>> BY <2>1 DEF adminVars, storeVars
  <2>4. StoreTypes' BY <2>2, <2>3, StoreKept
  <2>5. cache' \in [Models -> Strategies \union {NoStrategy}]
    BY <2>3 DEF ATypes, AdminTypeOK
  <2> QED BY <2>2, <2>3, <2>4, <2>5, OwnTypes
<1>6. CASE Crash \/ CrashInSave BY <1>6, CrashTypes
<1>7. CASE Restart BY <1>7, RestartTypes
<1> QED BY <1>1, <1>2, <1>3, <1>4, <1>5, <1>6, <1>7, Zenon DEF AdminNext

(***************************************************************************)
(* However requests on one backend overlap, and whatever fails, the state  *)
(* is well formed: the store lists only objects that exist, and a request  *)
(* never comes back to nothing (router.go:168).                            *)
(***************************************************************************)
THEOREM AdminTypesCorrect == AdminSpec => []AdminTypeOK
<1>1. ATypes => AdminTypeOK BY DEF ATypes
<1> QED BY ATypesInitially, ATypesKept, <1>1, PTL DEF AdminSpec
=============================================================================
