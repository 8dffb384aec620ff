------------------------------ MODULE Backend ------------------------------
(***************************************************************************)
(* A backend record (internal/backend/backend.go) and what the code does   *)
(* with one record: build it from an admin payload, overwrite it from one, *)
(* store the quota a provider's response headers announce, and apply the   *)
(* verdict of a health probe.                                              *)
(*                                                                         *)
(* Name, provider, base URL, headers, weight, cost tier, context window    *)
(* and timeouts are one opaque value, the endpoint: the registry copies    *)
(* them and never looks at them.  The API key is kept apart because an     *)
(* empty key in a payload means "keep the old one".  The request quotas,   *)
(* the timestamps and RPM limits are stored and never read, and are left   *)
(* out.                                                                    *)
(***************************************************************************)
EXTENDS Integers

CONSTANTS
  Ids,        \* backend identifiers (UUIDs)
  Models,     \* model names clients ask for
  Endpoints,  \* opaque endpoint configurations
  Keys,       \* API keys
  NoKey,      \* the empty key
  NoBackend,  \* "no object": a nil *Backend
  Absent      \* a rate-limit header the response does not carry

ASSUME NoKeyAssumption == NoKey \notin Keys
ASSUME AbsentAssumption == Absent \notin Int

Status == {"active", "degraded", "disabled"}

Backend ==
  [ endpoint       : Endpoints,
    key            : Keys \union {NoKey},
    models         : SUBSET Models,
    balance        : Int,            \* TokenBalance, <= 0 means unlimited
    used           : Nat,            \* TokenUsed
    quotaTotal     : Int,            \* QuotaTokensTotal, <= 0: none announced
    quotaRemaining : Int,            \* QuotaTokensRemaining
    status         : Status,
    fails          : Nat ]           \* ConsecutiveFails, not persisted

\* The two fields of a record that a health probe reads and writes.
HealthRecord == [status : Status, fails : Nat]

ASSUME NoBackendAssumption == NoBackend \notin Backend \union HealthRecord

\* The JSON body of POST and PUT /api/backends.
BackendInput ==
  [ endpoint : Endpoints,
    key      : Keys \union {NoKey},
    models   : SUBSET Models,
    balance  : Int ]

\* The token-level rate-limit headers of one response, whatever their style.
RateHeaders == [ total : Int \union {Absent}, remaining : Int \union {Absent} ]

NewBackend(in) ==
  [ endpoint |-> in.endpoint, key |-> in.key, models |-> in.models,
    balance |-> in.balance, used |-> 0, quotaTotal |-> 0, quotaRemaining |-> 0,
    status |-> "active", fails |-> 0 ]

\* Mutant: an update builds the backend anew instead of changing fields of it.
SetRestAnew(b, in) ==
  [NewBackend(in) EXCEPT !.key = IF in.key = NoKey THEN b.key ELSE in.key]

\* The two halves of updateBackend's field-by-field overwrite, in order.
SetEndpoint(b, in) == [b EXCEPT !.endpoint = in.endpoint]

SetRest(b, in) ==
  [b EXCEPT !.key     = IF in.key = NoKey THEN @ ELSE in.key,
            !.models  = in.models,
            !.balance = in.balance]

\* A header that is present overwrites its field; an absent one leaves it.
CaptureRateLimitHeaders(b, h) ==
  [b EXCEPT !.quotaTotal     = IF h.total = Absent THEN @ ELSE h.total,
            !.quotaRemaining = IF h.remaining = Absent THEN @ ELSE h.remaining]

Health(b) == [status |-> b.status, fails |-> b.fails]

\* Mutant: a success takes one failure back instead of all.
MarkSuccessDecay(b) ==
  [b EXCEPT !.fails  = @ - 1,
            !.status = IF @ = "degraded" THEN "active" ELSE @]

\* Only a degraded backend recovers; a disabled one stays disabled.
MarkSuccess(b) ==
  [b EXCEPT !.fails  = 0,
            !.status = IF @ = "degraded" THEN "active" ELSE @]

\* Degrade from maxFails failures in a row on, disable from three times that.
MarkFailure(b, maxFails) ==
  LET n == b.fails + 1
  IN  [b EXCEPT !.fails  = n,
                !.status = IF n >= 3 * maxFails THEN "disabled"
                           ELSE IF n >= maxFails /\ @ = "active" THEN "degraded"
                           ELSE @]
=============================================================================
