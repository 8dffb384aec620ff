---------------------------- MODULE BackendProofs ----------------------------
(***************************************************************************)
(* What the operations on one backend record return, for every record and  *)
(* payload: they keep it well formed, and each keeps the fields that the   *)
(* other writers own.                                                      *)
(***************************************************************************)
EXTENDS Backend, TLAPS

\* A backend built from an admin payload is well formed and healthy.
LEMMA NewBackendFacts ==
  ASSUME NEW in \in BackendInput
  PROVE  /\ NewBackend(in) \in Backend
         /\ NewBackend(in) # NoBackend
         /\ NewBackend(in).fails = 0
<1>1. NewBackend(in) \in Backend
  BY DEF NewBackend, Backend, BackendInput, Status
<1> QED BY <1>1, NoBackendAssumption DEF NewBackend

\* An edit keeps the counters, the status and the health of a backend.
LEMMA EditFacts ==
  ASSUME NEW b \in Backend, NEW in \in BackendInput
  PROVE  LET e == SetRest(SetEndpoint(b, in), in)
         IN  /\ e \in Backend
             /\ e # NoBackend
             /\ e.used = b.used
             /\ e.fails = b.fails
             /\ e.status = b.status
<1> DEFINE e == SetRest(SetEndpoint(b, in), in)
<1>1. /\ e \in Backend
      /\ e.used = b.used /\ e.fails = b.fails /\ e.status = b.status
  BY DEF SetRest, SetEndpoint, Backend, BackendInput
<1> QED BY <1>1, NoBackendAssumption

\* Rate-limit headers touch only the quota fields.
LEMMA CaptureFacts ==
  ASSUME NEW b \in Backend, NEW h \in RateHeaders
  PROVE  LET c == CaptureRateLimitHeaders(b, h)
         IN  /\ c \in Backend
             /\ c # NoBackend
             /\ c.used = b.used
             /\ c.fails = b.fails
             /\ c.status = b.status
             /\ c.models = b.models
<1> DEFINE c == CaptureRateLimitHeaders(b, h)
<1>1. /\ c \in Backend
      /\ c.used = b.used /\ c.fails = b.fails
      /\ c.status = b.status /\ c.models = b.models
  BY AbsentAssumption DEF CaptureRateLimitHeaders, Backend, RateHeaders
<1> QED BY <1>1, NoBackendAssumption

\* The fields a backend's type promises.
LEMMA BackendFields ==
  ASSUME NEW b \in Backend
  PROVE  /\ b.used \in Nat /\ b.fails \in Nat /\ b.status \in Status
         /\ b.models \subseteq Models
BY DEF Backend

\* The health of a clone is a health record, which is not "no object".
LEMMA HealthFacts ==
  ASSUME NEW b \in Backend, b.fails = 0
  PROVE  /\ Health(b) \in HealthRecord /\ Health(b) # NoBackend
         /\ Health(b).fails = 0
BY BackendFields, NoBackendAssumption DEF Health, HealthRecord
==============================================================================
