--------------------------- MODULE AgentOutboxProofs ---------------------------
(***************************************************************************)
(* Theorems about the agent outbox, for any rows and any number of         *)
(* delivery attempts: its invariants, and that it implements OutboxPromise. *)
(***************************************************************************)
EXTENDS AgentOutboxProperties, TLAPS

-----------------------------------------------------------------------------
(* The inductive invariant.                                                *)

\* A claim that was not made yet has left no trace, nor has a row that was
\* not produced yet.
UnmadeIsBlank ==
  /\ \A c \in Claim : c[2] > attempts[c[1]] =>
       worker[c] = "idle" /\ request[c] = "none"
  /\ \A r \in Row : state[r] = "absent" => attempts[r] = 0

\* A worker knows what it says: no request before it calls, none open after a
\* refusal, an effect behind every "ok".
WorkersAreTruthful ==
  \A c \in Claim :
    /\ worker[c] \in {"idle", "claimed"} => request[c] = "none"
    /\ worker[c] = "calling" => request[c] # "none"
    /\ worker[c] = "ok" => request[c] = "delivered"
    /\ worker[c] = "unavailable" => request[c] = "refused"

\* An unsafe row's request is its latest claim's, and the row cannot be
\* claimed again; given up, the row has no request on its way.
UnsafeRequestIsLast ==
  \A c \in Claim : c[1] \notin Idempotent /\ request[c] # "none" =>
    /\ c[2] = attempts[c[1]]
    /\ state[c[1]] \in {"sending", "sent", "unknown", "dead_letter"}
    /\ state[c[1]] = "dead_letter" => request[c] = "refused"

\* "sending" is written for unsafe rows alone.
SafeIsNotSending == \A r \in Row : state[r] = "sending" => r \notin Idempotent

\* Effects and delivered requests belong together.
EffectsAreDeliveries ==
  /\ \A r \in Row : effects[r] \in {0, 1}
  /\ \A c \in Claim : request[c] = "delivered" => effects[c[1]] = 1
  /\ \A r \in Row : effects[r] = 1 =>
       \E n \in Attempt : request[<<r, n>>] = "delivered"

RowsInv ==
  /\ TypeOK /\ UnmadeIsBlank /\ WorkersAreTruthful
  /\ UnsafeRequestIsLast /\ EffectsAreDeliveries

IInv == RowsInv /\ SafeIsNotSending

-----------------------------------------------------------------------------
(* Every step keeps it.                                                    *)

\* A claim is a row and an attempt, and the other way round.
LEMMA ClaimParts ==
  /\ \A c \in Claim : c[1] \in Row /\ c[2] \in Attempt /\ c[2] \in Nat /\ c[2] > 0 /\ c = <<c[1], c[2]>>
  /\ \A r \in Row, n \in Attempt : <<r, n>> \in Claim
  BY OutboxAssumption DEF Claim, Attempt

LEMMA InitInv == Init => RowsInv
<1> SUFFICES ASSUME Init PROVE RowsInv
  OBVIOUS
<1>1. TypeOK
  BY OutboxAssumption DEF Init, TypeOK, DeliveryState, Answer
<1> QED
  BY <1>1, ClaimParts, OutboxAssumption
  DEF Init, RowsInv, UnmadeIsBlank, WorkersAreTruthful, UnsafeRequestIsLast,
      EffectsAreDeliveries, Attempt

\* The steps that change neither requests nor effects leave EffectsAreDeliveries.
LEMMA EffectsUntouched ==
  ASSUME EffectsAreDeliveries, UNCHANGED <<request, effects>>
  PROVE  EffectsAreDeliveries'
  BY DEF EffectsAreDeliveries

LEMMA ProduceInv ==
  ASSUME RowsInv, NEW r \in Row, Produce(r)
  PROVE  RowsInv'
<1>1. TypeOK'
  BY DEF RowsInv, TypeOK, Produce, DeliveryState
<1>2. UnmadeIsBlank' /\ WorkersAreTruthful'
  BY DEF RowsInv, TypeOK, Produce, UnmadeIsBlank, WorkersAreTruthful
<1>3. UnsafeRequestIsLast'
  BY ClaimParts DEF RowsInv, TypeOK, Produce, UnsafeRequestIsLast
<1> QED
  BY <1>1, <1>2, <1>3, EffectsUntouched DEF RowsInv, Produce

LEMMA ExpireLeaseInv ==
  ASSUME RowsInv, NEW r \in Row, ExpireLease(r)
  PROVE  RowsInv'
<1>1. TypeOK'
  BY DEF RowsInv, TypeOK, ExpireLease
<1> QED
  BY <1>1, EffectsUntouched
  DEF RowsInv, ExpireLease, UnmadeIsBlank, WorkersAreTruthful, UnsafeRequestIsLast

LEMMA ClaimDueInv ==
  ASSUME RowsInv, NEW Batch \in SUBSET Row, ClaimDue(Batch)
  PROVE  RowsInv'
<1>1. \A r \in Batch : /\ attempts[r] < MAX_DELIVERY_ATTEMPTS
                       /\ state[r] \in {"pending", "leased"}
  BY DEF ClaimDue, Claimable
<1>2. \A r \in Row : attempts[r] \in Nat /\ attempts[r] \in 0..MAX_DELIVERY_ATTEMPTS
  BY OutboxAssumption DEF RowsInv, TypeOK
<1>3. /\ state' \in [Row -> DeliveryState]
      /\ lease' \in [Row -> {"none", "live", "expired"}]
  BY DEF RowsInv, TypeOK, ClaimDue, DeliveryState
<1>4. attempts' \in [Row -> 0..MAX_DELIVERY_ATTEMPTS]
  BY <1>1, <1>2, OutboxAssumption DEF ClaimDue
<1>5. worker' \in [Claim -> {"idle", "claimed", "calling", "done"} \cup Answer]
  BY DEF RowsInv, TypeOK, ClaimDue
<1>6. TypeOK'
  BY <1>3, <1>4, <1>5 DEF RowsInv, TypeOK, ClaimDue
<1>7. \A r \in Row : attempts'[r] = IF r \in Batch THEN attempts[r] + 1 ELSE attempts[r]
  BY DEF ClaimDue
<1>8. \A c \in Claim : worker'[c] = IF c[1] \in Batch /\ c[2] = attempts[c[1]] + 1
                                    THEN "claimed" ELSE worker[c]
  BY DEF ClaimDue
<1>9. \A r \in Row : state'[r] = IF r \in Batch THEN "leased"
                                 ELSE IF Swept(r) THEN "unknown"
                                 ELSE IF Exhausted(r) THEN "dead_letter" ELSE state[r]
  BY DEF ClaimDue
<1>10. request' = request
  BY DEF ClaimDue
<1>11. UnmadeIsBlank'
  <2>1. ASSUME NEW c \in Claim, c[2] > attempts'[c[1]]
        PROVE  worker'[c] = "idle" /\ request'[c] = "none"
    BY <2>1, <1>2, <1>7, <1>8, <1>10, ClaimParts DEF RowsInv, UnmadeIsBlank
  <2>2. ASSUME NEW r \in Row, state'[r] = "absent" PROVE attempts'[r] = 0
    BY <2>2, <1>7, <1>9 DEF RowsInv, UnmadeIsBlank
  <2> QED
    BY <2>1, <2>2 DEF UnmadeIsBlank
<1>12. WorkersAreTruthful'
  <2> SUFFICES ASSUME NEW c \in Claim
               PROVE  /\ worker'[c] \in {"idle", "claimed"} => request'[c] = "none"
                      /\ worker'[c] = "calling" => request'[c] # "none"
                      /\ worker'[c] = "ok" => request'[c] = "delivered"
                      /\ worker'[c] = "unavailable" => request'[c] = "refused"
    BY DEF WorkersAreTruthful
  <2>1. CASE c[1] \in Batch /\ c[2] = attempts[c[1]] + 1
    <3>1. request[c] = "none"
      BY <2>1, <1>2, ClaimParts DEF RowsInv, UnmadeIsBlank
    <3> QED
      BY <2>1, <3>1, <1>8, <1>10
  <2>2. CASE ~(c[1] \in Batch /\ c[2] = attempts[c[1]] + 1)
    BY <2>2, <1>8, <1>10 DEF RowsInv, WorkersAreTruthful
  <2> QED
    BY <2>1, <2>2
<1>13. UnsafeRequestIsLast'
  <2> SUFFICES ASSUME NEW c \in Claim, c[1] \notin Idempotent, request'[c] # "none"
               PROVE  /\ c[2] = attempts'[c[1]]
                      /\ state'[c[1]] \in {"sending", "sent", "unknown", "dead_letter"}
                      /\ state'[c[1]] = "dead_letter" => request'[c] = "refused"
    BY DEF UnsafeRequestIsLast
  <2>1. /\ c[2] = attempts[c[1]]
        /\ state[c[1]] \in {"sending", "sent", "unknown", "dead_letter"}
        /\ state[c[1]] = "dead_letter" => request[c] = "refused"
    BY <1>10 DEF RowsInv, UnsafeRequestIsLast
  <2>2. c[1] \in Row /\ c[1] \notin Batch /\ ~Exhausted(c[1])
    BY <2>1, <1>1, ClaimParts DEF Exhausted
  <2> QED
    BY <2>1, <2>2, <1>7, <1>9, <1>10
<1> QED
  BY <1>6, <1>11, <1>12, <1>13, EffectsUntouched DEF RowsInv, ClaimDue

LEMMA SweepOnlyInv ==
  ASSUME RowsInv, SweepOnly
  PROVE  RowsInv'
<1>1. TypeOK'
  BY DEF RowsInv, TypeOK, SweepOnly, DeliveryState
<1>2. \A r \in Row : state'[r] = IF Swept(r) THEN "unknown" ELSE state[r]
  BY DEF SweepOnly
<1>3. UnmadeIsBlank' /\ WorkersAreTruthful'
  BY <1>2 DEF RowsInv, SweepOnly, UnmadeIsBlank, WorkersAreTruthful
<1>4. UnsafeRequestIsLast'
  BY <1>2, ClaimParts DEF RowsInv, SweepOnly, UnsafeRequestIsLast
<1> QED
  BY <1>1, <1>3, <1>4, EffectsUntouched DEF RowsInv, SweepOnly

\* A worker that changes its row holds it: the row's latest claim is its own.
LEMMA ValidateInv ==
  ASSUME RowsInv, NEW c \in Claim, NEW ok \in BOOLEAN, Validate(c, ok)
  PROVE  RowsInv'
<1> DEFINE r == c[1]
           current == Holds(c, "leased") /\ lease[r] = "live"
<1>1. r \in Row /\ c[2] \in Nat /\ c[2] > 0 /\ attempts[r] \in Nat
  BY ClaimParts, OutboxAssumption DEF RowsInv, TypeOK
<1>2. worker[c] = "claimed" /\ request[c] = "none"
  BY DEF Validate, RowsInv, WorkersAreTruthful
<1>3. /\ worker' = [worker EXCEPT ![c] = IF current /\ ok THEN "calling" ELSE "done"]
      /\ request' = [request EXCEPT ![c] = IF current /\ ok THEN "open" ELSE @]
      /\ UNCHANGED <<attempts, effects>>
  BY DEF Validate
<1>4. \/ current /\ ~ok /\ state' = [state EXCEPT ![r] = "dead_letter"]
         /\ lease' = [lease EXCEPT ![r] = "none"]
      \/ current /\ ok /\ UNCHANGED lease
         /\ state' = [state EXCEPT ![r] = IF r \in Idempotent THEN @ ELSE "sending"]
      \/ ~current /\ UNCHANGED <<state, lease>>
  BY DEF Validate, Finish
<1>5. TypeOK'
  BY <1>3, <1>4 DEF RowsInv, TypeOK, DeliveryState
<1>6. current => state[r] = "leased" /\ attempts[r] = c[2]
  BY DEF Holds
<1> HIDE DEF current
<1>7. c[2] <= attempts[r]
  BY <1>1, <1>2 DEF RowsInv, UnmadeIsBlank
<1>8. UnmadeIsBlank'
  <2>1. \A d \in Claim : d[2] > attempts[d[1]] => d # c
    BY <1>7, <1>1
  <2>2. \A q \in Row : state'[q] = "absent" => state[q] = "absent"
    BY <1>1, <1>4 DEF RowsInv, TypeOK
  <2> QED
    BY <2>1, <2>2, <1>3 DEF RowsInv, TypeOK, UnmadeIsBlank
<1>9. WorkersAreTruthful'
  BY <1>2, <1>3 DEF RowsInv, TypeOK, WorkersAreTruthful
<1>10. UnsafeRequestIsLast'
  <2> SUFFICES ASSUME NEW d \in Claim, d[1] \notin Idempotent, request'[d] # "none"
               PROVE  /\ d[2] = attempts'[d[1]]
                      /\ state'[d[1]] \in {"sending", "sent", "unknown", "dead_letter"}
                      /\ state'[d[1]] = "dead_letter" => request'[d] = "refused"
    BY DEF UnsafeRequestIsLast
  <2>1. CASE d = c
    <3>1. current /\ ok
      BY <2>1, <1>2, <1>3 DEF RowsInv, TypeOK
    <3> QED
      BY <3>1, <2>1, <1>1, <1>3, <1>4, <1>6 DEF RowsInv, TypeOK
  <2>2. CASE d # c
    <3>1. /\ d[2] = attempts[d[1]]
          /\ state[d[1]] \in {"sending", "sent", "unknown", "dead_letter"}
          /\ state[d[1]] = "dead_letter" => request[d] = "refused"
          /\ request'[d] = request[d]
      BY <2>2, <1>3 DEF RowsInv, TypeOK, UnsafeRequestIsLast
    <3>2. state'[d[1]] = state[d[1]]
      BY <3>1, <1>1, <1>4, <1>6, ClaimParts DEF RowsInv, TypeOK
    <3> QED
      BY <3>1, <3>2, <1>3
  <2> QED
    BY <2>1, <2>2
<1>11. EffectsAreDeliveries'
  <2>1. \A d \in Claim : (request'[d] = "delivered") <=> (request[d] = "delivered")
    BY <1>2, <1>3 DEF RowsInv, TypeOK
  <2> QED
    BY <2>1, <1>3, ClaimParts DEF RowsInv, EffectsAreDeliveries
<1> QED
  BY <1>5, <1>8, <1>9, <1>10, <1>11 DEF RowsInv

LEMMA SendEndsInv ==
  ASSUME RowsInv, NEW c \in Claim, NEW o \in Answer, SendEnds(c, o)
  PROVE  RowsInv'
<1>1. /\ c[1] \in Row /\ worker[c] = "calling" /\ UNCHANGED <<state, attempts, lease, effects>>
      /\ worker' = [worker EXCEPT ![c] = o]
      /\ request' = [request EXCEPT ![c] = IF o = "unavailable" THEN "refused" ELSE @]
  BY ClaimParts DEF SendEnds
<1>2. TypeOK'
  BY <1>1 DEF RowsInv, TypeOK
<1>3. UnmadeIsBlank'
  <2>1. \A d \in Claim : d[2] > attempts[d[1]] => d # c
    BY <1>1 DEF RowsInv, UnmadeIsBlank
  <2> QED
    BY <1>1, <2>1 DEF RowsInv, TypeOK, UnmadeIsBlank
<1>4. WorkersAreTruthful'
  BY <1>1 DEF RowsInv, TypeOK, WorkersAreTruthful, SendEnds, Answer
<1>5. UnsafeRequestIsLast' /\ EffectsAreDeliveries'
  <2>1. CASE o # "unavailable"
    <3>1. request' = request
      BY <2>1, <1>1 DEF RowsInv, TypeOK
    <3> QED
      BY <3>1, <1>1 DEF RowsInv, UnsafeRequestIsLast, EffectsAreDeliveries
  <2>2. CASE o = "unavailable"
    <3>1. \A d \in Claim : (request'[d] = "delivered") <=> (request[d] = "delivered")
      BY <2>2, <1>1 DEF RowsInv, TypeOK, SendEnds
    <3>2. EffectsAreDeliveries'
      BY <3>1, <1>1, ClaimParts DEF RowsInv, EffectsAreDeliveries
    <3>3. UnsafeRequestIsLast'
      <4> SUFFICES ASSUME NEW d \in Claim, d[1] \notin Idempotent, request'[d] # "none"
                   PROVE  /\ d[2] = attempts'[d[1]]
                          /\ state'[d[1]] \in {"sending", "sent", "unknown", "dead_letter"}
                          /\ state'[d[1]] = "dead_letter" => request'[d] = "refused"
        BY DEF UnsafeRequestIsLast
      <4>1. request[d] # "none"
        <5>1. request[c] # "none"
          BY <1>1 DEF RowsInv, WorkersAreTruthful
        <5> QED
          BY <5>1, <1>1 DEF RowsInv, TypeOK
      <4> QED
        BY <4>1, <2>2, <1>1 DEF RowsInv, TypeOK, UnsafeRequestIsLast
    <3> QED
      BY <3>2, <3>3
  <2> QED
    BY <2>1, <2>2
<1> QED
  BY <1>2, <1>3, <1>4, <1>5 DEF RowsInv

LEMMA FinishClaimInv ==
  ASSUME RowsInv, NEW c \in Claim, FinishClaim(c)
  PROVE  RowsInv'
<1> DEFINE r == c[1]
           holds == Holds(c, IF r \in Idempotent THEN "leased" ELSE "sending")
<1>1. r \in Row
  BY ClaimParts
<1>2. /\ worker[c] \in Answer /\ worker' = [worker EXCEPT ![c] = "done"]
      /\ UNCHANGED <<attempts, request, effects>>
  BY DEF FinishClaim
<1>3. \/ /\ holds /\ state' = [state EXCEPT ![r] = Verdict(c)]
         /\ lease' = [lease EXCEPT ![r] = "none"]
      \/ ~holds /\ UNCHANGED <<state, lease>>
  BY DEF FinishClaim, Finish
<1>4. /\ Verdict(c) \in {"sent", "unknown", "dead_letter", "pending"}
      /\ r \notin Idempotent => Verdict(c) # "pending"
      /\ r \notin Idempotent /\ Verdict(c) = "dead_letter" => worker[c] = "unavailable"
  <2>1. CASE worker[c] = "ok"
    BY <2>1 DEF Verdict
  <2>2. CASE worker[c] = "unavailable"
    BY <2>2 DEF Verdict
  <2>3. CASE worker[c] \in {"timeout", "error"} /\ r \notin Idempotent
    BY <2>3 DEF Verdict
  <2>4. CASE worker[c] \in {"timeout", "error"} /\ r \in Idempotent
    BY <2>4 DEF Verdict
  <2> QED
    BY <1>2, <2>1, <2>2, <2>3, <2>4 DEF Answer
<1>5. TypeOK'
  BY <1>2, <1>3, <1>4 DEF RowsInv, TypeOK, DeliveryState
<1>6. UnmadeIsBlank'
  <2>1. \A d \in Claim : d[2] > attempts[d[1]] => d # c
    BY <1>2 DEF RowsInv, UnmadeIsBlank, Answer
  <2>2. \A q \in Row : state'[q] = "absent" => state[q] = "absent"
    BY <1>1, <1>3, <1>4 DEF RowsInv, TypeOK
  <2> QED
    BY <2>1, <2>2, <1>2 DEF RowsInv, TypeOK, UnmadeIsBlank
<1>7. WorkersAreTruthful'
  BY <1>2 DEF RowsInv, TypeOK, WorkersAreTruthful
<1>8. UnsafeRequestIsLast'
  <2> SUFFICES ASSUME NEW d \in Claim, d[1] \notin Idempotent, request'[d] # "none"
               PROVE  /\ d[2] = attempts'[d[1]]
                      /\ state'[d[1]] \in {"sending", "sent", "unknown", "dead_letter"}
                      /\ state'[d[1]] = "dead_letter" => request'[d] = "refused"
    BY DEF UnsafeRequestIsLast
  <2>1. /\ d[2] = attempts[d[1]]
        /\ state[d[1]] \in {"sending", "sent", "unknown", "dead_letter"}
        /\ state[d[1]] = "dead_letter" => request[d] = "refused"
    BY <1>2 DEF RowsInv, UnsafeRequestIsLast
  <2>2. CASE holds /\ d[1] = r
    <3>1. d = c
      BY <2>1, <2>2, ClaimParts DEF Holds
    <3>2. state'[d[1]] = Verdict(c)
      BY <2>2, <1>1, <1>3 DEF RowsInv, TypeOK
    <3> QED
      BY <2>1, <3>1, <3>2, <1>2, <1>4 DEF RowsInv, WorkersAreTruthful
  <2>3. CASE ~(holds /\ d[1] = r)
    <3>1. state'[d[1]] = state[d[1]]
      BY <2>3, <1>1, <1>3, ClaimParts DEF RowsInv, TypeOK
    <3> QED
      BY <2>1, <3>1, <1>2
  <2> QED
    BY <2>2, <2>3
<1> QED
  BY <1>2, <1>5, <1>6, <1>7, <1>8, EffectsUntouched DEF RowsInv

LEMMA CrashInv ==
  ASSUME RowsInv, NEW c \in Claim, Crash(c)
  PROVE  RowsInv'
<1>1. TypeOK'
  BY DEF RowsInv, TypeOK, Crash
<1>2. UnmadeIsBlank'
  <2>1. \A d \in Claim : d[2] > attempts[d[1]] => d # c
    BY DEF RowsInv, UnmadeIsBlank, Crash
  <2> QED
    BY <2>1 DEF Crash, RowsInv, TypeOK, UnmadeIsBlank
<1>3. WorkersAreTruthful' /\ UnsafeRequestIsLast'
  BY DEF RowsInv, TypeOK, Crash, WorkersAreTruthful, UnsafeRequestIsLast
<1> QED
  BY <1>1, <1>2, <1>3, EffectsUntouched DEF RowsInv, Crash

\* An unsafe row whose request is open has had no effect yet.
LEMMA OpenMeansNoEffect ==
  ASSUME RowsInv, NEW c \in Claim, c[1] \notin Idempotent, request[c] # "delivered",
         request[c] # "none"
  PROVE  effects[c[1]] = 0
<1>1. ASSUME NEW n \in Attempt, request[<<c[1], n>>] = "delivered" PROVE FALSE
  <2>1. <<c[1], n>> \in Claim /\ <<c[1], n>>[1] = c[1] /\ <<c[1], n>>[2] = n
    BY ClaimParts
  <2>2. n = attempts[c[1]] /\ c[2] = attempts[c[1]]
    BY <1>1, <2>1 DEF RowsInv, UnsafeRequestIsLast
  <2> QED
    BY <1>1, <2>2, ClaimParts
<1> QED
  BY <1>1, ClaimParts DEF RowsInv, EffectsAreDeliveries

LEMMA DeliverInv ==
  ASSUME RowsInv, NEW c \in Claim, Deliver(c)
  PROVE  RowsInv'
<1> DEFINE r == c[1]
<1>1. /\ r \in Row /\ request[c] = "open" /\ UNCHANGED <<state, attempts, lease, worker>>
      /\ request' = [request EXCEPT ![c] = "delivered"]
      /\ effects' = [effects EXCEPT ![r] = IF r \in Idempotent THEN 1 ELSE @ + 1]
  BY ClaimParts DEF Deliver
<1>2. effects' = [effects EXCEPT ![r] = 1]
  <2>1. r \notin Idempotent => effects[r] + 1 = 1
    BY <1>1, OpenMeansNoEffect
  <2> QED
    BY <2>1, <1>1
<1>3. TypeOK'
  BY <1>1, <1>2 DEF RowsInv, TypeOK
<1>4. UnmadeIsBlank' /\ WorkersAreTruthful'
  BY <1>1 DEF RowsInv, TypeOK, UnmadeIsBlank, WorkersAreTruthful
<1>5. UnsafeRequestIsLast'
  BY <1>1 DEF RowsInv, TypeOK, UnsafeRequestIsLast
<1>6. EffectsAreDeliveries'
  <2>1. \A q \in Row : effects'[q] \in {0, 1}
    BY <1>1, <1>2 DEF RowsInv, TypeOK, EffectsAreDeliveries
  <2>2. \A d \in Claim : request'[d] = "delivered" => effects'[d[1]] = 1
    BY <1>1, <1>2, ClaimParts DEF RowsInv, TypeOK, EffectsAreDeliveries
  <2>3. ASSUME NEW q \in Row, effects'[q] = 1
        PROVE  \E n \in Attempt : request'[<<q, n>>] = "delivered"
    <3>1. CASE q = r
      <4>1. c[2] \in Attempt /\ c = <<q, c[2]>> /\ request'[c] = "delivered"
        BY <3>1, <1>1, ClaimParts DEF RowsInv, TypeOK
      <4> QED
        BY <4>1
    <3>2. CASE q # r
      <4>1. effects[q] = 1
        BY <2>3, <3>2, <1>1, <1>2 DEF RowsInv, TypeOK
      <4>2. PICK n \in Attempt : request[<<q, n>>] = "delivered"
        BY <4>1 DEF RowsInv, EffectsAreDeliveries
      <4>3. request'[<<q, n>>] = "delivered"
        BY <4>2, <1>1, ClaimParts DEF RowsInv, TypeOK
      <4> QED
        BY <4>3
    <3> QED
      BY <3>1, <3>2
  <2> QED
    BY <2>1, <2>2, <2>3 DEF EffectsAreDeliveries
<1> QED
  BY <1>3, <1>4, <1>5, <1>6 DEF RowsInv

LEMMA NextInv == RowsInv /\ [Next]_vars => RowsInv'
<1> SUFFICES ASSUME RowsInv, [Next]_vars PROVE RowsInv'
  OBVIOUS
<1>1. CASE UNCHANGED vars
  BY <1>1 DEF vars, RowsInv, TypeOK, UnmadeIsBlank, WorkersAreTruthful,
     UnsafeRequestIsLast, EffectsAreDeliveries
<1>2. CASE \E r \in Row : Produce(r) \/ ExpireLease(r)
  BY <1>2, ProduceInv, ExpireLeaseInv
<1>3. CASE SweepOnly \/ \E Batch \in SUBSET Row : ClaimDue(Batch)
  BY <1>3, SweepOnlyInv, ClaimDueInv
<1>4. CASE \E c \in Claim : WorkerStep(c) \/ Deliver(c) \/ Crash(c)
  BY <1>4, ValidateInv, SendEndsInv, FinishClaimInv, DeliverInv, CrashInv DEF WorkerStep
<1> QED
  BY <1>1, <1>2, <1>3, <1>4 DEF Next

\* Validate writes "sending" only for an unsafe row; nothing else writes it.
LEMMA NextSafe == RowsInv /\ SafeIsNotSending /\ [Next]_vars => SafeIsNotSending'
<1> SUFFICES ASSUME RowsInv, SafeIsNotSending, [Next]_vars PROVE SafeIsNotSending'
  OBVIOUS
<1>1. CASE UNCHANGED vars
  BY <1>1 DEF vars, SafeIsNotSending
<1>2. CASE \E r \in Row : Produce(r) \/ ExpireLease(r)
  BY <1>2 DEF Produce, ExpireLease, SafeIsNotSending, RowsInv, TypeOK
<1>3. CASE SweepOnly \/ \E Batch \in SUBSET Row : ClaimDue(Batch)
  BY <1>3 DEF SweepOnly, ClaimDue, SafeIsNotSending
<1>4. ASSUME NEW c \in Claim, NEW ok \in BOOLEAN, Validate(c, ok)
      PROVE  SafeIsNotSending'
  BY <1>4, ClaimParts DEF Validate, Finish, SafeIsNotSending, RowsInv, TypeOK
<1>5. ASSUME NEW c \in Claim, FinishClaim(c)
      PROVE  SafeIsNotSending'
  <2>1. Verdict(c) # "sending"
    BY DEF Verdict
  <2> QED
    BY <1>5, <2>1, ClaimParts DEF FinishClaim, Finish, SafeIsNotSending, RowsInv, TypeOK
<1>6. ASSUME NEW c \in Claim,
             Deliver(c) \/ Crash(c) \/ \E o \in Answer : SendEnds(c, o)
      PROVE  SafeIsNotSending'
  BY <1>6 DEF Deliver, Crash, SendEnds, SafeIsNotSending
<1> QED
  BY <1>1, <1>2, <1>3, <1>4, <1>5, <1>6 DEF Next, WorkerStep

-----------------------------------------------------------------------------
(* The theorems.                                                           *)

\* The invariant holds whatever workers, leases and transports do
\* (domain/agent_outbox.py).
THEOREM Invariance == Spec => []IInv
<1>1. Init => IInv
  BY InitInv DEF Init, IInv, SafeIsNotSending
<1>2. IInv /\ [Next]_vars => IInv'
  BY NextInv, NextSafe DEF IInv
<1> QED
  BY <1>1, <1>2, PTL DEF Spec

\* The rows stay typed: attempts never pass the limit, and every state is one
\* the code writes.
THEOREM TypeCorrect == Spec => []TypeOK
<1>1. IInv => TypeOK
  BY DEF IInv, RowsInv
<1> QED
  BY <1>1, Invariance, PTL

\* To a recipient that cannot deduplicate at most one request ever leaves
\* (_mark_non_idempotent_send_started, claim_due_outbox).
THEOREM UnsafeSendsOnce == Spec => []UnsafeSendLeavesOnce
<1>1. IInv => UnsafeSendLeavesOnce
  BY ClaimParts DEF IInv, RowsInv, UnsafeRequestIsLast, UnsafeSendLeavesOnce
<1> QED
  BY <1>1, Invariance, PTL

\* A live lease is ended by its holder alone: the overtaken worker's
\* compare-and-set fails (_finish_claim).
THEOREM HeirsKeepTheirLeases == Spec => HeirIsUndisturbed
<1>1. ASSUME TypeOK, [Next]_vars, NEW r \in Row, state[r] \in {"leased", "sending"},
             lease[r] = "live", lease'[r] = "none"
      PROVE  worker'[<<r, attempts[r]>>] # worker[<<r, attempts[r]>>]
  <2>1. CASE UNCHANGED vars \/ SweepOnly \/ \E Batch \in SUBSET Row : ClaimDue(Batch)
    BY <1>1, <2>1 DEF vars, SweepOnly, ClaimDue, Swept, Exhausted, Overdue
  <2>2. CASE \E q \in Row : Produce(q) \/ ExpireLease(q)
    BY <1>1, <2>2 DEF Produce, ExpireLease, TypeOK
  <2>3. ASSUME NEW c \in Claim, NEW ok \in BOOLEAN, Validate(c, ok)
        PROVE  worker'[<<r, attempts[r]>>] # worker[<<r, attempts[r]>>]
    <3>1. \/ Holds(c, "leased") /\ lease' = [lease EXCEPT ![c[1]] = "none"]
          \/ UNCHANGED lease
      BY <2>3 DEF Validate, Finish
    <3>2. Holds(c, "leased") /\ c[1] = r
      BY <1>1, <3>1 DEF TypeOK
    <3>3. c = <<r, attempts[r]>>
      BY <3>2, ClaimParts DEF Holds
    <3>4. worker[c] = "claimed" /\ worker'[c] # "claimed"
      BY <1>1, <2>3 DEF Validate, TypeOK
    <3> QED
      BY <3>3, <3>4
  <2>4. ASSUME NEW c \in Claim, FinishClaim(c)
        PROVE  worker'[<<r, attempts[r]>>] # worker[<<r, attempts[r]>>]
    <3>1. c[1] = r /\ attempts[r] = c[2]
      BY <1>1, <2>4, ClaimParts DEF FinishClaim, Finish, Holds, TypeOK
    <3>2. c = <<r, attempts[r]>>
      BY <3>1, ClaimParts
    <3> QED
      BY <1>1, <2>4, <3>2 DEF FinishClaim, Answer, TypeOK
  <2>5. CASE \E c \in Claim : Deliver(c) \/ Crash(c) \/ \E o \in Answer : SendEnds(c, o)
    BY <1>1, <2>5 DEF Deliver, Crash, SendEnds
  <2> QED
    BY <1>1, <2>1, <2>2, <2>3, <2>4, <2>5 DEF Next, WorkerStep
<1>2. TypeOK /\ [Next]_vars =>
        [\A r \in Row :
           state[r] \in {"leased", "sending"} /\ lease[r] = "live" /\ lease'[r] = "none"
           => worker'[<<r, attempts[r]>>] # worker[<<r, attempts[r]>>]]_vars
  BY <1>1
<1> QED
  BY <1>2, TypeCorrect, PTL DEF Spec, HeirIsUndisturbed

-----------------------------------------------------------------------------
(* The outbox implements its promise.                                      *)

\* A step that changes no row's outcome and no effect.
LEMMA Quiet ==
  ASSUME \A r \in Row : Outcome'[r] = Outcome[r], UNCHANGED effects
  PROVE  UNCHANGED <<Outcome, effects>>
<1>1. Outcome = [r \in Row |-> Outcome[r]] /\ Outcome' = [r \in Row |-> Outcome'[r]]
  BY DEF Outcome
<1> QED
  BY <1>1

\* A step that concludes rows and changes nothing else of the promise.
LEMMA Concluding ==
  ASSUME IInv, IInv', UNCHANGED effects,
         \A r \in Row : Outcome'[r] = Outcome[r] \/ Promise!Conclude(r)
  PROVE  Promise!Next
<1>1. Outcome' \in [Row -> Promise!Outcome]
  BY DEF IInv, RowsInv, TypeOK, Outcome, DeliveryState, Promise!Outcome
<1>2. effects' \in [Row -> {0, 1}]
  BY DEF IInv, RowsInv, TypeOK, EffectsAreDeliveries
<1> QED
  BY <1>1, <1>2 DEF Promise!Next, Promise!Stay

\* A row no effect was recorded of, because its request never left or was
\* refused.
LEMMA NoEffect ==
  ASSUME IInv, NEW r \in Row, r \notin Idempotent,
         \/ state[r] \in {"pending", "leased"}
         \/ /\ attempts[r] \in Attempt
            /\ request[<<r, attempts[r]>>] # "delivered"
  PROVE  effects[r] = 0
<1>1. ASSUME NEW n \in Attempt, request[<<r, n>>] = "delivered" PROVE FALSE
  <2>1. <<r, n>> \in Claim /\ <<r, n>>[1] = r /\ <<r, n>>[2] = n
    BY ClaimParts
  <2>2. n = attempts[r] /\ state[r] \notin {"pending", "leased"}
    BY <1>1, <2>1 DEF IInv, RowsInv, UnsafeRequestIsLast
  <2> QED
    BY <1>1, <2>2
<1> QED
  BY <1>1 DEF IInv, RowsInv, EffectsAreDeliveries

\* Whatever the rows' states become, what matters is whether they are final.
LEMMA OutcomeOf ==
  ASSUME NEW r \in Row
  PROVE  /\ Outcome[r] = IF state[r] \in {"pending", "leased", "sending"} THEN "open" ELSE state[r]
         /\ Outcome'[r] = IF state'[r] \in {"pending", "leased", "sending"} THEN "open" ELSE state'[r]
  BY DEF Outcome

LEMMA ProducePromised ==
  ASSUME IInv, IInv', NEW r \in Row, Produce(r)
  PROVE  Promise!Next
<1>1. Outcome' \in [Row -> Promise!Outcome]
  BY DEF IInv, RowsInv, TypeOK, Outcome, DeliveryState, Promise!Outcome
<1>2. effects' \in [Row -> {0, 1}]
  BY DEF IInv, RowsInv, TypeOK, EffectsAreDeliveries
<1>3. ASSUME NEW q \in Row PROVE Promise!Accept(q) \/ Promise!Stay(q)
  BY OutcomeOf DEF Produce, IInv, RowsInv, TypeOK, Promise!Accept, Promise!Stay
<1> QED
  BY <1>1, <1>2, <1>3 DEF Promise!Next

LEMMA DispatchPromised ==
  ASSUME IInv, IInv', SweepOnly \/ \E Batch \in SUBSET Row : ClaimDue(Batch)
  PROVE  Promise!Next
<1>1. UNCHANGED effects
  BY DEF SweepOnly, ClaimDue
<1>2. ASSUME NEW r \in Row
      PROVE  \/ state'[r] = state[r]
             \/ state'[r] = "leased" /\ state[r] \in {"pending", "leased"}
             \/ state'[r] = "unknown" /\ state[r] = "sending"
             \/ state'[r] = "dead_letter" /\ state[r] = "leased"
  BY DEF SweepOnly, ClaimDue, Claimable, Swept, Exhausted
<1>3. ASSUME NEW r \in Row PROVE Outcome'[r] = Outcome[r] \/ Promise!Conclude(r)
  <2>1. state[r] = "sending" => r \notin Idempotent
    BY DEF IInv, SafeIsNotSending
  <2>2. state[r] = "leased" /\ r \notin Idempotent => effects[r] = 0
    BY NoEffect
  <2> QED
    BY <1>1, <1>2, <2>1, <2>2, OutcomeOf DEF Promise!Conclude
<1> QED
  BY <1>1, <1>3, Concluding

LEMMA ValidatePromised ==
  ASSUME IInv, IInv', NEW c \in Claim, NEW ok \in BOOLEAN, Validate(c, ok)
  PROVE  Promise!Next
<1>1. UNCHANGED effects
  BY DEF Validate
<1>2. ASSUME NEW r \in Row
      PROVE  \/ state'[r] = state[r]
             \/ state'[r] = "sending" /\ state[r] = "leased"
             \/ state'[r] = "dead_letter" /\ state[r] = "leased"
  BY ClaimParts DEF Validate, Finish, Holds, IInv, RowsInv, TypeOK
<1>3. ASSUME NEW r \in Row PROVE Outcome'[r] = Outcome[r] \/ Promise!Conclude(r)
  <2>1. state[r] = "leased" /\ r \notin Idempotent => effects[r] = 0
    BY NoEffect
  <2> QED
    BY <1>1, <1>2, <2>1, OutcomeOf DEF Promise!Conclude
<1> QED
  BY <1>1, <1>3, Concluding

LEMMA FinishPromised ==
  ASSUME IInv, IInv', NEW c \in Claim, FinishClaim(c)
  PROVE  Promise!Next
<1> DEFINE r == c[1]
<1>1. r \in Row /\ c[2] \in Attempt /\ c = <<r, c[2]>> /\ worker[c] \in Answer /\ UNCHANGED effects
  BY ClaimParts DEF FinishClaim
<1>2. CASE UNCHANGED state
  <2>1. \A q \in Row : Outcome'[q] = Outcome[q]
    BY <1>2, OutcomeOf
  <2> QED
    BY <2>1, <1>1, Concluding
<1>3. CASE state' # state
  <2>1. /\ state[r] \in {"leased", "sending"} /\ attempts[r] = c[2]
        /\ state' = [state EXCEPT ![r] = Verdict(c)]
    BY <1>3 DEF FinishClaim, Finish, Holds
  <2>2. \A q \in Row : q # r => Outcome'[q] = Outcome[q]
    BY <2>1, OutcomeOf DEF IInv, RowsInv, TypeOK
  <2>3. Outcome[r] = "open" /\ state'[r] = Verdict(c)
    BY <2>1, <1>1, OutcomeOf DEF IInv, RowsInv, TypeOK
  <2>4. CASE worker[c] = "ok"
    <3>1. Verdict(c) = "sent" /\ effects[r] = 1
      BY <2>4, <1>1 DEF Verdict, IInv, RowsInv, WorkersAreTruthful, EffectsAreDeliveries
    <3> QED
      BY <3>1, <1>1, <2>2, <2>3, OutcomeOf, Concluding DEF Promise!Conclude
  <2>5. CASE worker[c] = "unavailable"
    <3>1. Verdict(c) = "dead_letter" /\ request[c] = "refused"
      BY <2>5 DEF Verdict, IInv, RowsInv, WorkersAreTruthful
    <3>2. r \in Idempotent \/ effects[r] = 0
      BY <3>1, <1>1, <2>1, NoEffect
    <3> QED
      BY <3>1, <3>2, <1>1, <2>2, <2>3, OutcomeOf, Concluding DEF Promise!Conclude
  <2>6. CASE worker[c] \in {"timeout", "error"} /\ r \notin Idempotent
    <3>1. Verdict(c) = "unknown"
      BY <2>6 DEF Verdict
    <3> QED
      BY <3>1, <2>6, <1>1, <2>2, <2>3, OutcomeOf, Concluding DEF Promise!Conclude
  <2>7. CASE worker[c] \in {"timeout", "error"} /\ r \in Idempotent
    <3>1. Verdict(c) \in {"dead_letter", "pending"}
      BY <2>7 DEF Verdict
    <3> QED
      BY <3>1, <2>7, <1>1, <2>2, <2>3, OutcomeOf, Concluding DEF Promise!Conclude
  <2> QED
    BY <1>1, <2>4, <2>5, <2>6, <2>7 DEF Answer
<1> QED
  BY <1>2, <1>3

\* An effect is the row's first, or an idempotent recipient's repetition.
LEMMA DeliverPromised ==
  ASSUME IInv, IInv', NEW c \in Claim, Deliver(c)
  PROVE  Promise!Next \/ UNCHANGED <<Outcome, effects>>
<1> DEFINE r == c[1]
<1>1. /\ r \in Row /\ c[2] > 0 /\ request[c] = "open" /\ UNCHANGED state
      /\ effects' = [effects EXCEPT ![r] = IF r \in Idempotent THEN 1 ELSE @ + 1]
  BY ClaimParts DEF Deliver
<1>2. \A q \in Row : Outcome'[q] = Outcome[q]
  BY <1>1, OutcomeOf
<1>3. CASE effects[r] = 1
  <2>1. effects' = effects
    BY <1>1, <1>3, OpenMeansNoEffect DEF IInv, RowsInv, TypeOK
  <2> QED
    BY <2>1, <1>2, Quiet
<1>4. CASE effects[r] = 0
  <2>1. effects' = [effects EXCEPT ![r] = 1]
    BY <1>1, <1>4
  <2>2. attempts[r] # 0 => state[r] # "absent"
    BY <1>1 DEF IInv, RowsInv, UnmadeIsBlank
  <2>3. attempts[r] # 0
    BY <1>1, OutboxAssumption, ClaimParts DEF IInv, RowsInv, TypeOK, UnmadeIsBlank
  <2>4. r \in Idempotent \/ state[r] # "dead_letter"
    BY <1>1 DEF IInv, RowsInv, UnsafeRequestIsLast
  <2>5. Promise!Take(r)
    BY <1>1, <1>2, <1>4, <2>1, <2>2, <2>3, <2>4, OutcomeOf DEF Promise!Take, IInv, RowsInv, TypeOK
  <2>6. \A q \in Row : q # r => Promise!Stay(q)
    BY <1>2, <2>1 DEF Promise!Stay, IInv, RowsInv, TypeOK
  <2>7. Outcome' \in [Row -> Promise!Outcome]
    BY DEF IInv, RowsInv, TypeOK, Outcome, DeliveryState, Promise!Outcome
  <2>8. effects' \in [Row -> {0, 1}]
    BY DEF IInv, RowsInv, TypeOK, EffectsAreDeliveries
  <2> QED
    BY <2>5, <2>6, <2>7, <2>8 DEF Promise!Next
<1> QED
  BY <1>1, <1>3, <1>4 DEF IInv, RowsInv, EffectsAreDeliveries

\* The outbox implements its promise: at most one effect per row, and a final
\* word that is true (deliver_outbox_claim, claim_due_outbox, _finish_claim).
THEOREM Implementation == Spec => PromiseKept
<1>1. Init => Promise!Init
  BY DEF Init, Promise!Init, Outcome
<1>2. IInv /\ IInv' /\ [Next]_vars => [Promise!Next]_<<Outcome, effects>>
  <2> SUFFICES ASSUME IInv, IInv', [Next]_vars
               PROVE  Promise!Next \/ UNCHANGED <<Outcome, effects>>
    OBVIOUS
  <2>1. CASE UNCHANGED vars
    BY <2>1, Quiet, OutcomeOf DEF vars
  <2>2. CASE \E r \in Row : Produce(r)
    BY <2>2, ProducePromised
  <2>3. CASE SweepOnly \/ \E Batch \in SUBSET Row : ClaimDue(Batch)
    BY <2>3, DispatchPromised
  <2>4. ASSUME NEW c \in Claim, NEW ok \in BOOLEAN, Validate(c, ok)
        PROVE  Promise!Next
    BY <2>4, ValidatePromised
  <2>5. ASSUME NEW c \in Claim, FinishClaim(c) PROVE Promise!Next
    BY <2>5, FinishPromised
  <2>6. ASSUME NEW c \in Claim, Deliver(c)
        PROVE  Promise!Next \/ UNCHANGED <<Outcome, effects>>
    BY <2>6, DeliverPromised
  <2>7. ASSUME \/ \E r \in Row : ExpireLease(r)
               \/ \E c \in Claim : Crash(c) \/ \E o \in Answer : SendEnds(c, o)
        PROVE  UNCHANGED <<Outcome, effects>>
    <3>1. UNCHANGED <<state, effects>>
      BY <2>7 DEF ExpireLease, Crash, SendEnds
    <3> QED
      BY <3>1, Quiet, OutcomeOf
  <2> QED
    BY <2>1, <2>2, <2>3, <2>4, <2>5, <2>6, <2>7 DEF Next, WorkerStep
<1> QED
  BY <1>1, <1>2, Invariance, PTL DEF Spec, PromiseKept, Promise!Spec
=============================================================================
