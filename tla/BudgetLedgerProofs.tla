-------------------------- MODULE BudgetLedgerProofs --------------------------
(***************************************************************************)
(* Theorems about the shared budget ledger, for any family of executions,  *)
(* any limits and any number of calls.                                     *)
(***************************************************************************)
EXTENDS BudgetLedgerProperties, FiniteSetTheorems, TLAPS

-----------------------------------------------------------------------------
(* The inductive invariant.                                                *)

\* An execution has its reservation exactly from the second transaction on,
\* and it is open while the execution runs.
ReservesAreOpen ==
  \A a \in Attempt :
    /\ phase[a] \in {"claimed", "read"} => time[a] = NoTime
    /\ phase[a] = "running" => time[a].state = "reserved" /\ time[a].actual = 0

CallsWithinLimit == Cardinality(CallsTaken) <= CallLimit

IInv == TypeOK /\ ReservesAreOpen /\ CallsWithinLimit /\ ActiveTimeIsBounded

-----------------------------------------------------------------------------
(* Finite sets.                                                            *)

LEMMA CallsAreFinite == IsFiniteSet(Call) /\ IsFiniteSet(CallsTaken)
<1>1. IsFiniteSet(Call)
  BY FS_Product, LedgerAssumption DEF Call
<1>2. CallsTaken \in SUBSET Call
  BY DEF CallsTaken
<1> QED  BY <1>1, <1>2, FS_Subset

\* The units of a reservation are a natural number.
LEMMA UnitsType ==
  ASSUME NEW t \in [Attempt -> TimeRow], NEW a \in Attempt
  PROVE  Units(t, a) \in Nat
<1>1. t[a] \in TimeRow  OBVIOUS
<1> QED  BY <1>1 DEF Units, TimeRow

\* What a family has used is a finite set of seconds.
LEMMA SecondsAreFinite ==
  ASSUME NEW t \in [Attempt -> TimeRow]
  PROVE  IsFiniteSet(Seconds(t)) /\ ActiveUsage(t) \in Nat
<1> DEFINE f == [a \in Attempt |-> {a} \X (1..Units(t, a))]
           T == {{a} \X (1..Units(t, a)) : a \in Attempt}
<1>1. f \in Surjection(Attempt, T)
  BY DEF Surjection
<1>2. IsFiniteSet(T)
  BY <1>1, FS_Surjection, LedgerAssumption
<1>3. ASSUME NEW X \in T  PROVE IsFiniteSet(X)
  <2>1. PICK a \in Attempt : X = {a} \X (1..Units(t, a))  OBVIOUS
  <2>2. IsFiniteSet({a})
    BY FS_Singleton
  <2>3. IsFiniteSet(1..Units(t, a))
    BY FS_Interval, UnitsType
  <2> QED  BY <2>1, <2>2, <2>3, FS_Product
<1>4. IsFiniteSet(UNION T)
  <2> HIDE DEF T
  <2> QED  BY <1>2, <1>3, FS_UNION
<1>5. IsFiniteSet(Seconds(t))
  BY <1>4 DEF Seconds
<1> QED  BY <1>5, FS_CardinalityType DEF ActiveUsage

\* Which seconds count, one by one.
LEMMA CountedSeconds ==
  ASSUME NEW t \in [Attempt -> TimeRow], NEW x
  PROVE  x \in Seconds(t) <=>
           \E a \in Attempt : \E i \in 1..Units(t, a) : x = <<a, i>>
  BY DEF Seconds

-----------------------------------------------------------------------------
(* Every step keeps the invariant.                                         *)

LEMMA InitInv == Init => IInv
<1> SUFFICES ASSUME Init PROVE IInv
  OBVIOUS
<1>1. TypeOK
  BY DEF Init, TypeOK, Phase, CallState, TimeRow, NoTime
<1>2. ReservesAreOpen
  BY DEF Init, ReservesAreOpen
<1>3. CallsWithinLimit
  <2>1. CallsTaken = {}
    BY DEF Init, CallsTaken
  <2> QED  BY <2>1, FS_EmptySet, LedgerAssumption DEF CallsWithinLimit
<1>4. ActiveTimeIsBounded
  <2>1. Seconds(time) = {}
    BY DEF Init, Seconds, Units, NoTime
  <2> QED  BY <2>1, FS_EmptySet, LedgerAssumption DEF ActiveTimeIsBounded
<1> QED  BY <1>1, <1>2, <1>3, <1>4 DEF IInv

\* Steps that leave reservations and calls alone.
LEMMA QuietKeepsCounts ==
  ASSUME CallsWithinLimit, ActiveTimeIsBounded
  PROVE  /\ UNCHANGED call => CallsWithinLimit'
         /\ UNCHANGED time => ActiveTimeIsBounded'
  BY DEF CallsWithinLimit, CallsTaken, ActiveTimeIsBounded, Seconds, Overrun, Units

LEMMA ReadKeeps ==
  ASSUME IInv, NEW a \in Attempt, ReadRemaining(a)
  PROVE  IInv'
<1>1. TypeOK'
  BY SecondsAreFinite, LedgerAssumption DEF IInv, TypeOK, ReadRemaining, Phase
<1>2. ReservesAreOpen'
  BY DEF IInv, TypeOK, ReservesAreOpen, ReadRemaining
<1> QED  BY <1>1, <1>2, QuietKeepsCounts DEF IInv, ReadRemaining

LEMMA ReserveKeeps ==
  ASSUME IInv, NEW a \in Attempt, ReserveActiveTime(a)
  PROVE  IInv'
<1> USE DEF IInv
<1>1. Wanted(a) \in Nat
  <2>1. Cap[a] \in Nat /\ remaining[a] \in Int
    BY LedgerAssumption DEF TypeOK
  <2>2. Wanted(a) > 0
    BY DEF ReserveActiveTime, Fits
  <2> QED  BY <2>1, <2>2 DEF Wanted
<1>2. time' \in [Attempt -> TimeRow]
  BY <1>1 DEF TypeOK, ReserveActiveTime, WithReserve, TimeRow
<1>3. TypeOK'
  BY <1>2 DEF TypeOK, ReserveActiveTime, Phase
<1>4. ReservesAreOpen'
  BY DEF TypeOK, ReservesAreOpen, ReserveActiveTime, WithReserve
<1>5. ActiveTimeIsBounded'
  <2>1. IsFiniteSet(Seconds(time'))
    BY <1>2, SecondsAreFinite
  <2>2. (Seconds(time) \ Overrun)' \in SUBSET Seconds(time')
    OBVIOUS
  <2>3. Cardinality((Seconds(time) \ Overrun)') <= Cardinality(Seconds(time'))
        /\ Cardinality((Seconds(time) \ Overrun)') \in Nat
    BY <2>1, <2>2, FS_Subset, FS_CardinalityType
  <2>4. Cardinality(Seconds(time')) <= ActiveLimit
    BY DEF ReserveActiveTime, Fits, ActiveUsage
  <2>5. Cardinality(Seconds(time')) \in Nat
    BY <2>1, FS_CardinalityType
  <2> QED  BY <2>3, <2>4, <2>5, LedgerAssumption DEF ActiveTimeIsBounded
<1> QED  BY <1>3, <1>4, <1>5, QuietKeepsCounts DEF ReserveActiveTime

LEMMA RefuseKeeps ==
  ASSUME IInv, NEW a \in Attempt, RefuseActiveTime(a)
  PROVE  IInv'
<1>1. TypeOK'
  BY DEF IInv, TypeOK, RefuseActiveTime, Blocks, Phase
<1>2. ReservesAreOpen'
  BY DEF IInv, TypeOK, ReservesAreOpen, RefuseActiveTime
<1> QED  BY <1>1, <1>2, QuietKeepsCounts DEF IInv, RefuseActiveTime

\* Charging what was measured frees what was reserved and not used; what was
\* measured beyond it is overrun.
LEMMA FinishKeeps ==
  ASSUME IInv, NEW a \in Attempt, Finish(a)
  PROVE  IInv'
<1> USE DEF IInv
<1>1. CASE UNCHANGED time
  <2>1. TypeOK'
    BY <1>1 DEF TypeOK, Finish, Blocks, Phase
  <2>2. ReservesAreOpen'
    BY <1>1 DEF TypeOK, ReservesAreOpen, Finish
  <2> QED  BY <1>1, <2>1, <2>2, QuietKeepsCounts DEF Finish
<1>2. CASE \E s \in 0..MaxElapsed :
             time' = [time EXCEPT ![a].state = "charged", ![a].actual = s]
  <2>1. PICK s \in 0..MaxElapsed :
          time' = [time EXCEPT ![a].state = "charged", ![a].actual = s]
    BY <1>2
  <2>2. s \in Nat
    BY LedgerAssumption
  <2>3. /\ time[a] \in TimeRow /\ time[a].state = "reserved" /\ time[a].actual = 0
        /\ time[a].units \in Nat
    BY DEF TypeOK, ReservesAreOpen, Finish, TimeRow
  <2>4. time'[a] = [state |-> "charged", units |-> time[a].units, actual |-> s]
    BY <2>1, <2>3 DEF TypeOK, TimeRow
  <2>5. \A b \in Attempt \ {a} : time'[b] = time[b]
    BY <2>1 DEF TypeOK
  <2>6. time' \in [Attempt -> TimeRow]
    <3>1. time'[a] \in TimeRow
      BY <2>2, <2>3, <2>4 DEF TimeRow
    <3>2. time' = [b \in Attempt |-> IF b = a THEN time'[a] ELSE time[b]]
      BY <2>1 DEF TypeOK
    <3> QED  BY <3>1, <3>2 DEF TypeOK
  <2>7. TypeOK'
    BY <2>6 DEF TypeOK, Finish, Blocks, Phase
  <2>8. ReservesAreOpen'
    BY <2>5 DEF TypeOK, ReservesAreOpen, Finish
  <2>9. ActiveTimeIsBounded'
    <3>1. ASSUME NEW x \in (Seconds(time) \ Overrun)'
          PROVE  x \in Seconds(time) \ Overrun
      <4>1. PICK b \in Attempt : \E i \in 1..Units(time', b) : x = <<b, i>>
        BY <2>6, CountedSeconds
      <4>2. PICK i \in 1..Units(time', b) : x = <<b, i>>
        BY <4>1
      <4>3. i \in Nat /\ i >= 1 /\ i <= Units(time', b)
        BY <4>2, <2>6, UnitsType
      <4>4. CASE b = a
        <5>1. Units(time', a) = s
          BY <2>4 DEF Units
        <5>2. x \notin {a} \X ((time[a].units + 1)..s)
          BY <3>1, <2>4 DEF Overrun
        <5>3. i <= time[a].units
          BY <4>2, <4>3, <4>4, <5>1, <5>2, <2>2, <2>3
        <5>4. Units(time, a) = time[a].units
          BY <2>3 DEF Units
        <5>5. x \in Seconds(time)
          BY <4>2, <4>3, <4>4, <5>3, <5>4, CountedSeconds, <2>3 DEF TypeOK
        <5>6. x \notin Overrun
          <6>1. SUFFICES ASSUME NEW c \in Attempt,
                                x \in {c} \X ((time[c].units + 1)..time[c].actual)
                         PROVE FALSE
            BY DEF Overrun
          <6>2. c = a /\ i \in (time[a].units + 1)..0
            BY <6>1, <4>2, <4>4, <2>3
          <6> QED  BY <6>2, <2>3
        <5> QED  BY <5>5, <5>6
      <4>5. CASE b # a
        <5>1. time'[b] = time[b] /\ Units(time', b) = Units(time, b)
          BY <2>5, <4>5 DEF Units
        <5>2. x \in Seconds(time)
          BY <4>2, <5>1, CountedSeconds DEF TypeOK
        <5>3. x \notin Overrun
          <6>1. SUFFICES ASSUME NEW c \in Attempt,
                                x \in {c} \X ((time[c].units + 1)..time[c].actual)
                         PROVE FALSE
            BY DEF Overrun
          <6>2. c = b
            BY <6>1, <4>2
          <6>3. x \in Overrun'
            BY <6>1, <6>2, <5>1 DEF Overrun
          <6> QED  BY <6>3, <3>1
        <5> QED  BY <5>2, <5>3
      <4> QED  BY <4>4, <4>5
    <3>2. (Seconds(time) \ Overrun)' \in SUBSET (Seconds(time) \ Overrun)
      BY <3>1
    <3>3. IsFiniteSet(Seconds(time) \ Overrun)
      BY SecondsAreFinite, FS_Difference DEF TypeOK
    <3>4. /\ Cardinality((Seconds(time) \ Overrun)') <= Cardinality(Seconds(time) \ Overrun)
          /\ Cardinality((Seconds(time) \ Overrun)') \in Nat
          /\ Cardinality(Seconds(time) \ Overrun) \in Nat
      BY <3>2, <3>3, FS_Subset, FS_CardinalityType
    <3> QED  BY <3>4, LedgerAssumption DEF ActiveTimeIsBounded
  <2> QED  BY <2>7, <2>8, <2>9, QuietKeepsCounts DEF Finish
<1> QED  BY <1>1, <1>2 DEF Finish

LEMMA CrashKeeps ==
  ASSUME IInv, NEW a \in Attempt, Crash(a)
  PROVE  IInv'
<1>1. TypeOK'
  BY DEF IInv, TypeOK, Crash, Phase
<1>2. ReservesAreOpen'
  BY DEF IInv, TypeOK, ReservesAreOpen, Crash
<1> QED  BY <1>1, <1>2, QuietKeepsCounts DEF IInv, Crash

LEMMA LoseKeeps ==
  ASSUME IInv, NEW a \in Attempt, LoseAttempt(a)
  PROVE  IInv'
<1>1. TypeOK'
  BY DEF IInv, TypeOK, LoseAttempt
<1>2. ReservesAreOpen'
  BY DEF IInv, ReservesAreOpen, LoseAttempt
<1> QED  BY <1>1, <1>2, QuietKeepsCounts DEF IInv, LoseAttempt

LEMMA PrepareKeeps ==
  ASSUME IInv, NEW c \in Call, PrepareCall(c)
  PROVE  IInv'
<1> USE DEF IInv
<1>0. c[1] \in Attempt
  BY DEF Call
<1>1. TypeOK'
  BY <1>0 DEF TypeOK, PrepareCall, Stop, CallState
<1>2. ReservesAreOpen'
  BY DEF ReservesAreOpen, PrepareCall
<1>3. CallsWithinLimit'
  <2>1. CASE UNCHANGED call
    BY <2>1, QuietKeepsCounts
  <2>2. CASE /\ Cardinality(CallsTaken) + 1 <= CallLimit
             /\ call' = [call EXCEPT ![c] = "reserved"]
    <3>1. CallsTaken' = CallsTaken \cup {c}
      BY <2>2 DEF TypeOK, CallsTaken
    <3>2. /\ Cardinality(CallsTaken \cup {c}) =
               IF c \in CallsTaken THEN Cardinality(CallsTaken)
                                   ELSE Cardinality(CallsTaken) + 1
          /\ Cardinality(CallsTaken) \in Nat
      BY CallsAreFinite, FS_AddElement, FS_CardinalityType
    <3> QED  BY <2>2, <3>1, <3>2, LedgerAssumption DEF CallsWithinLimit
  <2> QED  BY <2>1, <2>2 DEF PrepareCall
<1> QED  BY <1>1, <1>2, <1>3, QuietKeepsCounts DEF PrepareCall

\* A call that was reserved before stays counted.
LEMMA SettledCallsCount ==
  ASSUME TypeOK, CallsWithinLimit, NEW c \in Call, NEW s \in CallState \ {"none"},
         call[c] # "none", call' = [call EXCEPT ![c] = s]
  PROVE  CallsWithinLimit'
<1>1. CallsTaken' = CallsTaken
  BY DEF TypeOK, CallsTaken
<1> QED  BY <1>1 DEF CallsWithinLimit

LEMMA DispatchKeeps ==
  ASSUME IInv, NEW c \in Call, DispatchCall(c)
  PROVE  IInv'
<1> USE DEF IInv
<1>0. c[1] \in Attempt
  BY DEF Call
<1>1. TypeOK'
  BY <1>0 DEF TypeOK, DispatchCall, Stop, CallState
<1>2. ReservesAreOpen'
  BY DEF ReservesAreOpen, DispatchCall
<1>3. CallsWithinLimit'
  <2>1. PICK s \in {"dispatched", "consumed"} : call' = [call EXCEPT ![c] = s]
    BY DEF DispatchCall
  <2> QED  BY <2>1, SettledCallsCount DEF DispatchCall, CallState
<1> QED  BY <1>1, <1>2, <1>3, QuietKeepsCounts DEF DispatchCall

LEMMA ChargeKeeps ==
  ASSUME IInv, NEW c \in Call, ChargeCall(c)
  PROVE  IInv'
<1> USE DEF IInv
<1>0. c[1] \in Attempt
  BY DEF Call
<1>1. TypeOK'
  BY <1>0 DEF TypeOK, ChargeCall, Stop, CallState
<1>2. ReservesAreOpen'
  BY DEF ReservesAreOpen, ChargeCall
<1>3. CallsWithinLimit'
  <2>1. PICK s \in {"charged", "unsettled"} : call' = [call EXCEPT ![c] = s]
    BY DEF ChargeCall
  <2> QED  BY <2>1, SettledCallsCount DEF ChargeCall, CallState
<1> QED  BY <1>1, <1>2, <1>3, QuietKeepsCounts DEF ChargeCall

LEMMA StepInv == IInv /\ [Next]_vars => IInv'
<1> SUFFICES ASSUME IInv, [Next]_vars PROVE IInv'
  OBVIOUS
<1>1. CASE UNCHANGED vars
  <2>1. TypeOK' /\ ReservesAreOpen'
    BY <1>1 DEF IInv, TypeOK, ReservesAreOpen, vars
  <2> QED  BY <1>1, <2>1, QuietKeepsCounts DEF IInv, vars
<1>2. ASSUME NEW a \in Attempt,
             \/ ReadRemaining(a) \/ ReserveActiveTime(a) \/ RefuseActiveTime(a)
             \/ Finish(a) \/ Crash(a) \/ LoseAttempt(a)
      PROVE  IInv'
  BY <1>2, ReadKeeps, ReserveKeeps, RefuseKeeps, FinishKeeps, CrashKeeps, LoseKeeps
<1>3. ASSUME NEW c \in Call, PrepareCall(c) \/ DispatchCall(c) \/ ChargeCall(c)
      PROVE  IInv'
  BY <1>3, PrepareKeeps, DispatchKeeps, ChargeKeeps
<1> QED  BY <1>1, <1>2, <1>3 DEF Next

\* The inductive invariant holds of every reachable state.
THEOREM Invariance == Spec => []IInv
  BY InitInv, StepInv, PTL DEF Spec

-----------------------------------------------------------------------------
(* The theorems.                                                           *)

\* Ledger, executions and calls are well typed in every reachable state.
THEOREM TypeCorrect == Spec => []TypeOK
<1>1. IInv => TypeOK
  BY DEF IInv
<1> QED  BY <1>1, Invariance, PTL

\* No more calls leave than the family was allowed, for any number of
\* executions and whatever crashes between reservation and charge.
THEOREM DispatchesAreBounded == Spec => []DispatchesWithinLimit
<1>1. IInv => DispatchesWithinLimit
  <2> SUFFICES ASSUME IInv PROVE DispatchesWithinLimit
    OBVIOUS
  <2>1. Dispatched \in SUBSET CallsTaken
    BY DEF Dispatched, CallsTaken
  <2>2. /\ Cardinality(Dispatched) <= Cardinality(CallsTaken)
        /\ Cardinality(Dispatched) \in Nat /\ Cardinality(CallsTaken) \in Nat
    BY <2>1, CallsAreFinite, FS_Subset, FS_CardinalityType
  <2> QED  BY <2>2, LedgerAssumption DEF IInv, CallsWithinLimit, DispatchesWithinLimit
<1> QED  BY <1>1, Invariance, PTL

\* The family's active time passes its limit by overruns alone.
THEOREM ActiveTimeStaysBounded == Spec => []ActiveTimeIsBounded
<1>1. IInv => ActiveTimeIsBounded
  BY DEF IInv
<1> QED  BY <1>1, Invariance, PTL
=============================================================================
