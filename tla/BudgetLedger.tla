---------------------------- MODULE BudgetLedger ----------------------------
(***************************************************************************)
(* The work-budget ledger a family of orders shares, and the executions    *)
(* that spend from it.  An execution reserves the active time of its step  *)
(* before it starts and settles it when it ends; each provider or tool     *)
(* call it makes is reserved, then dispatched, then charged.  Every        *)
(* reservation and every settlement is a transaction of its own under the  *)
(* ledger's row lock; what lies between two of them may be lost.           *)
(***************************************************************************)
EXTENDS Integers, FiniteSets

CONSTANTS
  Attempt,      \* executions of the family's steps, one attempt each
  OrderOf,      \* OrderOf[a]: the order whose step attempt a executes
  CallNo,       \* physical calls an execution may make
  CallLimit,    \* the ledger's max_tool_attempts (or max_llm_calls)
  ActiveLimit,  \* the ledger's max_active_seconds
  Cap,          \* Cap[a]: the step's timeout, capped by the task's hard limit
  MaxElapsed    \* model bound: the longest time an execution may measure

ASSUME LedgerAssumption ==
  /\ IsFiniteSet(Attempt) /\ IsFiniteSet(CallNo)
  /\ CallLimit \in Nat /\ ActiveLimit \in Nat /\ MaxElapsed \in Nat
  /\ Cap \in [Attempt -> Nat \ {0}]

Call == Attempt \X CallNo

VARIABLES
  alive,      \* the order is running and the attempt owns its lease
  phase,      \* the execution of the attempt
  remaining,  \* the active time left, as execution a read it
  time,       \* the attempt's active-time reservation: state, units, actual
  call,       \* the reservation, and fate, of each call
  stopped     \* WorkBudgetContext's sticky stop

vars == <<alive, phase, remaining, time, call, stopped>>

Phase == {"claimed", "read", "running", "refused", "done", "dead"}
CallState == {"none", "reserved", "consumed", "dispatched", "charged", "unsettled"}
TimeRow == [state : {"none", "reserved", "charged"}, units : Nat, actual : Nat]
NoTime == [state |-> "none", units |-> 0, actual |-> 0]

TypeOK ==
  /\ alive \in [Attempt -> BOOLEAN]
  /\ phase \in [Attempt -> Phase]
  /\ remaining \in [Attempt -> Int]
  /\ time \in [Attempt -> TimeRow]
  /\ call \in [Call -> CallState]
  /\ stopped \in [Attempt -> BOOLEAN]

Init ==
  /\ alive = [a \in Attempt |-> TRUE]
  /\ phase = [a \in Attempt |-> "claimed"]
  /\ remaining = [a \in Attempt |-> 0]
  /\ time = [a \in Attempt |-> NoTime]
  /\ call = [c \in Call |-> "none"]
  /\ stopped = [a \in Attempt |-> FALSE]

-----------------------------------------------------------------------------
(* _usage: what a dimension has taken, the reserve of what is open and the  *)
(* actual of what is settled.  Seconds are counted one by one.             *)

\* Variant: what is settled no longer counts.
UnitsReservedOnly(t, a) == IF t[a].state = "reserved" THEN t[a].units ELSE 0
Units(t, a) == IF t[a].state = "charged" THEN t[a].actual ELSE t[a].units
Seconds(t) == UNION {{a} \X (1..Units(t, a)) : a \in Attempt}
ActiveUsage(t) == Cardinality(Seconds(t))

\* Variant: only what has not been charged yet counts.
CallsTakenOpen == {c \in Call : call[c] \in {"reserved", "dispatched"}}
CallsTaken == {c \in Call : call[c] # "none"}

-----------------------------------------------------------------------------
(* Active time.                                                            *)

\* _reserve_active_time, first transaction: the remaining time is read
\* without the ledger's lock.
ReadRemaining(a) ==
  /\ phase[a] = "claimed"
  /\ remaining' = [remaining EXCEPT ![a] = ActiveLimit - ActiveUsage(time)]
  /\ phase' = [phase EXCEPT ![a] = "read"]
  /\ UNCHANGED <<alive, time, call, stopped>>

Wanted(a) == IF Cap[a] < remaining[a] THEN Cap[a] ELSE remaining[a]

\* Second transaction: min(cap, what was read) is reserved under the lock.
\* Variant: under the lock nothing is compared again.
FitsAsRead(a) == Wanted(a) > 0
WithReserve(a) ==
  [time EXCEPT ![a] = [state |-> "reserved", units |-> Wanted(a), actual |-> 0]]
Fits(a) == Wanted(a) > 0 /\ ActiveUsage(WithReserve(a)) <= ActiveLimit
ReserveActiveTime(a) ==
  /\ phase[a] = "read" /\ Fits(a)
  /\ time' = WithReserve(a)
  /\ phase' = [phase EXCEPT ![a] = "running"]
  /\ UNCHANGED <<alive, remaining, call, stopped>>

\* Otherwise the step fails and its order is blocked, which takes every other
\* execution of that order with it.
Siblings(a) == {b \in Attempt : OrderOf[b] = OrderOf[a]}
Blocks(a) == [b \in Attempt |-> alive[b] /\ ~(alive[a] /\ b \in Siblings(a))]
RefuseActiveTime(a) ==
  /\ phase[a] = "read" /\ ~Fits(a)
  /\ phase' = [phase EXCEPT ![a] = "refused"]
  /\ alive' = Blocks(a)
  /\ UNCHANGED <<remaining, time, call, stopped>>

\* The execution ends, with what it measured or without a settlement; one
\* that was stopped by its budget blocks its order.
Finish(a) ==
  /\ phase[a] = "running"
  /\ \A n \in CallNo : call[<<a, n>>] \notin {"reserved", "dispatched"}
  /\ \/ \E s \in 0..MaxElapsed :
          time' = [time EXCEPT ![a].state = "charged", ![a].actual = s]
     \/ UNCHANGED time
  /\ phase' = [phase EXCEPT ![a] = "done"]
  /\ alive' = IF stopped[a] THEN Blocks(a) ELSE alive
  /\ UNCHANGED <<remaining, call, stopped>>

\* A worker is killed: what it reserved stays reserved.
Crash(a) ==
  /\ phase[a] \in {"claimed", "read", "running"}
  /\ phase' = [phase EXCEPT ![a] = "dead"]
  /\ UNCHANGED <<alive, remaining, time, call, stopped>>

\* The order is canceled, paused or replanned, or the lease runs out.
LoseAttempt(a) ==
  /\ alive[a]
  /\ alive' = [alive EXCEPT ![a] = FALSE]
  /\ UNCHANGED <<phase, remaining, time, call, stopped>>

-----------------------------------------------------------------------------
(* Calls.                                                                  *)

Stop(a) == stopped' = [stopped EXCEPT ![a] = TRUE]

\* prepare_provider_call, prepare_tool_attempt: one unit under the ledger's
\* lock, or the context stops for good.
PrepareCall(c) ==
  LET a == c[1] IN
  /\ phase[a] = "running" /\ ~stopped[a] /\ call[c] = "none"
  /\ \/ /\ alive[a] /\ Cardinality(CallsTaken) + 1 <= CallLimit
        /\ call' = [call EXCEPT ![c] = "reserved"]
        /\ UNCHANGED stopped
     \/ /\ ~alive[a] \/ Cardinality(CallsTaken) + 1 > CallLimit
        /\ Stop(a)
        /\ UNCHANGED call
  /\ UNCHANGED <<alive, phase, remaining, time>>

\* The recheck after the reservation, then the transport.  A cancellation that
\* came between leaves the reservation consumed.
DispatchCall(c) ==
  LET a == c[1] IN
  /\ phase[a] = "running" /\ call[c] = "reserved"
  /\ \/ /\ alive[a]
        /\ call' = [call EXCEPT ![c] = "dispatched"]
        /\ UNCHANGED stopped
     \/ /\ ~alive[a]
        /\ call' = [call EXCEPT ![c] = "consumed"]
        /\ Stop(a)
  /\ UNCHANGED <<alive, phase, remaining, time>>

\* charge_provider_call, charge_tool_attempt: whether the call returned or
\* raised.  A charge that cannot be committed stops the context.
ChargeCall(c) ==
  LET a == c[1] IN
  /\ phase[a] = "running" /\ call[c] = "dispatched"
  /\ \/ call' = [call EXCEPT ![c] = "charged"] /\ UNCHANGED stopped
     \/ call' = [call EXCEPT ![c] = "unsettled"] /\ Stop(a)
  /\ UNCHANGED <<alive, phase, remaining, time>>

Next ==
  \/ \E a \in Attempt :
       \/ ReadRemaining(a) \/ ReserveActiveTime(a) \/ RefuseActiveTime(a)
       \/ Finish(a) \/ Crash(a) \/ LoseAttempt(a)
  \/ \E c \in Call : PrepareCall(c) \/ DispatchCall(c) \/ ChargeCall(c)

Spec == Init /\ [][Next]_vars
=============================================================================
