----------------------------- MODULE WorkFamily -----------------------------
(***************************************************************************)
(* Parents and children.  A plan may hold a decompose step that spawns     *)
(* child orders; the parent then waits until the 5 s dispatch tick finds   *)
(* every child at rest and judges the parent by them.                      *)
(*                                                                         *)
(* An order's own life is WorkOrder's subject: here a leaf plan runs and   *)
(* ends in one action, and the statuses received/planning and              *)
(* ready/running are one each.  What is kept is everything that relates    *)
(* one order to another: the decompose worker, which commits the children  *)
(* in a transaction of its own, the tick, which reads waiting parents      *)
(* without a lock and writes them back, the cascade of a cancellation,     *)
(* and the shared allowance of replans.                                    *)
(***************************************************************************)
EXTENDS Naturals, FiniteSets

CONSTANTS
  Order,            \* every order of the family, born or not
  Root,             \* the order its owner created
  Spec,             \* digests of a decompose step's children list
  Brood,            \* Brood[<<o, v>>]: the children order o's list v names;
                    \* empty when every objective in it is blank
  Plans,            \* Plans[o]: the plans the planner may make for order o
  Tailed,           \* lists whose plan has a step after the decompose step
  Semantic,         \* orders with a criterion left to the semantic verifier
  MaxAttempts,      \* step.max_attempts
  MaxReplans,       \* budgets.max_replans
  LedgerReplans,    \* replans the family's shared ledger grants
  InstructionBound  \* model bound: owner instructions of each order

Leaf == "leaf"    \* a plan without a decompose step

ASSUME FamilyAssumption ==
  /\ Leaf \notin Spec
  /\ Root \in Order /\ IsFiniteSet(Order)
  /\ Brood \in [Order \X Spec -> SUBSET (Order \ {Root})]
  /\ \A x, y \in Order \X Spec : Brood[x] \cap Brood[y] # {} => x = y
  /\ Plans \in [Order -> SUBSET (Spec \cup {Leaf})]
  /\ Tailed \subseteq Spec /\ Semantic \subseteq Order
ASSUME LimitAssumption ==
  /\ MaxAttempts \in Nat \ {0} /\ MaxReplans \in Nat
  /\ LedgerReplans \in Nat /\ InstructionBound \in [Order -> Nat]

VARIABLES
  status, rev, instructions,  \* work_orders rows
  awaiting,      \* blocked orders whose result waits for a verdict
  plan,          \* the active plan: Leaf or the list its decompose step has
  splits,        \* revisions of the order that had a decompose step
  stage, tries,  \* the active plan's decompose step and its attempts
  worker,        \* the process that holds that step's lease
  late,          \* processes that lost it before they spawned anything
  broods,        \* how often the children of a list were created
  charged,       \* replans charged to the shared ledger: <<order, revision>>
  seen           \* the waiting orders the tick has read: <<order, revision>>

orderVars  == <<status, rev, instructions, awaiting>>
stepVars   == <<plan, splits, stage, tries>>
workerVars == <<worker, late>>
vars == <<orderVars, stepVars, workerVars, broods, charged, seen>>

OrderStatus == {"absent", "planning", "replanning", "running",
                "waiting_external", "blocked", "completed", "canceled"}
TERMINAL_WORK_STATUSES == {"completed", "blocked", "canceled"}
\* "tailed": the step after the decompose step has succeeded too.
Stage == {"none", "ready", "running", "succeeded", "tailed", "failed"}
Worker == {"none", "claimed", "spawned"}

TypeOK ==
  /\ status \in [Order -> OrderStatus]
  /\ rev \in [Order -> Nat]
  /\ instructions \in [Order -> Nat]
  /\ awaiting \subseteq Order
  /\ plan \in [Order -> Spec \cup {Leaf}]
  /\ splits \in [Order -> SUBSET Nat]
  /\ stage \in [Order -> Stage] /\ tries \in [Order -> 0..MaxAttempts]
  /\ worker \in [Order -> Worker] /\ late \subseteq Order \X Spec
  /\ broods \in [Order \X Spec -> Nat]
  /\ charged \subseteq Order \X Nat /\ seen \subseteq Order \X Nat

Init ==
  /\ status = [o \in Order |-> IF o = Root THEN "planning" ELSE "absent"]
  /\ rev = [o \in Order |-> 0] /\ instructions = [o \in Order |-> 0]
  /\ awaiting = {}
  /\ plan = [o \in Order |-> Leaf] /\ splits = [o \in Order |-> {}]
  /\ stage = [o \in Order |-> "none"] /\ tries = [o \in Order |-> 0]
  /\ worker = [o \in Order |-> "none"] /\ late = {}
  /\ broods = [x \in Order \X Spec |-> 0]
  /\ charged = {} /\ seen = {}

-----------------------------------------------------------------------------
(* What the handlers share.                                                *)

Children(o) == {c \in UNION {Brood[<<o, v>>] : v \in Spec} : status[c] # "absent"}

\* charge_replan_in_transaction: one charge per order and revision, from a
\* ledger the whole family shares.
CanChargeAlone(o, r) == Cardinality({x \in charged : x[1] = o}) < LedgerReplans
CanCharge(o, r) == <<o, r>> \in charged \/ Cardinality(charged) < LedgerReplans

\* _replan_or_block; r is the plan revision the caller has in memory.
ReplanOrBlock(o, r) ==
  \/ /\ r <= MaxReplans /\ CanCharge(o, r)
     /\ status' = [status EXCEPT ![o] = "replanning"]
     /\ charged' = charged \cup {<<o, r>>}
  \/ /\ ~(r <= MaxReplans /\ CanCharge(o, r))
     /\ status' = [status EXCEPT ![o] = "blocked"]
     /\ UNCHANGED charged

\* The guarded call, which skips a move the table does not allow.
MayReplanOrBlock(o, r) ==
  \/ status[o] \in {"running", "waiting_external"}
  \/ status[o] \in {"planning", "replanning"} /\ r > MaxReplans
  \/ status[o] = "blocked" /\ r <= MaxReplans /\ CanCharge(o, r)
ReplanOrBlockGuarded(o, r) ==
  IF MayReplanOrBlock(o, r) THEN ReplanOrBlock(o, r)
                            ELSE UNCHANGED <<status, charged>>

\* verify_nonempty_result: a semantic criterion blocks the order until a
\* verdict; otherwise the result itself decides.
VerifyNonemptyResult(o, r, ok) ==
  \/ /\ o \in Semantic
     /\ status' = [status EXCEPT ![o] = "blocked"]
     /\ awaiting' = awaiting \cup {o}
     /\ UNCHANGED charged
  \/ /\ o \notin Semantic /\ ok
     /\ status' = [status EXCEPT ![o] = "completed"]
     /\ UNCHANGED <<awaiting, charged>>
  \/ /\ o \notin Semantic /\ ~ok
     /\ ReplanOrBlock(o, r)
     /\ UNCHANGED awaiting

-----------------------------------------------------------------------------
(* Planning and the work of a plan.                                        *)

\* create_work_plan; the planner waits for an executing step to settle.
CreateWorkPlan(o, p) ==
  /\ status[o] \in {"planning", "replanning"} /\ stage[o] # "running"
  /\ p \in Plans[o]
  /\ rev' = [rev EXCEPT ![o] = @ + 1]
  /\ status' = [status EXCEPT ![o] = "running"]
  /\ plan' = [plan EXCEPT ![o] = p]
  /\ stage' = [stage EXCEPT ![o] = IF p = Leaf THEN "none" ELSE "ready"]
  /\ splits' = [splits EXCEPT ![o] = IF p = Leaf THEN @ ELSE @ \cup {rev'[o]}]
  /\ tries' = [tries EXCEPT ![o] = 0]
  /\ UNCHANGED <<instructions, awaiting, workerVars, broods, charged, seen>>

\* A plan without a decompose step ends: its result is verified, or a step
\* fails for good (fail_attempt).
LeafSucceeds(o) ==
  /\ status[o] = "running" /\ plan[o] = Leaf
  /\ VerifyNonemptyResult(o, rev[o], TRUE)
  /\ UNCHANGED <<rev, instructions, stepVars, workerVars, broods, seen>>
LeafFails(o) ==
  /\ status[o] = "running" /\ plan[o] = Leaf
  /\ ReplanOrBlock(o, rev[o])
  /\ UNCHANGED <<rev, instructions, awaiting, stepVars, workerVars, broods, seen>>

\* claim_ready_step and the two transactions before the executor runs: the
\* last time the order's status is looked at.
ClaimSplit(o) ==
  /\ status[o] = "running" /\ stage[o] = "ready"
  /\ stage' = [stage EXCEPT ![o] = "running"]
  /\ tries' = [tries EXCEPT ![o] = @ + 1]
  /\ worker' = [worker EXCEPT ![o] = "claimed"]
  /\ UNCHANGED <<orderVars, plan, splits, late, broods, charged, seen>>

\* _execute_decompose's transaction: it locks the parent's row and looks
\* neither at its status nor at the lease.  Children of the same list that
\* exist are returned, whoever created them.
\* Variant: a retry that does not look for them.
SpawnChildrenAgain(o, v) ==
  /\ broods' = [broods EXCEPT ![<<o, v>>] = @ + 1]
  /\ status' = [c \in Order |->
       IF c \in Brood[<<o, v>>] /\ status[c] = "absent" THEN "planning" ELSE status[c]]
SpawnChildren(o, v) ==
  \/ /\ \E c \in Brood[<<o, v>>] : status[c] # "absent"
     /\ UNCHANGED <<status, broods>>
  \/ /\ \A c \in Brood[<<o, v>>] : status[c] = "absent"
     /\ broods' = [broods EXCEPT ![<<o, v>>] = @ + (IF Brood[<<o, v>>] = {} THEN 0 ELSE 1)]
     /\ status' = [c \in Order |-> IF c \in Brood[<<o, v>>] THEN "planning" ELSE status[c]]

ExecuteDecompose(o) ==
  /\ worker[o] = "claimed"
  /\ SpawnChildren(o, plan[o])
  /\ worker' = [worker EXCEPT ![o] = "spawned"]
  /\ UNCHANGED <<rev, instructions, awaiting, stepVars, late, charged, seen>>

\* The same by a process that was overtaken: its settlement will be refused,
\* its children are committed already.
ExecuteDecomposeLate(o, v) ==
  /\ <<o, v>> \in late
  /\ SpawnChildren(o, v)
  /\ late' = late \ {<<o, v>>}
  /\ UNCHANGED <<rev, instructions, awaiting, stepVars, worker, charged, seen>>

\* complete_attempt, for the process that still holds the lease.
SettleSplit(o) ==
  /\ worker[o] = "spawned"
  /\ stage' = [stage EXCEPT ![o] = "succeeded"]
  /\ worker' = [worker EXCEPT ![o] = "none"]
  /\ UNCHANGED <<orderVars, plan, splits, tries, late, broods, charged, seen>>

CrashSplit(o) ==
  /\ worker[o] # "none"
  /\ worker' = [worker EXCEPT ![o] = "none"]
  /\ UNCHANGED <<orderVars, stepVars, late, broods, charged, seen>>

\* reclaim_expired_leases: of a process that died, or that stalled and goes
\* on without its lease.  A decompose step has no capability call to settle,
\* so it is retried while attempts are left, and the order made ready for it
\* whatever else it was doing.
RetriesLeft(o) == tries[o] < MaxAttempts
ReclaimSplit(o) ==
  /\ stage[o] = "running"
  /\ worker' = [worker EXCEPT ![o] = "none"]
  /\ late' = IF worker[o] = "claimed" THEN late \cup {<<o, plan[o]>>} ELSE late
  /\ \/ /\ RetriesLeft(o)
        /\ stage' = [stage EXCEPT ![o] = "ready"]
        /\ status' = [status EXCEPT ![o] =
             IF @ \in {"completed", "canceled"} THEN @ ELSE "running"]
        /\ UNCHANGED charged
     \/ /\ ~RetriesLeft(o)
        /\ stage' = [stage EXCEPT ![o] = "failed"]
        /\ ReplanOrBlockGuarded(o, rev[o])
  /\ UNCHANGED <<rev, instructions, awaiting, plan, splits, tries, broods, seen>>

\* The step after the decompose step, released at once
\* (promote_ready_dependents): it does not wait for the children.
TailSucceeds(o) ==
  /\ status[o] = "running" /\ stage[o] = "succeeded" /\ plan[o] \in Tailed
  /\ stage' = [stage EXCEPT ![o] = "tailed"]
  /\ UNCHANGED <<orderVars, plan, splits, tries, workerVars, broods, charged, seen>>
TailFails(o) ==
  /\ status[o] = "running" /\ stage[o] = "succeeded" /\ plan[o] \in Tailed
  /\ ReplanOrBlock(o, rev[o])
  /\ UNCHANGED <<rev, instructions, awaiting, stepVars, workerVars, broods, seen>>

\* verify_completed_step.  Called for the decompose step it sends the parent
\* to wait; called for the step after it, or when no child was spawned, it
\* verifies the parent's result.
SplitDone(o) ==
  /\ status[o] = "running" /\ plan[o] \in Spec
  /\ stage[o] = IF plan[o] \in Tailed THEN "tailed" ELSE "succeeded"
\* Variant: a step that spawned nothing waits all the same.
SpawnedSomethingAlways(o) == TRUE
SpawnedSomething(o) == Brood[<<o, plan[o]>>] # {}
EnterWaitingForChildren(o) ==
  /\ SplitDone(o) /\ SpawnedSomething(o)
  /\ status' = [status EXCEPT ![o] = "waiting_external"]
  /\ UNCHANGED <<rev, instructions, awaiting, stepVars, workerVars, broods,
                 charged, seen>>
VerifySplit(o) ==
  /\ SplitDone(o) /\ (plan[o] \in Tailed \/ ~SpawnedSomething(o))
  /\ VerifyNonemptyResult(o, rev[o], TRUE)
  /\ UNCHANGED <<rev, instructions, stepVars, workerVars, broods, seen>>

-----------------------------------------------------------------------------
(* The dispatch tick: promote_waiting_parents.  One tick at a time.        *)

\* The candidates are read without a lock; from here on the tick holds the
\* order as it was.
PromoteRead ==
  /\ seen = {}
  /\ seen' = {<<o, rev[o]>> : o \in {p \in Order : status[p] = "waiting_external"}}
  /\ UNCHANGED <<orderVars, stepVars, workerVars, broods, charged>>

\* Variant: a child that came to rest without a result keeps the parent waiting.
ChildrenAtRestCompleted(o) ==
  /\ Children(o) # {}
  /\ \A c \in Children(o) : status[c] = "completed"
ChildrenAtRest(o) ==
  /\ Children(o) # {}
  /\ \A c \in Children(o) : status[c] \in TERMINAL_WORK_STATUSES

\* The decompose step is looked up by order, in whatever revision, and there
\* must be one at most (scalar_one_or_none): a second one raises, and the
\* tick's transaction rolls back with all it did.
PromoteRaises ==
  \E x \in seen : ChildrenAtRest(x[1]) /\ Cardinality(splits[x[1]]) > 1
PromoteAborts ==
  /\ PromoteRaises
  /\ seen' = {}
  /\ UNCHANGED <<orderVars, stepVars, workerVars, broods, charged>>

\* "All children failed" is no result for the parent.
\* Variant: any child that came to rest counts.
ChildrenSucceededAny(o) == Children(o) # {}
ChildrenSucceeded(o) == \E c \in Children(o) : status[c] = "completed"

\* One candidate: its children are read now, and the parent is judged by them.
\* The write does not look at what became of the parent since it was read.
PromoteParent(x) ==
  LET o == x[1] IN
  /\ x \in seen /\ ~PromoteRaises
  /\ seen' = seen \ {x}
  /\ \/ /\ ~ChildrenAtRest(o)
        /\ UNCHANGED <<status, awaiting, charged>>
     \/ /\ ChildrenAtRest(o)
        /\ VerifyNonemptyResult(o, x[2], ChildrenSucceeded(o))
  /\ UNCHANGED <<rev, instructions, stepVars, workerVars, broods>>

-----------------------------------------------------------------------------
(* People and the detached verifier.                                       *)

\* record_verifier_verdict, for the result that waits for it.
RecordVerdict(o, ok) ==
  /\ status[o] = "blocked" /\ o \in awaiting
  /\ awaiting' = awaiting \ {o}
  /\ \/ /\ ok /\ status' = [status EXCEPT ![o] = "completed"] /\ UNCHANGED charged
     \/ ~ok /\ ReplanOrBlock(o, rev[o])
  /\ UNCHANGED <<rev, instructions, stepVars, workerVars, broods, seen>>

\* add_instruction.
AddInstruction(o) ==
  /\ instructions[o] < InstructionBound[o]
  /\ status[o] \in {"blocked", "running", "waiting_external"}
  /\ instructions' = [instructions EXCEPT ![o] = @ + 1]
  /\ status' = [status EXCEPT ![o] = IF @ = "blocked" THEN "planning" ELSE "replanning"]
  /\ awaiting' = awaiting \ {o}
  /\ UNCHANGED <<rev, stepVars, workerVars, broods, charged, seen>>

\* cancel_work_order: the order and, below it, every child that has not
\* ended, children of children included; it goes no further below a child
\* that has ended.  A running step is left to its process.
CanBeCanceled(c) == status[c] \notin {"absent", "completed", "canceled"}
\* Variant: only the order itself.
CanceledAlone(o) == {o}
CanceledWith(o) ==
  {c \in Order : \A S \in SUBSET Order :
     /\ o \in S
     /\ \A p \in S : {d \in Children(p) : CanBeCanceled(d)} \subseteq S
     => c \in S}
CancelWorkOrder(o) ==
  LET gone == CanceledWith(o) IN
  /\ CanBeCanceled(o)
  /\ status' = [c \in Order |-> IF c \in gone THEN "canceled" ELSE status[c]]
  /\ stage' = [c \in Order |-> IF c \in gone /\ stage[c] = "ready"
                               THEN "none" ELSE stage[c]]
  /\ awaiting' = awaiting \ gone
  /\ UNCHANGED <<rev, instructions, plan, splits, tries, workerVars, broods,
                 charged, seen>>

-----------------------------------------------------------------------------
Runs(o) ==
  \/ (\E p \in Plans[o] : CreateWorkPlan(o, p))
  \/ LeafSucceeds(o) \/ LeafFails(o)
  \/ ClaimSplit(o) \/ ExecuteDecompose(o) \/ SettleSplit(o) \/ CrashSplit(o)
  \/ ReclaimSplit(o) \/ TailSucceeds(o) \/ TailFails(o)
  \/ EnterWaitingForChildren(o) \/ VerifySplit(o)
  \/ (\E ok \in BOOLEAN : RecordVerdict(o, ok))
  \/ AddInstruction(o) \/ CancelWorkOrder(o)

Next ==
  \/ \E o \in Order : Runs(o)
  \/ \E x \in Order \X Spec : ExecuteDecomposeLate(x[1], x[2])
  \/ PromoteRead \/ PromoteAborts \/ \E x \in seen : PromoteParent(x)

FamilySpec == Init /\ [][Next]_vars
=============================================================================
