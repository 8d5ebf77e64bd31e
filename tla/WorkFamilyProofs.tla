--------------------------- MODULE WorkFamilyProofs ---------------------------
(***************************************************************************)
(* Theorems about families of orders, for any tree of orders and any plans *)
(* and limits: children are created once, a waiting parent has children,   *)
(* a cancellation takes the children with it, and the replans of a family  *)
(* are paid for.                                                           *)
(***************************************************************************)
EXTENDS WorkFamilyProperties, FiniteSetTheorems, TLAPS

-----------------------------------------------------------------------------
(* The inductive invariant: orders, plans and children.                    *)

\* A ready decompose step has an attempt left; a step is held by a process
\* only while it runs, and only a decompose step is.
ReadyHasTries == \A o \in Order : stage[o] = "ready" => tries[o] < MaxAttempts
StepsHaveLists ==
  \A o \in Order : /\ stage[o] # "none" => plan[o] \in Spec
                   /\ worker[o] # "none" => stage[o] = "running"
StepInv == TypeOK /\ ReadyHasTries /\ StepsHaveLists

Born(c) == status[c] # "absent"

\* A list's children were created at most once, and then one of them is there;
\* past its spawn transaction a step has its children.
BroodIsBorn ==
  \A x \in Order \X Spec :
    /\ broods[x] <= 1
    /\ broods[x] = 1 => \E c \in Brood[x] : Born(c)
SpawnedHasBrood ==
  \A o \in Order :
    worker[o] = "spawned" \/ stage[o] \in {"succeeded", "tailed"} =>
      Brood[<<o, plan[o]>>] = {} \/ \E c \in Brood[<<o, plan[o]>>] : Born(c)
ChildrenInv == BroodIsBorn /\ SpawnedHasBrood /\ WaitingHasChildren

\* Only results that were left to a verifier wait for a verdict.
AwaitingInv == awaiting \subseteq Semantic

-----------------------------------------------------------------------------
(* Types, attempts and plans.                                              *)

LEMMA InitStep == Init => StepInv /\ ChildrenInv /\ AwaitingInv
  BY FamilyAssumption, LimitAssumption
     DEF Init, StepInv, TypeOK, ReadyHasTries, StepsHaveLists, ChildrenInv, BroodIsBorn,
         SpawnedHasBrood, WaitingHasChildren, AwaitingInv, OrderStatus, Stage, Worker

\* _replan_or_block, guarded or not, keeps the types of what it writes.
LEMMA ReplanTypes ==
  ASSUME TypeOK, NEW o \in Order, NEW r \in Nat,
         ReplanOrBlock(o, r) \/ ReplanOrBlockGuarded(o, r)
  PROVE  /\ status' \in [Order -> OrderStatus]
         /\ charged' \subseteq Order \X Nat
         /\ \A c \in Order \ {o} : status'[c] = status[c]
         /\ status'[o] \in {"replanning", "blocked", status[o]}
         /\ Born(o) => Born(o)'
  BY DEF TypeOK, ReplanOrBlock, ReplanOrBlockGuarded, MayReplanOrBlock, OrderStatus, Born

LEMMA VerifyTypes ==
  ASSUME TypeOK, NEW o \in Order, NEW r \in Nat, NEW ok \in BOOLEAN,
         VerifyNonemptyResult(o, r, ok)
  PROVE  /\ status' \in [Order -> OrderStatus]
         /\ charged' \subseteq Order \X Nat /\ awaiting' \subseteq Order
         /\ \A c \in Order \ {o} : status'[c] = status[c]
         /\ status'[o] \in {"replanning", "blocked", "completed"}
         /\ AwaitingInv => AwaitingInv'
<1>1. CASE o \notin Semantic /\ ~ok /\ ReplanOrBlock(o, r) /\ UNCHANGED awaiting
  <2>1. status'[o] \in {"replanning", "blocked"}
    BY <1>1 DEF ReplanOrBlock, TypeOK
  <2> QED  BY <1>1, <2>1, ReplanTypes DEF TypeOK, AwaitingInv
<1>2. CASE ~(o \notin Semantic /\ ~ok /\ ReplanOrBlock(o, r) /\ UNCHANGED awaiting)
  BY <1>2 DEF VerifyNonemptyResult, TypeOK, OrderStatus, AwaitingInv
<1> QED  BY <1>1, <1>2

LEMMA SpawnTypes ==
  ASSUME TypeOK, NEW o \in Order, NEW v \in Spec, SpawnChildren(o, v)
  PROVE  /\ status' \in [Order -> OrderStatus]
         /\ broods' \in [Order \X Spec -> Nat]
         /\ \A c \in Order : status'[c] = status[c]
                             \/ (status[c] = "absent" /\ status'[c] = "planning")
<1>1. CASE UNCHANGED <<status, broods>>
  BY <1>1 DEF TypeOK
<1>2. CASE /\ \A c \in Brood[<<o, v>>] : status[c] = "absent"
           /\ broods' = [broods EXCEPT ![<<o, v>>] =
                           @ + (IF Brood[<<o, v>>] = {} THEN 0 ELSE 1)]
           /\ status' = [c \in Order |-> IF c \in Brood[<<o, v>>]
                                         THEN "planning" ELSE status[c]]
  <2>1. broods' \in [Order \X Spec -> Nat]
    <3>1. broods[<<o, v>>] + (IF Brood[<<o, v>>] = {} THEN 0 ELSE 1) \in Nat
      BY DEF TypeOK
    <3> QED  BY <1>2, <3>1 DEF TypeOK
  <2>2. status' \in [Order -> OrderStatus]
    BY <1>2 DEF TypeOK, OrderStatus
  <2> QED  BY <1>2, <2>1, <2>2
<1> QED  BY <1>1, <1>2 DEF SpawnChildren

LEMMA StepsKeepSteps == StepInv /\ [Next]_vars => StepInv'
<1> SUFFICES ASSUME StepInv, [Next]_vars PROVE StepInv'
  OBVIOUS
<1> USE DEF StepInv
<1>0. CASE UNCHANGED vars
  BY <1>0 DEF vars, orderVars, stepVars, workerVars, TypeOK, ReadyHasTries, StepsHaveLists
<1>1. ASSUME NEW o \in Order, Runs(o) PROVE StepInv'
  <2>0. rev[o] \in Nat /\ MaxAttempts \in Nat \ {0}
    BY LimitAssumption DEF TypeOK
  <2>1. ASSUME NEW p \in Plans[o], CreateWorkPlan(o, p) PROVE StepInv'
    <3>1. p \in Spec \cup {Leaf}
      BY FamilyAssumption
    <3>2. rev' \in [Order -> Nat]
      BY <2>1, <2>0 DEF CreateWorkPlan, TypeOK
    <3>3. splits' \in [Order -> SUBSET Nat]
      BY <2>1, <3>2 DEF CreateWorkPlan, TypeOK
    <3>4. TypeOK'
      BY <2>1, <2>0, <3>1, <3>2, <3>3 DEF CreateWorkPlan, TypeOK, OrderStatus, Stage, workerVars
    <3>5. ReadyHasTries' /\ StepsHaveLists'
      BY <2>1, <2>0, <3>1 DEF CreateWorkPlan, TypeOK, ReadyHasTries, StepsHaveLists, workerVars
    <3> QED  BY <3>4, <3>5
  <2>2. CASE LeafSucceeds(o)
    BY <2>2, <2>0, VerifyTypes DEF LeafSucceeds, TypeOK, ReadyHasTries, StepsHaveLists,
                                   stepVars, workerVars
  <2>3. CASE LeafFails(o)
    BY <2>3, <2>0, ReplanTypes DEF LeafFails, TypeOK, ReadyHasTries, StepsHaveLists,
                                   stepVars, workerVars
  <2>4. CASE ClaimSplit(o)
    BY <2>4, <2>0 DEF ClaimSplit, TypeOK, ReadyHasTries, StepsHaveLists, Stage, Worker, orderVars
  <2>5. CASE ExecuteDecompose(o)
    <3>1. plan[o] \in Spec
      BY <2>5 DEF ExecuteDecompose, StepsHaveLists
    <3> QED
      BY <2>5, <3>1, SpawnTypes DEF ExecuteDecompose, TypeOK, ReadyHasTries, StepsHaveLists,
                                    Worker, stepVars
  <2>6. CASE SettleSplit(o)
    BY <2>6 DEF SettleSplit, TypeOK, ReadyHasTries, StepsHaveLists, Stage, Worker, orderVars
  <2>7. CASE CrashSplit(o)
    BY <2>7 DEF CrashSplit, TypeOK, ReadyHasTries, StepsHaveLists, Worker, orderVars, stepVars
  <2>8. CASE ReclaimSplit(o)
    <3>1. late' \subseteq Order \X Spec
      BY <2>8 DEF ReclaimSplit, TypeOK, StepsHaveLists
    <3>2. CASE RetriesLeft(o) /\ stage' = [stage EXCEPT ![o] = "ready"]
                /\ status' = [status EXCEPT ![o] =
                     IF @ \in {"completed", "canceled"} THEN @ ELSE "running"]
                /\ UNCHANGED charged
      BY <2>8, <3>1, <3>2 DEF ReclaimSplit, RetriesLeft, TypeOK, ReadyHasTries,
                              StepsHaveLists, OrderStatus, Stage, Worker
    <3>3. CASE stage' = [stage EXCEPT ![o] = "failed"] /\ ReplanOrBlockGuarded(o, rev[o])
      BY <2>8, <2>0, <3>1, <3>3, ReplanTypes DEF ReclaimSplit, TypeOK, ReadyHasTries,
                              StepsHaveLists, Stage, Worker
    <3> QED  BY <2>8, <3>2, <3>3 DEF ReclaimSplit
  <2>9. CASE TailSucceeds(o)
    BY <2>9 DEF TailSucceeds, TypeOK, ReadyHasTries, StepsHaveLists, Stage, orderVars, workerVars
  <2>10. CASE TailFails(o)
    BY <2>10, <2>0, ReplanTypes DEF TailFails, TypeOK, ReadyHasTries, StepsHaveLists,
                                    stepVars, workerVars
  <2>11. CASE EnterWaitingForChildren(o)
    BY <2>11 DEF EnterWaitingForChildren, TypeOK, ReadyHasTries, StepsHaveLists, OrderStatus,
                 stepVars, workerVars
  <2>12. CASE VerifySplit(o)
    BY <2>12, <2>0, VerifyTypes DEF VerifySplit, TypeOK, ReadyHasTries, StepsHaveLists,
                                    stepVars, workerVars
  <2>13. ASSUME NEW ok \in BOOLEAN, RecordVerdict(o, ok) PROVE StepInv'
    <3>1. status' \in [Order -> OrderStatus] /\ charged' \subseteq Order \X Nat
      BY <2>13, <2>0, ReplanTypes DEF RecordVerdict, TypeOK, OrderStatus
    <3> QED
      BY <2>13, <3>1 DEF RecordVerdict, TypeOK, ReadyHasTries, StepsHaveLists, stepVars, workerVars
  <2>14. CASE AddInstruction(o)
    BY <2>14 DEF AddInstruction, TypeOK, ReadyHasTries, StepsHaveLists, OrderStatus,
                 stepVars, workerVars
  <2>15. CASE CancelWorkOrder(o)
    BY <2>15 DEF CancelWorkOrder, TypeOK, ReadyHasTries, StepsHaveLists, OrderStatus, Stage,
                 workerVars
  <2> QED
    BY <1>1, <2>1, <2>2, <2>3, <2>4, <2>5, <2>6, <2>7, <2>8, <2>9, <2>10, <2>11, <2>12, <2>13,
       <2>14, <2>15 DEF Runs
<1>2. ASSUME NEW x \in Order \X Spec, ExecuteDecomposeLate(x[1], x[2]) PROVE StepInv'
  BY <1>2, SpawnTypes DEF ExecuteDecomposeLate, TypeOK, ReadyHasTries, StepsHaveLists, stepVars
<1>3. CASE PromoteRead
  BY <1>3 DEF PromoteRead, TypeOK, ReadyHasTries, StepsHaveLists, orderVars, stepVars, workerVars
<1>4. CASE PromoteAborts
  BY <1>4 DEF PromoteAborts, TypeOK, ReadyHasTries, StepsHaveLists, orderVars, stepVars, workerVars
<1>5. ASSUME NEW x \in seen, PromoteParent(x) PROVE StepInv'
  <2>1. x[1] \in Order /\ x[2] \in Nat /\ ChildrenSucceeded(x[1]) \in BOOLEAN
    BY DEF TypeOK, ChildrenSucceeded
  <2> QED
    BY <1>5, <2>1, VerifyTypes DEF PromoteParent, TypeOK, ReadyHasTries, StepsHaveLists,
                                   stepVars, workerVars
<1> QED  BY <1>0, <1>1, <1>2, <1>3, <1>4, <1>5 DEF Next


-----------------------------------------------------------------------------
(* Children.                                                               *)

\* An order that was born stays; an unborn one can only be born as a child.
BornStay == \A c \in Order : Born(c) => Born(c)'

LEMMA OrdersStay == StepInv /\ [Next]_vars => BornStay
<1> SUFFICES ASSUME StepInv, [Next]_vars PROVE BornStay
  OBVIOUS
<1> USE DEF StepInv, BornStay, Born
<1>0. CASE UNCHANGED status
  BY <1>0
<1>1. ASSUME NEW o \in Order, Runs(o) PROVE BornStay
  <2>0. rev[o] \in Nat
    BY DEF TypeOK
  <2>1. ASSUME NEW p \in Plans[o], CreateWorkPlan(o, p) PROVE BornStay
    BY <2>1 DEF CreateWorkPlan, TypeOK
  <2>2. CASE LeafSucceeds(o) \/ VerifySplit(o)
    BY <2>2, <2>0, VerifyTypes DEF LeafSucceeds, VerifySplit
  <2>3. CASE LeafFails(o) \/ TailFails(o)
    BY <2>3, <2>0, ReplanTypes DEF LeafFails, TailFails
  <2>4. CASE ExecuteDecompose(o)
    <3>1. plan[o] \in Spec
      BY <2>4 DEF ExecuteDecompose, StepsHaveLists
    <3> QED  BY <2>4, <3>1, SpawnTypes DEF ExecuteDecompose
  <2>5. CASE ReclaimSplit(o)
    BY <2>5, <2>0, ReplanTypes DEF ReclaimSplit, TypeOK
  <2>6. ASSUME NEW ok \in BOOLEAN, RecordVerdict(o, ok) PROVE BornStay
    BY <2>6, <2>0, ReplanTypes DEF RecordVerdict, TypeOK
  <2>7. CASE EnterWaitingForChildren(o)
    BY <2>7 DEF EnterWaitingForChildren, TypeOK
  <2>8. CASE AddInstruction(o)
    BY <2>8 DEF AddInstruction, TypeOK
  <2>9. CASE CancelWorkOrder(o)
    BY <2>9 DEF CancelWorkOrder, TypeOK
  <2>10. CASE ClaimSplit(o) \/ SettleSplit(o) \/ CrashSplit(o) \/ TailSucceeds(o)
    BY <2>10, <1>0 DEF ClaimSplit, SettleSplit, CrashSplit, TailSucceeds, orderVars
  <2> QED
    BY <1>1, <2>1, <2>2, <2>3, <2>4, <2>5, <2>6, <2>7, <2>8, <2>9, <2>10 DEF Runs
<1>2. ASSUME NEW x \in Order \X Spec, ExecuteDecomposeLate(x[1], x[2]) PROVE BornStay
  BY <1>2, SpawnTypes DEF ExecuteDecomposeLate
<1>3. CASE PromoteRead \/ PromoteAborts
  BY <1>3, <1>0 DEF PromoteRead, PromoteAborts, orderVars
<1>4. ASSUME NEW x \in seen, PromoteParent(x) PROVE BornStay
  <2>1. x[1] \in Order /\ x[2] \in Nat /\ ChildrenSucceeded(x[1]) \in BOOLEAN
    BY DEF TypeOK, ChildrenSucceeded
  <2> QED  BY <1>4, <2>1, <1>0, VerifyTypes DEF PromoteParent
<1> QED  BY <1>0, <1>1, <1>2, <1>3, <1>4 DEF Next, vars, orderVars

\* A spawn transaction creates the children of a list that has none, or leaves
\* those it has.
LEMMA SpawnKeepsBroods ==
  ASSUME TypeOK, BroodIsBorn, BornStay, NEW o \in Order, NEW v \in Spec, SpawnChildren(o, v)
  PROVE  /\ BroodIsBorn'
         /\ Brood[<<o, v>>] = {} \/ \E c \in Brood[<<o, v>>] : Born(c)'
<1> DEFINE y == <<o, v>>
<1>1. y \in Order \X Spec /\ Brood[y] \subseteq Order /\ broods[y] \in Nat
  BY FamilyAssumption DEF TypeOK
<1>2. CASE (\E c \in Brood[y] : status[c] # "absent") /\ UNCHANGED <<status, broods>>
  BY <1>2 DEF BroodIsBorn, Born
<1>3. CASE /\ \A c \in Brood[y] : status[c] = "absent"
           /\ broods' = [broods EXCEPT ![y] = @ + (IF Brood[y] = {} THEN 0 ELSE 1)]
           /\ status' = [c \in Order |-> IF c \in Brood[y] THEN "planning" ELSE status[c]]
  <2>1. broods[y] = 0
    BY <1>1, <1>3 DEF BroodIsBorn, Born
  <2>2. \A c \in Brood[y] : Born(c)'
    BY <1>1, <1>3 DEF Born
  <2>3. ASSUME NEW x \in Order \X Spec
        PROVE  broods'[x] <= 1 /\ (broods'[x] = 1 => \E c \in Brood[x] : Born(c)')
    <3>1. CASE x = y
      <4>1. broods'[y] = IF Brood[y] = {} THEN 0 ELSE 1
        BY <1>1, <1>3, <2>1 DEF TypeOK
      <4>2. broods'[y] <= 1 /\ (broods'[y] = 1 => Brood[y] # {})
        BY <4>1
      <4>3. Brood[y] # {} => \E c \in Brood[y] : Born(c)'
        BY <2>2
      <4> HIDE DEF y
      <4> QED  BY <3>1, <4>2, <4>3
    <3>2. CASE x # y
      <4>1. broods'[x] = broods[x] /\ Brood[x] \subseteq Order
        BY <3>2, <1>3, FamilyAssumption DEF TypeOK
      <4>2. broods[x] <= 1 /\ (broods[x] = 1 => \E c \in Brood[x] : Born(c))
        BY DEF BroodIsBorn
      <4>3. \A c \in Brood[x] : Born(c) => Born(c)'
        BY <4>1 DEF BornStay
      <4> QED  BY <4>1, <4>2, <4>3
    <3> QED  BY <3>1, <3>2
  <2> QED  BY <2>2, <2>3 DEF BroodIsBorn
<1> QED  BY <1>2, <1>3 DEF SpawnChildren

\* A step that creates no children keeps those there are; its plan and its
\* progress past the spawn transaction come from before.
LEMMA BroodsKeep ==
  ASSUME StepInv, BroodIsBorn, BornStay, UNCHANGED broods
  PROVE  BroodIsBorn'
<1>1. \A x \in Order \X Spec : Brood[x] \subseteq Order
  BY FamilyAssumption
<1> QED  BY <1>1 DEF BroodIsBorn, BornStay

LEMMA ProgressKeeps ==
  ASSUME StepInv, SpawnedHasBrood, BornStay,
         \A o \in Order :
           (worker[o] = "spawned" \/ stage[o] \in {"succeeded", "tailed"})' =>
             /\ plan'[o] = plan[o]
             /\ worker[o] = "spawned" \/ stage[o] \in {"succeeded", "tailed"}
  PROVE  SpawnedHasBrood'
<1> SUFFICES ASSUME NEW o \in Order,
                    (worker[o] = "spawned" \/ stage[o] \in {"succeeded", "tailed"})'
             PROVE  Brood[<<o, plan'[o]>>] = {}
                    \/ \E c \in Brood[<<o, plan'[o]>>] : Born(c)'
  BY DEF SpawnedHasBrood
<1>1. plan'[o] = plan[o] /\ (worker[o] = "spawned" \/ stage[o] \in {"succeeded", "tailed"})
  OBVIOUS
<1>2. plan[o] \in Spec
  BY <1>1 DEF StepInv, StepsHaveLists
<1>3. Brood[<<o, plan[o]>>] \subseteq Order
  BY <1>2, FamilyAssumption
<1> QED  BY <1>1, <1>3 DEF SpawnedHasBrood, BornStay

LEMMA WaitingKeeps ==
  ASSUME StepInv, WaitingHasChildren, BornStay,
         \A o \in Order : status'[o] = "waiting_external" => status[o] = "waiting_external"
  PROVE  WaitingHasChildren'
<1> SUFFICES ASSUME NEW o \in Order, status'[o] = "waiting_external"
             PROVE  Children(o)' # {}
  BY DEF WaitingHasChildren
<1>1. PICK c \in Children(o) : TRUE
  BY DEF WaitingHasChildren
<1>2. PICK v \in Spec : c \in Brood[<<o, v>>] /\ status[c] # "absent"
  BY <1>1 DEF Children
<1>3. c \in Order
  BY <1>2, FamilyAssumption
<1>4. status'[c] # "absent"
  BY <1>2, <1>3 DEF BornStay, Born
<1>5. c \in Children(o)'
  BY <1>2, <1>4 DEF Children
<1> QED  BY <1>5

LEMMA ChildrenKeep == StepInv /\ ChildrenInv /\ [Next]_vars => ChildrenInv'
<1> SUFFICES ASSUME StepInv, ChildrenInv, [Next]_vars PROVE ChildrenInv'
  OBVIOUS
<1> USE DEF ChildrenInv
<1>a. BornStay
  BY OrdersStay
<1>0. CASE UNCHANGED vars
  <2>1. SpawnedHasBrood'
    BY <1>0, <1>a, ProgressKeeps DEF vars, stepVars, workerVars
  <2>2. WaitingHasChildren'
    BY <1>0, <1>a, WaitingKeeps DEF vars, orderVars
  <2> QED  BY <1>0, <1>a, <2>1, <2>2, BroodsKeep DEF vars
<1>1. ASSUME NEW o \in Order, Runs(o) PROVE ChildrenInv'
  <2>0. rev[o] \in Nat /\ TypeOK
    BY DEF StepInv, TypeOK
  <2>1. ASSUME NEW p \in Plans[o], CreateWorkPlan(o, p) PROVE ChildrenInv'
    <3>1. BroodIsBorn'
      BY <2>1, <1>a, BroodsKeep DEF CreateWorkPlan
    <3>2. SpawnedHasBrood'
      BY <2>1, <2>0, <1>a, ProgressKeeps
         DEF CreateWorkPlan, workerVars, TypeOK, StepInv, StepsHaveLists
    <3>3. WaitingHasChildren'
      BY <2>1, <2>0, <1>a, WaitingKeeps DEF CreateWorkPlan, TypeOK
    <3> QED  BY <3>1, <3>2, <3>3
  <2>2. CASE LeafSucceeds(o) \/ VerifySplit(o)
    <3>1. BroodIsBorn' /\ SpawnedHasBrood'
      BY <2>2, <1>a, BroodsKeep, ProgressKeeps DEF LeafSucceeds, VerifySplit, stepVars, workerVars
    <3>2. WaitingHasChildren'
      BY <2>2, <2>0, <1>a, VerifyTypes, WaitingKeeps DEF LeafSucceeds, VerifySplit
    <3> QED  BY <3>1, <3>2
  <2>3. CASE LeafFails(o) \/ TailFails(o)
    <3>1. BroodIsBorn' /\ SpawnedHasBrood'
      BY <2>3, <1>a, BroodsKeep, ProgressKeeps DEF LeafFails, TailFails, stepVars, workerVars
    <3>2. WaitingHasChildren'
      BY <2>3, <2>0, <1>a, ReplanTypes, WaitingKeeps DEF LeafFails, TailFails
    <3> QED  BY <3>1, <3>2
  <2>4. CASE ClaimSplit(o) \/ SettleSplit(o) \/ CrashSplit(o) \/ TailSucceeds(o)
    <3>1. BroodIsBorn'
      BY <2>4, <1>a, BroodsKeep DEF ClaimSplit, SettleSplit, CrashSplit, TailSucceeds
    <3>2. SpawnedHasBrood'
      BY <2>4, <2>0, <1>a, ProgressKeeps
         DEF ClaimSplit, SettleSplit, CrashSplit, TailSucceeds, TypeOK, stepVars, workerVars
    <3>3. WaitingHasChildren'
      BY <2>4, <1>a, WaitingKeeps DEF ClaimSplit, SettleSplit, CrashSplit, TailSucceeds, orderVars
    <3> QED  BY <3>1, <3>2, <3>3
  <2>5. CASE ExecuteDecompose(o)
    <3>1. plan[o] \in Spec /\ SpawnChildren(o, plan[o])
      BY <2>5 DEF ExecuteDecompose, StepInv, StepsHaveLists
    <3>2. /\ BroodIsBorn'
          /\ Brood[<<o, plan[o]>>] = {} \/ \E c \in Brood[<<o, plan[o]>>] : Born(c)'
      BY <3>1, <2>0, <1>a, SpawnKeepsBroods
    <3>3. SpawnedHasBrood'
      <4>1. SUFFICES ASSUME NEW p \in Order,
                            (worker[p] = "spawned" \/ stage[p] \in {"succeeded", "tailed"})'
                     PROVE  Brood[<<p, plan'[p]>>] = {}
                            \/ \E c \in Brood[<<p, plan'[p]>>] : Born(c)'
        BY DEF SpawnedHasBrood
      <4>2. CASE p = o
        BY <4>2, <2>5, <3>2 DEF ExecuteDecompose, stepVars
      <4>3. CASE p # o
        <5>1. /\ plan'[p] = plan[p] /\ stage'[p] = stage[p] /\ worker'[p] = worker[p]
          BY <4>3, <2>5, <2>0 DEF ExecuteDecompose, stepVars, TypeOK
        <5>2. plan[p] \in Spec
          BY <4>1, <5>1 DEF StepInv, StepsHaveLists
        <5>3. \A c \in Brood[<<p, plan[p]>>] : Born(c) => Born(c)'
          BY <5>2, <1>a, FamilyAssumption DEF BornStay
        <5>4. Brood[<<p, plan[p]>>] = {} \/ \E c \in Brood[<<p, plan[p]>>] : Born(c)
          BY <4>1, <5>1 DEF SpawnedHasBrood
        <5> QED  BY <5>1, <5>3, <5>4
      <4> QED  BY <4>2, <4>3
    <3>4. WaitingHasChildren'
      BY <3>1, <2>0, <1>a, SpawnTypes, WaitingKeeps
    <3> QED  BY <3>2, <3>3, <3>4
  <2>6. CASE ReclaimSplit(o)
    <3>1. BroodIsBorn'
      BY <2>6, <1>a, BroodsKeep DEF ReclaimSplit
    <3>2. SpawnedHasBrood'
      BY <2>6, <2>0, <1>a, ProgressKeeps DEF ReclaimSplit, TypeOK
    <3>3. WaitingHasChildren'
      BY <2>6, <2>0, <1>a, ReplanTypes, WaitingKeeps DEF ReclaimSplit, TypeOK
    <3> QED  BY <3>1, <3>2, <3>3
  <2>7. ASSUME NEW ok \in BOOLEAN, RecordVerdict(o, ok) PROVE ChildrenInv'
    <3>1. BroodIsBorn' /\ SpawnedHasBrood'
      BY <2>7, <1>a, BroodsKeep, ProgressKeeps DEF RecordVerdict, stepVars, workerVars
    <3>2. WaitingHasChildren'
      BY <2>7, <2>0, <1>a, ReplanTypes, WaitingKeeps DEF RecordVerdict, TypeOK
    <3> QED  BY <3>1, <3>2
  <2>8. CASE AddInstruction(o)
    <3>1. BroodIsBorn' /\ SpawnedHasBrood'
      BY <2>8, <1>a, BroodsKeep, ProgressKeeps DEF AddInstruction, stepVars, workerVars
    <3>2. WaitingHasChildren'
      BY <2>8, <2>0, <1>a, WaitingKeeps DEF AddInstruction, TypeOK
    <3> QED  BY <3>1, <3>2
  <2>9. CASE CancelWorkOrder(o)
    <3>1. BroodIsBorn'
      BY <2>9, <1>a, BroodsKeep DEF CancelWorkOrder
    <3>2. SpawnedHasBrood'
      BY <2>9, <2>0, <1>a, ProgressKeeps DEF CancelWorkOrder, workerVars, TypeOK
    <3>3. WaitingHasChildren'
      BY <2>9, <2>0, <1>a, WaitingKeeps DEF CancelWorkOrder
    <3> QED  BY <3>1, <3>2, <3>3
  <2>10. CASE EnterWaitingForChildren(o)
    <3>1. BroodIsBorn' /\ SpawnedHasBrood'
      BY <2>10, <1>a, BroodsKeep, ProgressKeeps DEF EnterWaitingForChildren, stepVars, workerVars
    <3>2. plan[o] \in Spec /\ \E c \in Brood[<<o, plan[o]>>] : Born(c)
      BY <2>10 DEF EnterWaitingForChildren, SplitDone, SpawnedSomething, SpawnedHasBrood
    <3>3. \E c \in Order : c \in Brood[<<o, plan[o]>>] /\ status[c] # "absent"
      BY <3>2, FamilyAssumption DEF Born
    <3>4. PICK c \in Order : c \in Brood[<<o, plan[o]>>] /\ status'[c] # "absent"
      BY <3>3, <1>a DEF BornStay, Born
    <3>5. c \in Children(o)'
      BY <3>2, <3>4 DEF Children
    <3>6. ASSUME NEW p \in Order, status'[p] = "waiting_external" PROVE Children(p)' # {}
      <4>1. CASE p = o
        BY <4>1, <3>5
      <4>2. CASE p # o
        <5>1. status[p] = "waiting_external"
          BY <4>2, <3>6, <2>10, <2>0 DEF EnterWaitingForChildren, TypeOK
        <5>2. PICK d \in Children(p) : TRUE
          BY <5>1 DEF WaitingHasChildren
        <5>3. PICK v \in Spec : d \in Brood[<<p, v>>] /\ status[d] # "absent"
          BY <5>2 DEF Children
        <5>4. d \in Order
          BY <5>3, FamilyAssumption
        <5>5. status'[d] # "absent"
          BY <5>3, <5>4, <1>a DEF BornStay, Born
        <5>6. d \in Children(p)'
          BY <5>3, <5>5 DEF Children
        <5> QED  BY <5>6
      <4> QED  BY <4>1, <4>2
    <3> QED  BY <3>1, <3>6 DEF WaitingHasChildren
  <2> QED
    BY <1>1, <2>1, <2>2, <2>3, <2>4, <2>5, <2>6, <2>7, <2>8, <2>9, <2>10 DEF Runs
<1>2. ASSUME NEW x \in Order \X Spec, ExecuteDecomposeLate(x[1], x[2]) PROVE ChildrenInv'
  <2>1. SpawnChildren(x[1], x[2]) /\ x[1] \in Order /\ x[2] \in Spec /\ TypeOK
    BY <1>2 DEF ExecuteDecomposeLate, StepInv
  <2>2. BroodIsBorn'
    BY <2>1, <1>a, SpawnKeepsBroods
  <2>3. SpawnedHasBrood'
    BY <1>2, <1>a, ProgressKeeps DEF ExecuteDecomposeLate, stepVars
  <2>4. WaitingHasChildren'
    BY <2>1, <1>a, SpawnTypes, WaitingKeeps
  <2> QED  BY <2>2, <2>3, <2>4
<1>3. CASE PromoteRead \/ PromoteAborts
  <2>1. UNCHANGED <<status, broods, plan, stage, worker>>
    BY <1>3 DEF PromoteRead, PromoteAborts, orderVars, stepVars, workerVars
  <2> QED  BY <2>1, <1>a, BroodsKeep, ProgressKeeps, WaitingKeeps
<1>4. ASSUME NEW x \in seen, PromoteParent(x) PROVE ChildrenInv'
  <2>1. x[1] \in Order /\ x[2] \in Nat /\ ChildrenSucceeded(x[1]) \in BOOLEAN /\ TypeOK
    BY DEF StepInv, TypeOK, ChildrenSucceeded
  <2>2. UNCHANGED <<broods, plan, stage, worker>>
    BY <1>4 DEF PromoteParent, stepVars, workerVars
  <2>3. BroodIsBorn' /\ SpawnedHasBrood'
    BY <2>2, <1>a, BroodsKeep, ProgressKeeps
  <2>4. \A o \in Order : status'[o] = "waiting_external" => status[o] = "waiting_external"
    BY <1>4, <2>1, VerifyTypes DEF PromoteParent
  <2>5. WaitingHasChildren'
    BY <2>4, <1>a, WaitingKeeps
  <2> QED  BY <2>3, <2>5
<1> QED  BY <1>0, <1>1, <1>2, <1>3, <1>4 DEF Next

-----------------------------------------------------------------------------
(* The inductive invariant: replans.  An order's credit is what it was     *)
(* charged for or told to do, less the revisions it has made.  A charge    *)
(* can be met again: that of the revision at hand, and that of a revision  *)
(* the tick still holds in memory; each may buy one replan, so each must   *)
(* be covered by credit, and a planning order's next revision besides.     *)

Charges(o) == {x \in charged : x[1] = o}
Spent(o) == Cardinality(Charges(o))
Credit(o) == Spent(o) + instructions[o] + 1 - rev[o]
OwnCharge(o) == <<o, rev[o]>> \in charged
OldCharge(o) == \E x \in seen : x \in charged /\ x[1] = o /\ x[2] # rev[o]
SeenCharge(o) == \E x \in seen : x \in charged /\ x[1] = o
Planning(o) == status[o] \in {"planning", "replanning"}
One(b) == IF b THEN 1 ELSE 0

CreditCovers(o) ==
  /\ Credit(o) >= One(OwnCharge(o)) + One(OldCharge(o))
  /\ Planning(o) => Credit(o) >= 1 + One(SeenCharge(o))
ReplansArePaid == \A o \in Order : CreditCovers(o)
SharedLimit == IsFiniteSet(charged) /\ Cardinality(charged) <= LedgerReplans

\* What the ledger and the tick hold is of revisions that were made, by orders
\* that were born; the tick holds an order once.
HeldIsPast ==
  /\ \A x \in charged \cup seen : x[2] <= rev[x[1]] /\ Born(x[1])
  /\ \A x, y \in seen : x[1] = y[1] => x = y
\* An unborn order is blank; a waiting one executes nothing.
QuietOrders ==
  \A o \in Order : /\ ~Born(o) => rev[o] = 0 /\ stage[o] = "none"
                   /\ status[o] = "waiting_external" => stage[o] # "running"
\* Until an order the tick has read is planned anew, nothing but the tick judges
\* its revision.
SeenIsQuiet ==
  \A x \in seen : x[2] = rev[x[1]] =>
    /\ status[x[1]] \in {"waiting_external", "replanning", "canceled"}
    /\ stage[x[1]] # "running"
SeenInv == HeldIsPast /\ QuietOrders /\ SeenIsQuiet
PaidInv == SharedLimit /\ ReplansArePaid

-----------------------------------------------------------------------------
(* What the tick and the ledger hold.                                      *)

LEMMA InitSeen == Init => SeenInv
  BY DEF Init, SeenInv, HeldIsPast, QuietOrders, SeenIsQuiet, Born

\* A judgement of order o by its revision r.
LEMMA ReplanCharges ==
  ASSUME TypeOK, NEW o \in Order, NEW r \in Nat,
         ReplanOrBlock(o, r) \/ ReplanOrBlockGuarded(o, r)
  PROVE  /\ charged' \subseteq charged \cup {<<o, r>>} /\ charged \subseteq charged'
         /\ status'[o] = "replanning" /\ status[o] # "replanning" => <<o, r>> \in charged'
         /\ status'[o] # "replanning" => charged' = charged
         /\ status'[o] \in {"replanning", "blocked"} \/ status' = status
  BY DEF TypeOK, ReplanOrBlock, ReplanOrBlockGuarded

\* Steps that leave revisions, the ledger and the tick's memory alone.
LEMMA SeenKeeps ==
  ASSUME TypeOK, SeenInv, BornStay, UNCHANGED <<rev, charged, seen>>,
         QuietOrders',
         \A x \in seen : x[2] = rev[x[1]] =>
           /\ status'[x[1]] \in {"waiting_external", "replanning", "canceled"}
           /\ stage'[x[1]] # "running"
  PROVE  SeenInv'
<1>1. HeldIsPast'
  BY DEF SeenInv, HeldIsPast, BornStay, TypeOK
<1>2. SeenIsQuiet'
  BY DEF SeenInv, SeenIsQuiet
<1> QED  BY <1>1, <1>2 DEF SeenInv

\* A judgement of a born order by revision r, the tick holding no more than
\* before.
LEMMA JudgedKeeps ==
  ASSUME TypeOK, SeenInv, BornStay, NEW o \in Order, NEW r \in Nat,
         r <= rev[o], Born(o), UNCHANGED rev, seen' \subseteq seen,
         charged' \subseteq charged \cup {<<o, r>>}, QuietOrders',
         \A x \in seen' : x[2] = rev[x[1]] => x[1] # o,
         \A c \in Order \ {o} : status'[c] = status[c] /\ stage'[c] = stage[c]
  PROVE  SeenInv'
<1>1. HeldIsPast'
  <2>1. ASSUME NEW x \in charged' \cup seen' PROVE x[2] <= rev[x[1]] /\ Born(x[1]) /\ x[1] \in Order
    BY DEF SeenInv, HeldIsPast, TypeOK
  <2> QED  BY <2>1 DEF SeenInv, HeldIsPast, BornStay
<1>2. SeenIsQuiet'
  BY DEF SeenInv, SeenIsQuiet, TypeOK
<1> QED  BY <1>1, <1>2 DEF SeenInv

LEMMA SeenStep == StepInv /\ SeenInv /\ [Next]_vars => SeenInv'
<1> SUFFICES ASSUME StepInv, SeenInv, [Next]_vars PROVE SeenInv'
  OBVIOUS
<1>a. BornStay /\ TypeOK
  BY OrdersStay DEF StepInv
<1>b. \A x \in seen : x[1] \in Order /\ x[2] \in Nat /\ x = <<x[1], x[2]>>
  BY <1>a DEF TypeOK
<1>c. \A o \in Order : rev[o] \in Nat
  BY <1>a DEF TypeOK
<1> USE DEF SeenInv
<1>0. CASE UNCHANGED vars
  <2>1. QuietOrders'
    BY <1>0 DEF vars, orderVars, stepVars, QuietOrders, Born
  <2> QED  BY <1>0, <1>a, <2>1, SeenKeeps DEF vars, orderVars, stepVars, SeenIsQuiet
<1>1. ASSUME NEW o \in Order, Runs(o) PROVE SeenInv'
  <2>1. ASSUME NEW p \in Plans[o], CreateWorkPlan(o, p) PROVE SeenInv'
    <3>1. /\ rev'[o] = rev[o] + 1 /\ \A c \in Order \ {o} : rev'[c] = rev[c]
          /\ UNCHANGED <<charged, seen>>
      BY <2>1, <1>a DEF CreateWorkPlan, TypeOK
    <3>2. HeldIsPast'
      <4>1. ASSUME NEW x \in charged \cup seen
            PROVE  x[2] <= rev'[x[1]] /\ Born(x[1])'
        <5>1. x[1] \in Order /\ x[2] \in Nat
          BY <1>a DEF TypeOK
        <5>2. x[2] <= rev[x[1]] /\ Born(x[1])
          BY DEF HeldIsPast
        <5>3. rev'[x[1]] \in Nat /\ rev'[x[1]] >= rev[x[1]]
          BY <3>1, <5>1, <1>c
        <5> QED  BY <5>1, <5>2, <5>3, <1>a, <1>c DEF BornStay
      <4> QED  BY <4>1, <3>1 DEF HeldIsPast
    <3>3. QuietOrders'
      BY <2>1, <3>1, <1>a DEF CreateWorkPlan, QuietOrders, TypeOK, Born
    <3>4. SeenIsQuiet'
      <4>1. SUFFICES ASSUME NEW x \in seen, x[2] = rev'[x[1]]
                     PROVE  /\ status'[x[1]] \in {"waiting_external", "replanning", "canceled"}
                            /\ stage'[x[1]] # "running"
        BY <3>1 DEF SeenIsQuiet
      <4>2. x[1] # o
        BY <4>1, <3>1, <1>b, <1>c DEF HeldIsPast
      <4>3. status'[x[1]] = status[x[1]] /\ stage'[x[1]] = stage[x[1]]
        BY <4>2, <2>1, <1>a, <1>b DEF CreateWorkPlan, TypeOK
      <4> QED  BY <4>1, <4>2, <4>3, <3>1, <1>b DEF SeenIsQuiet
    <3> QED  BY <3>2, <3>3, <3>4
  <2>2. ASSUME LeafSucceeds(o) \/ VerifySplit(o) \/ LeafFails(o) \/ TailFails(o) PROVE SeenInv'
    <3>1. /\ status[o] = "running" /\ UNCHANGED <<rev, stage, seen>>
      BY <2>2 DEF LeafSucceeds, LeafFails, TailFails, VerifySplit, SplitDone, stepVars
    <3>2. /\ charged' \subseteq charged \cup {<<o, rev[o]>>}
          /\ \A c \in Order \ {o} : status'[c] = status[c]
          /\ status'[o] # "waiting_external"
      BY <2>2, <1>a, <1>c, <3>1, ReplanTypes, ReplanCharges, VerifyTypes
         DEF LeafSucceeds, LeafFails, TailFails, VerifySplit, VerifyNonemptyResult
    <3>3. QuietOrders'
      BY <3>1, <3>2, <1>a DEF QuietOrders, BornStay, Born
    <3> QED  BY <3>1, <3>2, <3>3, <1>a, <1>b, <1>c, JudgedKeeps DEF SeenIsQuiet, Born
  <2>3. ASSUME NEW ok \in BOOLEAN, RecordVerdict(o, ok) PROVE SeenInv'
    <3>1. /\ status[o] = "blocked" /\ UNCHANGED <<rev, stage, seen>>
      BY <2>3 DEF RecordVerdict, stepVars
    <3>2. /\ charged' \subseteq charged \cup {<<o, rev[o]>>}
          /\ \A c \in Order \ {o} : status'[c] = status[c]
          /\ status'[o] # "waiting_external"
      BY <2>3, <1>a, <1>c, <3>1, ReplanTypes, ReplanCharges DEF RecordVerdict, TypeOK
    <3>3. QuietOrders'
      BY <3>1, <3>2, <1>a DEF QuietOrders, BornStay, Born
    <3> QED  BY <3>1, <3>2, <3>3, <1>a, <1>b, <1>c, JudgedKeeps DEF SeenIsQuiet, Born
  <2>4. CASE ReclaimSplit(o)
    <3>1. /\ stage[o] = "running" /\ UNCHANGED <<rev, seen>> /\ Born(o)
          /\ \A c \in Order \ {o} : stage'[c] = stage[c]
          /\ stage'[o] \in {"ready", "failed"}
      BY <2>4, <1>a DEF ReclaimSplit, QuietOrders, TypeOK
    <3>2. /\ charged' \subseteq charged \cup {<<o, rev[o]>>}
          /\ \A c \in Order \ {o} : status'[c] = status[c]
      BY <2>4, <1>a, <1>c, ReplanTypes, ReplanCharges DEF ReclaimSplit, TypeOK
    <3>3. QuietOrders'
      BY <3>1, <3>2, <1>a DEF QuietOrders, BornStay, Born
    <3> QED  BY <3>1, <3>2, <3>3, <1>a, <1>b, <1>c, JudgedKeeps DEF SeenIsQuiet
  <2>5. CASE ClaimSplit(o)
    <3>1. QuietOrders'
      BY <2>5, <1>a DEF ClaimSplit, QuietOrders, TypeOK, orderVars, Born
    <3> QED  BY <2>5, <3>1, <1>a, <1>b, SeenKeeps DEF ClaimSplit, orderVars, SeenIsQuiet, TypeOK
  <2>6. CASE SettleSplit(o) \/ TailSucceeds(o)
    <3>0. stage[o] \in {"running", "succeeded"}
      BY <2>6 DEF SettleSplit, TailSucceeds, StepInv, StepsHaveLists
    <3>1. QuietOrders'
      BY <2>6, <3>0, <1>a DEF SettleSplit, TailSucceeds, QuietOrders, TypeOK, orderVars, Born
    <3> QED
      BY <2>6, <3>1, <1>a, <1>b, SeenKeeps DEF SettleSplit, TailSucceeds, orderVars, SeenIsQuiet, TypeOK
  <2>7. CASE CrashSplit(o)
    <3>1. QuietOrders'
      BY <2>7 DEF CrashSplit, QuietOrders, orderVars, stepVars, Born
    <3> QED  BY <2>7, <3>1, <1>a, SeenKeeps DEF CrashSplit, orderVars, stepVars, SeenIsQuiet
  <2>8. CASE ExecuteDecompose(o)
    <3>1. /\ \A c \in Order : status'[c] = status[c]
                              \/ (status[c] = "absent" /\ status'[c] = "planning")
          /\ UNCHANGED <<rev, charged, seen, stage>>
      BY <2>8, <1>a, SpawnTypes DEF ExecuteDecompose, StepInv, StepsHaveLists, stepVars
    <3>2. QuietOrders'
      BY <3>1, <1>a DEF QuietOrders, Born
    <3> QED  BY <3>1, <3>2, <1>a, <1>b, SeenKeeps DEF SeenIsQuiet
  <2>9. CASE EnterWaitingForChildren(o)
    <3>1. QuietOrders'
      BY <2>9, <1>a DEF EnterWaitingForChildren, SplitDone, QuietOrders, TypeOK, stepVars, Born
    <3> QED
      BY <2>9, <3>1, <1>a, <1>b, SeenKeeps
         DEF EnterWaitingForChildren, SplitDone, SeenIsQuiet, TypeOK, stepVars
  <2>10. CASE AddInstruction(o)
    <3>1. QuietOrders'
      BY <2>10, <1>a DEF AddInstruction, QuietOrders, TypeOK, stepVars, Born
    <3> QED
      BY <2>10, <3>1, <1>a, <1>b, SeenKeeps DEF AddInstruction, SeenIsQuiet, TypeOK, stepVars
  <2>11. CASE CancelWorkOrder(o)
    <3>1. /\ \A c \in Order : status'[c] \in {status[c], "canceled"}
          /\ \A c \in Order : stage'[c] = stage[c] \/ stage'[c] = "none"
          /\ UNCHANGED <<rev, charged, seen>>
      BY <2>11, <1>a DEF CancelWorkOrder, TypeOK
    <3>2. \A c \in Order : ~Born(c)' => ~Born(c)
      BY <1>a DEF BornStay
    <3>3. QuietOrders'
      BY <3>1, <3>2 DEF QuietOrders
    <3> QED  BY <3>1, <3>3, <1>a, <1>b, SeenKeeps DEF SeenIsQuiet
  <2> QED
    BY <1>1, <2>1, <2>2, <2>3, <2>4, <2>5, <2>6, <2>7, <2>8, <2>9, <2>10, <2>11 DEF Runs
<1>2. ASSUME NEW y \in Order \X Spec, ExecuteDecomposeLate(y[1], y[2]) PROVE SeenInv'
  <2>1. /\ \A c \in Order : status'[c] = status[c]
                            \/ (status[c] = "absent" /\ status'[c] = "planning")
        /\ UNCHANGED <<rev, charged, seen, stage>>
    BY <1>2, <1>a, SpawnTypes DEF ExecuteDecomposeLate, stepVars
  <2>2. QuietOrders'
    BY <2>1, <1>a DEF QuietOrders, Born
  <2> QED  BY <2>1, <2>2, <1>a, <1>b, SeenKeeps DEF SeenIsQuiet
<1>3. CASE PromoteRead
  <2>1. /\ UNCHANGED <<status, rev, stage, charged>>
        /\ seen' = {<<o, rev[o]>> : o \in {p \in Order : status[p] = "waiting_external"}}
    BY <1>3 DEF PromoteRead, orderVars, stepVars
  <2>2. \A x \in seen' : \E o \in Order : x = <<o, rev[o]>> /\ status[o] = "waiting_external"
    BY <2>1
  <2>3. HeldIsPast'
    BY <2>1, <2>2, <1>c DEF HeldIsPast, Born
  <2>4. QuietOrders'
    BY <2>1 DEF QuietOrders, Born
  <2>5. SeenIsQuiet'
    BY <2>1, <2>2 DEF SeenIsQuiet, QuietOrders
  <2> QED  BY <2>3, <2>4, <2>5
<1>4. CASE PromoteAborts
  BY <1>4 DEF PromoteAborts, orderVars, stepVars, HeldIsPast, QuietOrders, SeenIsQuiet, Born
<1>5. ASSUME NEW x \in seen, PromoteParent(x) PROVE SeenInv'
  <2>1. x[1] \in Order /\ x[2] \in Nat /\ ChildrenSucceeded(x[1]) \in BOOLEAN
    BY <1>b DEF ChildrenSucceeded
  <2>2. x[2] <= rev[x[1]] /\ Born(x[1])
    BY DEF HeldIsPast
  <2>3. UNCHANGED <<rev, stage>> /\ seen' = seen \ {x}
    BY <1>5 DEF PromoteParent, stepVars
  <2>4. /\ charged' \subseteq charged \cup {<<x[1], x[2]>>}
        /\ \A c \in Order \ {x[1]} : status'[c] = status[c]
        /\ status'[x[1]] # "waiting_external" \/ status' = status
    <3>1. CASE UNCHANGED <<status, awaiting, charged>>
      BY <3>1
    <3>2. CASE VerifyNonemptyResult(x[1], x[2], ChildrenSucceeded(x[1]))
      BY <3>2, <2>1, <1>a, ReplanCharges, VerifyTypes DEF VerifyNonemptyResult
    <3> QED  BY <1>5, <3>1, <3>2 DEF PromoteParent
  <2>5. QuietOrders'
    BY <2>1, <2>2, <2>3, <2>4, <1>a DEF QuietOrders, BornStay, Born
  <2>6. \A y \in seen' : y[1] # x[1]
    BY <2>3 DEF HeldIsPast
  <2> QED  BY <2>1, <2>2, <2>3, <2>4, <2>5, <2>6, <1>a, JudgedKeeps
<1> QED  BY <1>0, <1>1, <1>2, <1>3, <1>4, <1>5 DEF Next

-----------------------------------------------------------------------------
(* Replans are paid for.                                                   *)

\* Counting the charges of one order in any ledger.
LEMMA CountCharges ==
  ASSUME NEW C, IsFiniteSet(C), NEW o
  PROVE  Cardinality({x \in C : x[1] = o}) \in Nat
<1>1. {x \in C : x[1] = o} \in SUBSET C
  OBVIOUS
<1> QED  BY <1>1, FS_Subset, FS_CardinalityType

LEMMA AddCharge ==
  ASSUME NEW C, IsFiniteSet(C), NEW o, NEW r, <<o, r>> \notin C
  PROVE  /\ Cardinality({x \in C \cup {<<o, r>>} : x[1] = o})
              = Cardinality({x \in C : x[1] = o}) + 1
         /\ \A c : c # o => {x \in C \cup {<<o, r>>} : x[1] = c} = {x \in C : x[1] = c}
<1> DEFINE D == {x \in C : x[1] = o}
<1>1. {x \in C \cup {<<o, r>>} : x[1] = o} = D \cup {<<o, r>>}
  OBVIOUS
<1>2. IsFiniteSet(D) /\ <<o, r>> \notin D
  <2>1. D \in SUBSET C
    OBVIOUS
  <2> QED  BY <2>1, FS_Subset
<1>3. Cardinality(D \cup {<<o, r>>}) = Cardinality(D) + 1
  <2> HIDE DEF D
  <2> QED  BY <1>2, FS_AddElement
<1>4. \A c : c # o => {x \in C \cup {<<o, r>>} : x[1] = c} = {x \in C : x[1] = c}
  OBVIOUS
<1> QED  BY <1>1, <1>3, <1>4

\* The charge of a judgement: none, or a new one within the shared limit.
Charged(o, r) ==
  \/ charged' = charged
  \/ <<o, r>> \notin charged /\ charged' = charged \cup {<<o, r>>}

LEMMA ReplanLimit ==
  ASSUME SharedLimit, NEW o \in Order, NEW r \in Nat,
         ReplanOrBlock(o, r) \/ ReplanOrBlockGuarded(o, r)
  PROVE  SharedLimit' /\ Charged(o, r)
<1>1. CASE charged' = charged
  BY <1>1 DEF SharedLimit, Charged
<1>2. CASE charged' # charged
  <2>1. /\ charged' = charged \cup {<<o, r>>} /\ <<o, r>> \notin charged
        /\ Cardinality(charged) < LedgerReplans
    BY <1>2 DEF ReplanOrBlock, ReplanOrBlockGuarded, CanCharge
  <2>2. IsFiniteSet(charged') /\ Cardinality(charged') = Cardinality(charged) + 1
        /\ Cardinality(charged) \in Nat
    BY <2>1, FS_AddElement, FS_CardinalityType DEF SharedLimit
  <2> QED  BY <2>1, <2>2, LimitAssumption DEF SharedLimit, Charged
<1> QED  BY <1>1, <1>2

LEMMA NumberTypes ==
  ASSUME TypeOK, SharedLimit, NEW o \in Order
  PROVE  Spent(o) \in Nat /\ instructions[o] \in Nat /\ rev[o] \in Nat
<1>1. Spent(o) \in Nat
  BY CountCharges DEF SharedLimit, Spent, Charges
<1> QED  BY <1>1 DEF TypeOK

\* An order that is not judged, planned or told anything.
LEMMA UntouchedKeeps ==
  ASSUME TypeOK, SharedLimit, NEW c \in Order, CreditCovers(c),
         rev'[c] = rev[c], instructions'[c] = instructions[c], Charges(c)' = Charges(c),
         \A x \in seen' : x[1] = c => x \in seen,
         Planning(c)' => Planning(c)
  PROVE  CreditCovers(c)'
<1>1. Credit(c)' = Credit(c)
  BY DEF Credit, Spent
<1>2. Credit(c) \in Int
  BY NumberTypes DEF Credit
<1>3. OwnCharge(c)' => OwnCharge(c)
  BY DEF OwnCharge, Charges
<1>4. OldCharge(c)' => OldCharge(c)
  BY DEF OldCharge, Charges
<1>5. SeenCharge(c)' => SeenCharge(c)
  BY DEF SeenCharge, Charges
<1> QED  BY <1>1, <1>2, <1>3, <1>4, <1>5 DEF CreditCovers, One

LEMMA QuietKeeps ==
  ASSUME TypeOK, PaidInv, UNCHANGED <<rev, instructions, charged>>, seen' \subseteq seen,
         \A c \in Order : Planning(c)' => Planning(c)
  PROVE  PaidInv'
<1>1. \A c \in Order : CreditCovers(c)'
  BY UntouchedKeeps DEF PaidInv, ReplansArePaid, Charges
<1> QED  BY <1>1 DEF PaidInv, ReplansArePaid, SharedLimit

\* A judgement by the revision at hand, which the tick does not hold.
LEMMA JudgedNowPays ==
  ASSUME TypeOK, PaidInv, SharedLimit', NEW o \in Order,
         UNCHANGED <<rev, instructions, seen>>,
         \A x \in seen : x[1] = o => x[2] # rev[o],
         \A c \in Order \ {o} : status'[c] = status[c],
         Charged(o, rev[o]),
         Planning(o)' => Planning(o) \/ <<o, rev[o]>> \in charged'
  PROVE  PaidInv'
<1> USE DEF PaidInv
<1>1. ASSUME NEW c \in Order \ {o} PROVE CreditCovers(c)'
  <2>1. Charges(c)' = Charges(c)
    BY DEF Charges, Charged
  <2> QED  BY <1>1, <2>1, UntouchedKeeps DEF Planning, ReplansArePaid
<1>2. CreditCovers(o)'
  <2>1. CreditCovers(o) /\ Spent(o) \in Nat /\ instructions[o] \in Nat /\ rev[o] \in Nat
    BY NumberTypes DEF ReplansArePaid
  <2>2. /\ OldCharge(o)' <=> OldCharge(o)
        /\ SeenCharge(o) <=> OldCharge(o)
        /\ SeenCharge(o)' <=> OldCharge(o)
    BY DEF OldCharge, SeenCharge, Charged
  <2>3. CASE charged' = charged
    <3>1. Credit(o)' = Credit(o) /\ (OwnCharge(o)' <=> OwnCharge(o))
      BY <2>3 DEF Credit, Spent, Charges, OwnCharge
    <3>2. Planning(o)' => Planning(o) \/ OwnCharge(o)
      BY <2>3 DEF OwnCharge
    <3> QED  BY <2>1, <2>2, <3>1, <3>2 DEF CreditCovers, One, Credit
  <2>4. CASE <<o, rev[o]>> \notin charged /\ charged' = charged \cup {<<o, rev[o]>>}
    <3>1. Spent(o)' = Spent(o) + 1
      BY <2>4, AddCharge DEF Spent, Charges, SharedLimit
    <3>2. Credit(o)' = Credit(o) + 1 /\ ~OwnCharge(o)
      BY <3>1, <2>1, <2>4 DEF Credit, OwnCharge
    <3> QED  BY <2>1, <2>2, <3>2 DEF CreditCovers, One, Credit
  <2> QED  BY <2>3, <2>4 DEF Charged
<1> QED  BY <1>1, <1>2 DEF ReplansArePaid

\* A judgement by the tick, of a revision it held, which it forgets.
LEMMA JudgedByTickPays ==
  ASSUME TypeOK, PaidInv, SharedLimit', NEW o \in Order, NEW r \in Nat,
         UNCHANGED <<rev, instructions>>, <<o, r>> \in seen, seen' \subseteq seen,
         \A x \in seen' : x[1] # o,
         \A c \in Order \ {o} : status'[c] = status[c],
         Charged(o, r),
         Planning(o)' => Planning(o) \/ <<o, r>> \in charged'
  PROVE  PaidInv'
<1> USE DEF PaidInv
<1>1. ASSUME NEW c \in Order \ {o} PROVE CreditCovers(c)'
  <2>1. Charges(c)' = Charges(c)
    BY DEF Charges, Charged
  <2> QED  BY <1>1, <2>1, UntouchedKeeps DEF Planning, ReplansArePaid
<1>2. CreditCovers(o)'
  <2>1. CreditCovers(o) /\ Spent(o) \in Nat /\ instructions[o] \in Nat /\ rev[o] \in Nat
    BY NumberTypes DEF ReplansArePaid
  <2>2. ~OldCharge(o)' /\ ~SeenCharge(o)'
    BY DEF OldCharge, SeenCharge
  <2>3. CASE charged' = charged
    <3>1. Credit(o)' = Credit(o) /\ (OwnCharge(o)' <=> OwnCharge(o))
      BY <2>3 DEF Credit, Spent, Charges, OwnCharge
    <3>2. <<o, r>> \in charged => OwnCharge(o) \/ OldCharge(o)
      BY DEF OwnCharge, OldCharge
    <3> QED  BY <2>1, <2>2, <2>3, <3>1, <3>2 DEF CreditCovers, One, Credit
  <2>4. CASE <<o, r>> \notin charged /\ charged' = charged \cup {<<o, r>>}
    <3>1. Spent(o)' = Spent(o) + 1
      BY <2>4, AddCharge DEF Spent, Charges, SharedLimit
    <3>2. Credit(o)' = Credit(o) + 1 /\ (OwnCharge(o)' => OwnCharge(o) \/ r = rev[o])
      BY <3>1, <2>1, <2>4 DEF Credit, OwnCharge
    <3> QED  BY <2>1, <2>2, <3>2 DEF CreditCovers, One, Credit
  <2> QED  BY <2>3, <2>4 DEF Charged
<1> QED  BY <1>1, <1>2 DEF ReplansArePaid

\* Children are born with the credit of their first plan.
LEMMA BirthPays ==
  ASSUME TypeOK, PaidInv, SeenInv, UNCHANGED <<rev, instructions, charged, seen>>,
         \A c \in Order : status'[c] = status[c]
                         \/ (status[c] = "absent" /\ status'[c] = "planning")
  PROVE  PaidInv'
<1> SUFFICES ASSUME NEW c \in Order PROVE CreditCovers(c)'
  BY DEF PaidInv, ReplansArePaid, SharedLimit
<1>0. CreditCovers(c) /\ SharedLimit
  BY DEF PaidInv, ReplansArePaid
<1>1. CASE status'[c] = status[c]
  BY <1>0, <1>1, UntouchedKeeps DEF Planning, Charges
<1>2. CASE status[c] = "absent"
  <2>1. rev[c] = 0 /\ ~SeenCharge(c)
    BY <1>2 DEF SeenInv, QuietOrders, HeldIsPast, SeenCharge, Born
  <2>2. Spent(c) \in Nat /\ instructions[c] \in Nat
    BY <1>0, NumberTypes
  <2>3. /\ Credit(c)' = Credit(c) /\ (OwnCharge(c)' <=> OwnCharge(c))
        /\ OldCharge(c)' <=> OldCharge(c)
        /\ ~SeenCharge(c)'
    BY <2>1 DEF Credit, Spent, Charges, OwnCharge, OldCharge, SeenCharge
  <2> QED  BY <1>0, <2>1, <2>2, <2>3 DEF CreditCovers, One, Credit
<1> QED  BY <1>1, <1>2

LEMMA InitPaid == Init => PaidInv
<1> SUFFICES ASSUME Init PROVE PaidInv
  OBVIOUS
<1>1. SharedLimit
  BY FS_EmptySet, LimitAssumption DEF Init, SharedLimit
<1>2. ASSUME NEW o \in Order PROVE CreditCovers(o)
  <2>1. Charges(o) = {} /\ ~OwnCharge(o) /\ ~OldCharge(o) /\ ~SeenCharge(o)
    BY DEF Init, Charges, OwnCharge, OldCharge, SeenCharge
  <2>2. Credit(o) = 1
    BY <2>1, FS_EmptySet DEF Init, Credit, Spent
  <2> QED  BY <2>1, <2>2 DEF CreditCovers, One
<1> QED  BY <1>1, <1>2 DEF PaidInv, ReplansArePaid

LEMMA PaidStep == StepInv /\ SeenInv /\ PaidInv /\ [Next]_vars => PaidInv'
<1> SUFFICES ASSUME StepInv, SeenInv, PaidInv, [Next]_vars PROVE PaidInv'
  OBVIOUS
<1>a. TypeOK /\ SharedLimit /\ ReplansArePaid
  BY DEF StepInv, PaidInv
<1>b. \A x \in seen : x[1] \in Order /\ x[2] \in Nat /\ x = <<x[1], x[2]>>
  BY <1>a DEF TypeOK
<1>c. \A o \in Order : rev[o] \in Nat
  BY <1>a DEF TypeOK
<1>0. CASE UNCHANGED vars
  BY <1>0, <1>a, QuietKeeps DEF vars, orderVars, Planning
<1>1. ASSUME NEW o \in Order, Runs(o) PROVE PaidInv'
  <2>1. ASSUME NEW p \in Plans[o], CreateWorkPlan(o, p) PROVE PaidInv'
    <3>1. /\ Planning(o) /\ ~Planning(o)' /\ rev'[o] = rev[o] + 1
          /\ \A c \in Order \ {o} : rev'[c] = rev[c] /\ status'[c] = status[c]
          /\ UNCHANGED <<charged, seen, instructions>>
      BY <2>1, <1>a DEF CreateWorkPlan, TypeOK, Planning
    <3>2. ASSUME NEW c \in Order \ {o} PROVE CreditCovers(c)'
      BY <3>1, <1>a, UntouchedKeeps DEF Planning, Charges, ReplansArePaid
    <3>3. CreditCovers(o)'
      <4>1. CreditCovers(o) /\ Spent(o) \in Nat /\ instructions[o] \in Nat /\ rev[o] \in Nat
        BY <1>a, NumberTypes DEF ReplansArePaid
      <4>2. Credit(o)' = Credit(o) - 1
        BY <3>1, <4>1 DEF Credit, Spent, Charges
      <4>3. ~OwnCharge(o)'
        <5>1. SUFFICES ASSUME <<o, rev[o] + 1>> \in charged PROVE FALSE
          BY <3>1 DEF OwnCharge
        <5>2. rev[o] + 1 <= rev[o]
          BY <5>1 DEF SeenInv, HeldIsPast
        <5> QED  BY <5>2, <4>1
      <4>4. OldCharge(o)' => SeenCharge(o)
        BY <3>1 DEF OldCharge, SeenCharge
      <4> QED  BY <3>1, <4>1, <4>2, <4>3, <4>4 DEF CreditCovers, One, Credit
    <3> QED  BY <3>1, <3>2, <3>3, <1>a DEF PaidInv, ReplansArePaid, SharedLimit
  <2>2. CASE LeafSucceeds(o) \/ VerifySplit(o)
    <3>1. /\ UNCHANGED <<rev, instructions, charged, seen>>
          /\ status'[o] \in {"blocked", "completed"}
          /\ \A c \in Order \ {o} : status'[c] = status[c]
      BY <2>2, <1>a DEF LeafSucceeds, VerifySplit, VerifyNonemptyResult, TypeOK
    <3> QED  BY <3>1, <1>a, QuietKeeps DEF Planning
  <2>3. CASE LeafFails(o) \/ TailFails(o)
    <3>1. /\ status[o] = "running" /\ UNCHANGED <<rev, instructions, seen>>
          /\ ReplanOrBlock(o, rev[o])
      BY <2>3 DEF LeafFails, TailFails
    <3>2. \A x \in seen : x[1] = o => x[2] # rev[o]
      BY <3>1 DEF SeenInv, SeenIsQuiet
    <3>3. /\ SharedLimit' /\ Charged(o, rev[o])
          /\ \A c \in Order \ {o} : status'[c] = status[c]
          /\ Planning(o)' => <<o, rev[o]>> \in charged'
      BY <3>1, <1>a, <1>c, ReplanLimit, ReplanTypes, ReplanCharges DEF Planning
    <3> QED  BY <3>1, <3>2, <3>3, <1>a, JudgedNowPays
  <2>4. ASSUME NEW ok \in BOOLEAN, RecordVerdict(o, ok) PROVE PaidInv'
    <3>1. /\ status[o] = "blocked" /\ UNCHANGED <<rev, instructions, seen>>
      BY <2>4 DEF RecordVerdict
    <3>2. CASE ReplanOrBlock(o, rev[o])
      <4>1. \A x \in seen : x[1] = o => x[2] # rev[o]
        BY <3>1 DEF SeenInv, SeenIsQuiet
      <4>2. /\ SharedLimit' /\ Charged(o, rev[o])
            /\ \A c \in Order \ {o} : status'[c] = status[c]
            /\ Planning(o)' => <<o, rev[o]>> \in charged'
        BY <3>1, <3>2, <1>a, <1>c, ReplanLimit, ReplanTypes, ReplanCharges DEF Planning
      <4> QED  BY <3>1, <4>1, <4>2, <1>a, JudgedNowPays
    <3>3. CASE status' = [status EXCEPT ![o] = "completed"] /\ UNCHANGED charged
      BY <3>1, <3>3, <1>a, QuietKeeps DEF Planning, TypeOK
    <3> QED  BY <2>4, <3>2, <3>3 DEF RecordVerdict
  <2>5. CASE ReclaimSplit(o)
    <3>1. stage[o] = "running" /\ UNCHANGED <<rev, instructions, seen>>
      BY <2>5 DEF ReclaimSplit
    <3>2. CASE ReplanOrBlockGuarded(o, rev[o])
      <4>1. \A x \in seen : x[1] = o => x[2] # rev[o]
        BY <3>1 DEF SeenInv, SeenIsQuiet
      <4>2. /\ SharedLimit' /\ Charged(o, rev[o])
            /\ \A c \in Order \ {o} : status'[c] = status[c]
            /\ Planning(o)' => Planning(o) \/ <<o, rev[o]>> \in charged'
        BY <3>2, <1>a, <1>c, ReplanLimit, ReplanTypes, ReplanCharges DEF Planning
      <4> QED  BY <3>1, <4>1, <4>2, <1>a, JudgedNowPays
    <3>3. CASE /\ status' = [status EXCEPT ![o] =
                    IF @ \in {"completed", "canceled"} THEN @ ELSE "running"]
               /\ UNCHANGED charged
      BY <3>1, <3>3, <1>a, QuietKeeps DEF Planning, TypeOK
    <3> QED  BY <2>5, <3>2, <3>3 DEF ReclaimSplit
  <2>6. CASE ClaimSplit(o) \/ SettleSplit(o) \/ CrashSplit(o) \/ TailSucceeds(o)
    <3>1. UNCHANGED <<status, rev, instructions, charged, seen>>
      BY <2>6 DEF ClaimSplit, SettleSplit, CrashSplit, TailSucceeds, orderVars
    <3> QED  BY <3>1, <1>a, QuietKeeps DEF Planning
  <2>7. CASE ExecuteDecompose(o)
    <3>1. plan[o] \in Spec /\ SpawnChildren(o, plan[o])
      BY <2>7 DEF ExecuteDecompose, StepInv, StepsHaveLists
    <3>2. UNCHANGED <<rev, instructions, charged, seen>>
      BY <2>7 DEF ExecuteDecompose
    <3>3. \A c \in Order : status'[c] = status[c]
                          \/ (status[c] = "absent" /\ status'[c] = "planning")
      BY <3>1, <1>a, SpawnTypes
    <3> QED  BY <3>2, <3>3, <1>a, BirthPays
  <2>8. CASE EnterWaitingForChildren(o)
    <3>1. /\ UNCHANGED <<rev, instructions, charged, seen>>
          /\ \A c \in Order : Planning(c)' => Planning(c)
      BY <2>8, <1>a DEF EnterWaitingForChildren, Planning, TypeOK
    <3> QED  BY <3>1, <1>a, QuietKeeps
  <2>9. CASE AddInstruction(o)
    <3>1. /\ UNCHANGED <<rev, charged, seen>>
          /\ instructions'[o] = instructions[o] + 1
          /\ \A c \in Order \ {o} : instructions'[c] = instructions[c] /\ status'[c] = status[c]
      BY <2>9, <1>a DEF AddInstruction, TypeOK
    <3>2. ASSUME NEW c \in Order \ {o} PROVE CreditCovers(c)'
      BY <3>1, <1>a, UntouchedKeeps DEF Planning, Charges, ReplansArePaid
    <3>3. CreditCovers(o)'
      <4>1. CreditCovers(o) /\ Spent(o) \in Nat /\ instructions[o] \in Nat /\ rev[o] \in Nat
        BY <1>a, NumberTypes DEF ReplansArePaid
      <4>2. Credit(o)' = Credit(o) + 1
        BY <3>1, <4>1 DEF Credit, Spent, Charges
      <4>3. /\ OwnCharge(o)' <=> OwnCharge(o)
            /\ OldCharge(o)' <=> OldCharge(o)
            /\ SeenCharge(o)' <=> SeenCharge(o)
        BY <3>1 DEF OwnCharge, OldCharge, SeenCharge
      <4>4. SeenCharge(o) => OwnCharge(o) \/ OldCharge(o)
        BY <1>b DEF SeenCharge, OwnCharge, OldCharge
      <4> QED  BY <4>1, <4>2, <4>3, <4>4 DEF CreditCovers, One, Credit
    <3> QED  BY <3>1, <3>2, <3>3, <1>a DEF PaidInv, ReplansArePaid, SharedLimit
  <2>10. CASE CancelWorkOrder(o)
    <3>1. /\ UNCHANGED <<rev, instructions, charged, seen>>
          /\ \A c \in Order : Planning(c)' => Planning(c)
      BY <2>10, <1>a DEF CancelWorkOrder, Planning
    <3> QED  BY <3>1, <1>a, QuietKeeps
  <2> QED
    BY <1>1, <2>1, <2>2, <2>3, <2>4, <2>5, <2>6, <2>7, <2>8, <2>9, <2>10 DEF Runs
<1>2. ASSUME NEW y \in Order \X Spec, ExecuteDecomposeLate(y[1], y[2]) PROVE PaidInv'
  <2>1. /\ \A c \in Order : status'[c] = status[c]
                            \/ (status[c] = "absent" /\ status'[c] = "planning")
        /\ UNCHANGED <<rev, instructions, charged, seen>>
    BY <1>2, <1>a, SpawnTypes DEF ExecuteDecomposeLate
  <2> QED  BY <2>1, <1>a, BirthPays
<1>3. CASE PromoteRead
  <2>1. /\ UNCHANGED <<status, rev, instructions, charged>>
        /\ seen' = {<<o, rev[o]>> : o \in {p \in Order : status[p] = "waiting_external"}}
    BY <1>3 DEF PromoteRead, orderVars
  <2>2. ASSUME NEW c \in Order PROVE CreditCovers(c)'
    <3>1. CreditCovers(c) /\ Spent(c) \in Nat /\ instructions[c] \in Nat /\ rev[c] \in Nat
      BY <1>a, NumberTypes DEF ReplansArePaid
    <3>2. ~OldCharge(c)' /\ (SeenCharge(c)' => ~Planning(c)')
      BY <2>1 DEF OldCharge, SeenCharge, Planning
    <3>3. /\ Credit(c)' = Credit(c) /\ (OwnCharge(c)' <=> OwnCharge(c))
          /\ Planning(c)' <=> Planning(c)
      BY <2>1 DEF Credit, Spent, Charges, OwnCharge, Planning
    <3> QED  BY <3>1, <3>2, <3>3 DEF CreditCovers, One, Credit
  <2> QED  BY <2>1, <2>2, <1>a DEF PaidInv, ReplansArePaid, SharedLimit
<1>4. CASE PromoteAborts
  BY <1>4, <1>a, QuietKeeps DEF PromoteAborts, orderVars, Planning
<1>5. ASSUME NEW x \in seen, PromoteParent(x) PROVE PaidInv'
  <2>1. x[1] \in Order /\ x[2] \in Nat /\ x = <<x[1], x[2]>>
    BY <1>b
  <2>2. UNCHANGED <<rev, instructions>> /\ seen' = seen \ {x}
    BY <1>5 DEF PromoteParent
  <2>3. CASE VerifyNonemptyResult(x[1], x[2], FALSE) /\ ReplanOrBlock(x[1], x[2])
    <3>1. /\ SharedLimit' /\ Charged(x[1], x[2])
          /\ \A c \in Order \ {x[1]} : status'[c] = status[c]
          /\ Planning(x[1])' => Planning(x[1]) \/ <<x[1], x[2]>> \in charged'
      BY <2>1, <2>3, <1>a, ReplanLimit, ReplanTypes, ReplanCharges DEF Planning
    <3>2. \A y \in seen' : y[1] # x[1]
      BY <2>2 DEF SeenInv, HeldIsPast
    <3> QED  BY <2>1, <2>2, <3>1, <3>2, <1>a, JudgedByTickPays
  <2>4. CASE UNCHANGED charged /\ \A c \in Order : Planning(c)' => Planning(c)
    BY <2>2, <2>4, <1>a, QuietKeeps
  <2>5. \/ VerifyNonemptyResult(x[1], x[2], FALSE) /\ ReplanOrBlock(x[1], x[2])
        \/ UNCHANGED charged /\ \A c \in Order : Planning(c)' => Planning(c)
    <3>1. CASE UNCHANGED <<status, awaiting, charged>>
      BY <3>1 DEF Planning
    <3>2. CASE VerifyNonemptyResult(x[1], x[2], ChildrenSucceeded(x[1]))
      <4>1. CASE ReplanOrBlock(x[1], x[2]) /\ ~ChildrenSucceeded(x[1]) /\ x[1] \notin Semantic
                 /\ UNCHANGED awaiting
        BY <4>1 DEF VerifyNonemptyResult
      <4>2. CASE ~(ReplanOrBlock(x[1], x[2]) /\ ~ChildrenSucceeded(x[1]) /\ x[1] \notin Semantic
                   /\ UNCHANGED awaiting)
        BY <3>2, <4>2, <2>1, <1>a DEF VerifyNonemptyResult, Planning, TypeOK
      <4> QED  BY <4>1, <4>2
    <3> QED  BY <1>5, <3>1, <3>2 DEF PromoteParent
  <2> QED  BY <2>3, <2>4, <2>5
<1> QED  BY <1>0, <1>1, <1>2, <1>3, <1>4, <1>5 DEF Next

-----------------------------------------------------------------------------
(* The theorems.                                                           *)

IInv == StepInv /\ ChildrenInv /\ SeenInv /\ PaidInv /\ AwaitingInv

LEMMA AwaitingStep == StepInv /\ SeenInv /\ AwaitingInv /\ [Next]_vars => AwaitingInv'
<1> SUFFICES ASSUME StepInv, SeenInv, AwaitingInv, [Next]_vars PROVE AwaitingInv'
  OBVIOUS
<1>a. TypeOK
  BY DEF StepInv
<1>0. CASE awaiting' \subseteq awaiting
  BY <1>0 DEF AwaitingInv
<1>1. ASSUME NEW o \in Order, Runs(o) PROVE AwaitingInv'
  <2>1. CASE LeafSucceeds(o) \/ VerifySplit(o)
    BY <2>1, <1>a, VerifyTypes DEF LeafSucceeds, VerifySplit, TypeOK
  <2>2. CASE ~(LeafSucceeds(o) \/ VerifySplit(o))
    BY <1>1, <2>2, <1>0 DEF Runs, CreateWorkPlan, LeafFails, TailFails, ClaimSplit,
       ExecuteDecompose, SettleSplit, CrashSplit, ReclaimSplit, TailSucceeds,
       EnterWaitingForChildren, RecordVerdict, AddInstruction, CancelWorkOrder, orderVars
  <2> QED  BY <2>1, <2>2
<1>2. CASE \E x \in Order \X Spec : ExecuteDecomposeLate(x[1], x[2])
  BY <1>2, <1>0 DEF ExecuteDecomposeLate
<1>3. CASE PromoteRead \/ PromoteAborts \/ UNCHANGED vars
  BY <1>3, <1>0 DEF PromoteRead, PromoteAborts, vars, orderVars
<1>4. ASSUME NEW x \in seen, PromoteParent(x) PROVE AwaitingInv'
  <2>1. x[1] \in Order /\ x[2] \in Nat /\ ChildrenSucceeded(x[1]) \in BOOLEAN
    BY <1>a DEF TypeOK, ChildrenSucceeded
  <2> QED  BY <1>4, <2>1, <1>a, <1>0, VerifyTypes DEF PromoteParent
<1> QED  BY <1>1, <1>2, <1>3, <1>4 DEF Next

\* The inductive invariant holds of every reachable state.
THEOREM Invariance == FamilySpec => []IInv
<1>1. Init => IInv
  BY InitStep, InitSeen, InitPaid DEF IInv
<1>2. IInv /\ [Next]_vars => IInv'
  BY StepsKeepSteps, ChildrenKeep, SeenStep, PaidStep, AwaitingStep DEF IInv
<1> QED  BY <1>1, <1>2, PTL DEF FamilySpec

\* Orders, plans, processes and the tick's memory are well typed in every
\* reachable state: no decompose step passes its limit of attempts.
THEOREM TypeCorrect == FamilySpec => []TypeOK
<1>1. IInv => TypeOK
  BY DEF IInv, StepInv
<1> QED  BY <1>1, Invariance, PTL

\* The children of a list are created at most once, whatever processes of its
\* step crash, stall and are overtaken.
THEOREM BroodsAreSpawnedOnce == FamilySpec => []BroodSpawnedOnce
<1>1. IInv => BroodSpawnedOnce
  BY DEF IInv, ChildrenInv, BroodIsBorn, BroodSpawnedOnce
<1> QED  BY <1>1, Invariance, PTL

\* A parent never waits for nobody.
THEOREM WaitingParentsHaveChildren == FamilySpec => []WaitingHasChildren
<1>1. IInv => WaitingHasChildren
  BY DEF IInv, ChildrenInv
<1> QED  BY <1>1, Invariance, PTL

\* The replans of a family are paid for, although the tick judges revisions
\* that are no longer at hand.
THEOREM ReplansArePaidFor == FamilySpec => []FamilyReplansArePaidFor
<1>1. IInv => FamilyReplansArePaidFor
  <2> SUFFICES ASSUME IInv PROVE FamilyReplansArePaidFor
    OBVIOUS
  <2>1. Cardinality(charged) <= LedgerReplans
    BY DEF IInv, PaidInv, SharedLimit
  <2>2. ASSUME NEW o \in Order PROVE rev[o] <= 1 + Spent(o) + instructions[o]
    <3>1. Spent(o) \in Nat /\ instructions[o] \in Nat /\ rev[o] \in Nat
      BY NumberTypes DEF IInv, StepInv, PaidInv
    <3>2. Credit(o) >= 0
      BY <3>1 DEF IInv, PaidInv, ReplansArePaid, CreditCovers, One, Credit
    <3> QED  BY <3>1, <3>2 DEF Credit
  <2> QED  BY <2>1, <2>2 DEF FamilyReplansArePaidFor, Spent, Charges
<1> QED  BY <1>1, Invariance, PTL

-----------------------------------------------------------------------------

\* The children of an order are orders that exist.
LEMMA ChildrenAreOrders ==
  ASSUME NEW p \in Order, NEW c \in Children(p)
  PROVE  c \in Order /\ status[c] # "absent"
<1>1. PICK v \in Spec : c \in Brood[<<p, v>>] /\ status[c] # "absent"
  BY DEF Children
<1> QED  BY <1>1, FamilyAssumption

\* Whom a cancellation reaches: the order, and every unfinished child of one it
\* reaches.
LEMMA CancellationIsClosed ==
  ASSUME NEW o \in Order, NEW p \in CanceledWith(o), NEW c \in Children(p), CanBeCanceled(c)
  PROVE  c \in CanceledWith(o)
<1>1. c \in Order
  BY ChildrenAreOrders DEF CanceledWith
<1>2. ASSUME NEW S \in SUBSET Order, o \in S,
             \A q \in S : {d \in Children(q) : CanBeCanceled(d)} \subseteq S
      PROVE  c \in S
  <2>1. p \in S
    BY <1>2 DEF CanceledWith
  <2> QED  BY <2>1, <1>2
<1> QED  BY <1>1, <1>2 DEF CanceledWith

\* No step but a cancellation cancels.
LEMMA OnlyCancellationCancels ==
  ASSUME StepInv, [Next]_vars, NEW p \in Order,
         status[p] # "canceled", status'[p] = "canceled"
  PROVE  \E o \in Order : CancelWorkOrder(o)
<1> SUFFICES ASSUME \A o \in Order : ~CancelWorkOrder(o) PROVE FALSE
  OBVIOUS
<1>a. TypeOK
  BY DEF StepInv
<1>b. status' # status
  OBVIOUS
<1>1. ASSUME NEW o \in Order, Runs(o) PROVE FALSE
  <2>0. rev[o] \in Nat
    BY <1>a DEF TypeOK
  <2>1. CASE LeafSucceeds(o) \/ VerifySplit(o)
    BY <2>1, <2>0, <1>a, VerifyTypes DEF LeafSucceeds, VerifySplit
  <2>2. CASE LeafFails(o) \/ TailFails(o)
    BY <2>2, <2>0, <1>a, ReplanTypes DEF LeafFails, TailFails
  <2>3. CASE ReclaimSplit(o)
    BY <2>3, <2>0, <1>a, ReplanTypes DEF ReclaimSplit, TypeOK
  <2>4. ASSUME NEW ok \in BOOLEAN, RecordVerdict(o, ok) PROVE FALSE
    BY <2>4, <2>0, <1>a, ReplanTypes DEF RecordVerdict, TypeOK
  <2>5. CASE ExecuteDecompose(o)
    <3>1. plan[o] \in Spec
      BY <2>5 DEF ExecuteDecompose, StepInv, StepsHaveLists
    <3> QED  BY <2>5, <3>1, <1>a, SpawnTypes DEF ExecuteDecompose
  <2>6. ASSUME NEW q \in Plans[o], CreateWorkPlan(o, q) PROVE FALSE
    BY <2>6, <1>a DEF CreateWorkPlan, TypeOK
  <2>7. CASE EnterWaitingForChildren(o) \/ AddInstruction(o)
    BY <2>7, <1>a DEF EnterWaitingForChildren, AddInstruction, TypeOK
  <2>8. CASE ClaimSplit(o) \/ SettleSplit(o) \/ CrashSplit(o) \/ TailSucceeds(o)
    BY <2>8, <1>b DEF ClaimSplit, SettleSplit, CrashSplit, TailSucceeds, orderVars
  <2> QED  BY <1>1, <2>1, <2>2, <2>3, <2>4, <2>5, <2>6, <2>7, <2>8 DEF Runs
<1>2. ASSUME NEW x \in Order \X Spec, ExecuteDecomposeLate(x[1], x[2]) PROVE FALSE
  BY <1>2, <1>a, SpawnTypes DEF ExecuteDecomposeLate
<1>3. CASE PromoteRead \/ PromoteAborts \/ UNCHANGED vars
  BY <1>3, <1>b DEF PromoteRead, PromoteAborts, vars, orderVars
<1>4. ASSUME NEW x \in seen, PromoteParent(x) PROVE FALSE
  <2>1. x[1] \in Order /\ x[2] \in Nat /\ ChildrenSucceeded(x[1]) \in BOOLEAN
    BY <1>a DEF TypeOK, ChildrenSucceeded
  <2> QED  BY <1>4, <2>1, <1>a, <1>b, VerifyTypes DEF PromoteParent
<1> QED  BY <1>1, <1>2, <1>3, <1>4 DEF Next

\* A cancellation leaves no unfinished child behind, at any depth.
THEOREM CancellationTakesChildren == FamilySpec => CancelTakesChildren
<1>1. IInv /\ [Next]_vars =>
        [\A o \in Order : status[o] # "canceled" /\ status'[o] = "canceled" =>
           \A c \in Children(o) : status'[c] \in {"completed", "canceled"}]_vars
  <2> SUFFICES ASSUME IInv, [Next]_vars, NEW p \in Order,
                      status[p] # "canceled", status'[p] = "canceled", NEW c \in Children(p)
               PROVE  status'[c] \in {"completed", "canceled"}
    OBVIOUS
  <2>1. PICK o \in Order : CancelWorkOrder(o)
    BY OnlyCancellationCancels DEF IInv
  <2>2. status' = [d \in Order |-> IF d \in CanceledWith(o) THEN "canceled" ELSE status[d]]
    BY <2>1 DEF CancelWorkOrder
  <2>3. p \in CanceledWith(o)
    BY <2>2
  <2>4. c \in Order /\ status[c] # "absent"
    BY ChildrenAreOrders
  <2>5. CASE CanBeCanceled(c)
    BY <2>2, <2>3, <2>4, <2>5, CancellationIsClosed
  <2>6. CASE ~CanBeCanceled(c)
    BY <2>2, <2>4, <2>6 DEF CanBeCanceled
  <2> QED  BY <2>5, <2>6
<1> QED  BY <1>1, Invariance, PTL DEF FamilySpec, CancelTakesChildren

\* A parent that was only decomposed is completed on a child that completed,
\* in families of any depth.
THEOREM CompletionNeedsAChild == FamilySpec => CompletedOnAChild
<1>1. IInv /\ [Next]_vars =>
        [\A o \in Order \ Semantic :
           /\ status[o] # "completed" /\ status'[o] = "completed"
           /\ plan[o] \in Spec \ Tailed /\ Brood[<<o, plan[o]>>] # {}
           => \E c \in Children(o) : status[c] = "completed"]_vars
  <2> SUFFICES ASSUME IInv, [Next]_vars, NEW p \in Order \ Semantic,
                      status[p] # "completed", status'[p] = "completed",
                      plan[p] \in Spec \ Tailed, Brood[<<p, plan[p]>>] # {}
               PROVE  \E c \in Children(p) : status[c] = "completed"
    OBVIOUS
  <2>a. TypeOK
    BY DEF IInv, StepInv
  <2>b. status' # status
    OBVIOUS
  <2>1. ASSUME NEW o \in Order, Runs(o) PROVE FALSE
    <3>0. rev[o] \in Nat
      BY <2>a DEF TypeOK
    <3>1. CASE LeafSucceeds(o)
      <4>1. p = o
        BY <3>0, <3>1, <2>a, VerifyTypes DEF LeafSucceeds
      <4> QED  BY <3>1, <4>1, FamilyAssumption DEF LeafSucceeds
    <3>2. CASE VerifySplit(o)
      <4>1. p = o
        BY <3>0, <3>2, <2>a, VerifyTypes DEF VerifySplit
      <4> QED  BY <3>2, <4>1 DEF VerifySplit, SpawnedSomething
    <3>3. CASE LeafFails(o) \/ TailFails(o)
      BY <3>3, <3>0, <2>a, ReplanTypes DEF LeafFails, TailFails
    <3>4. CASE ReclaimSplit(o)
      BY <3>4, <3>0, <2>a, ReplanTypes DEF ReclaimSplit, TypeOK
    <3>5. ASSUME NEW ok \in BOOLEAN, RecordVerdict(o, ok) PROVE FALSE
      <4>1. o \in Semantic
        BY <3>5 DEF RecordVerdict, IInv, AwaitingInv
      <4> QED  BY <3>5, <4>1, <3>0, <2>a, ReplanTypes DEF RecordVerdict, TypeOK
    <3>6. CASE ExecuteDecompose(o)
      <4>1. plan[o] \in Spec
        BY <3>6 DEF ExecuteDecompose, IInv, StepInv, StepsHaveLists
      <4> QED  BY <3>6, <4>1, <2>a, SpawnTypes DEF ExecuteDecompose
    <3>7. ASSUME NEW q \in Plans[o], CreateWorkPlan(o, q) PROVE FALSE
      BY <3>7, <2>a DEF CreateWorkPlan, TypeOK
    <3>8. CASE EnterWaitingForChildren(o) \/ AddInstruction(o)
      BY <3>8, <2>a DEF EnterWaitingForChildren, AddInstruction, TypeOK
    <3>9. CASE CancelWorkOrder(o)
      BY <3>9, <2>a DEF CancelWorkOrder, TypeOK
    <3>10. CASE ClaimSplit(o) \/ SettleSplit(o) \/ CrashSplit(o) \/ TailSucceeds(o)
      BY <3>10, <2>b DEF ClaimSplit, SettleSplit, CrashSplit, TailSucceeds, orderVars
    <3> QED
      BY <2>1, <3>1, <3>2, <3>3, <3>4, <3>5, <3>6, <3>7, <3>8, <3>9, <3>10 DEF Runs
  <2>2. ASSUME NEW x \in Order \X Spec, ExecuteDecomposeLate(x[1], x[2]) PROVE FALSE
    BY <2>2, <2>a, SpawnTypes DEF ExecuteDecomposeLate
  <2>3. CASE PromoteRead \/ PromoteAborts \/ UNCHANGED vars
    BY <2>3, <2>b DEF PromoteRead, PromoteAborts, vars, orderVars
  <2>4. ASSUME NEW x \in seen, PromoteParent(x)
        PROVE  \E c \in Children(p) : status[c] = "completed"
    <3>1. x[1] \in Order /\ x[2] \in Nat /\ ChildrenSucceeded(x[1]) \in BOOLEAN
      BY <2>a DEF TypeOK, ChildrenSucceeded
    <3>2. VerifyNonemptyResult(x[1], x[2], ChildrenSucceeded(x[1]))
      BY <2>4, <2>b DEF PromoteParent
    <3>3. p = x[1]
      BY <3>1, <3>2, <2>a, VerifyTypes
    <3>4. ChildrenSucceeded(p)
      <4>1. SUFFICES ASSUME ~ChildrenSucceeded(p) PROVE FALSE
        OBVIOUS
      <4>2. ReplanOrBlock(p, x[2])
        BY <3>2, <3>3, <4>1 DEF VerifyNonemptyResult
      <4> QED  BY <4>2, <2>a DEF ReplanOrBlock, TypeOK
    <3> QED  BY <3>4 DEF ChildrenSucceeded
  <2> QED  BY <2>1, <2>2, <2>3, <2>4 DEF Next
<1> QED  BY <1>1, Invariance, PTL DEF FamilySpec, CompletedOnAChild
=============================================================================
