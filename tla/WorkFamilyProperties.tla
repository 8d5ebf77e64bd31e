------------------------ MODULE WorkFamilyProperties ------------------------
(***************************************************************************)
(* What a family of orders promises: invariants, action and liveness       *)
(* properties, each with the code or document it comes from.               *)
(***************************************************************************)
EXTENDS WorkFamily

Active == {"planning", "replanning", "running", "waiting_external"}

\* A list's children are created once, whichever processes of the step came to
\* create them: retries after a crash, and those that had lost their lease
\* (decompose_spec_digest in _execute_decompose).
BroodSpawnedOnce == \A x \in Order \X Spec : broods[x] <= 1

\* A waiting parent has somebody to wait for: promote_waiting_parents skips a
\* parent without children, so it would wait forever (verify_completed_step).
WaitingHasChildren ==
  \A o \in Order : status[o] = "waiting_external" => Children(o) # {}

\* A parent whose plan was nothing but a decomposition is completed on the
\* strength of a child that completed; "all children failed" is no result,
\* however late or stale the tick was (promote_waiting_parents).
CompletedOnAChild ==
  [][\A o \in Order \ Semantic :
       /\ status[o] # "completed" /\ status'[o] = "completed"
       /\ plan[o] \in Spec \ Tailed /\ Brood[<<o, plan[o]>>] # {}
       => \E c \in Children(o) : status[c] = "completed"]_vars

\* E21: the replans of a whole family come out of one allowance: no order has
\* more revisions than it was charged for or told to make, and together they
\* never exceed the shared limit (charge_replan_in_transaction).
FamilyReplansArePaidFor ==
  /\ Cardinality(charged) <= LedgerReplans
  /\ \A o \in Order :
       rev[o] <= 1 + Cardinality({x \in charged : x[1] = o}) + instructions[o]

\* E24: a cancellation takes the children with it: at the moment a parent is
\* canceled none of its children is left unfinished (cancel_work_order).
CancelTakesChildren ==
  [][\A o \in Order : status[o] # "canceled" /\ status'[o] = "canceled" =>
       \A c \in Children(o) : status'[c] \in {"completed", "canceled"}]_vars

-----------------------------------------------------------------------------
(* Promises the code does not keep; the README lists them.                 *)

\* cancel_work_order: no child goes on under a canceled parent "for work
\* nobody wanted any more".
CanceledFamilyIsQuiet ==
  \A o \in Order : status[o] = "canceled" =>
    \A c \in Children(o) : status[c] \notin Active

-----------------------------------------------------------------------------
(* Fairness: Celery beat runs the dispatch tick every 5 s; planners, steps,
   verifications and reclaim are queued by it; a process that is alive goes
   on.  People, verdicts and crashes owe nothing. *)
Fairness ==
  /\ \A o \in Order :
       /\ WF_vars(\E p \in Plans[o] : CreateWorkPlan(o, p))
       /\ WF_vars(LeafSucceeds(o) \/ LeafFails(o))
       /\ WF_vars(ClaimSplit(o)) /\ WF_vars(ExecuteDecompose(o))
       /\ WF_vars(SettleSplit(o))
       /\ WF_vars(ReclaimSplit(o) /\ worker[o] = "none")
       /\ WF_vars(TailSucceeds(o) \/ TailFails(o))
       /\ WF_vars(EnterWaitingForChildren(o) \/ VerifySplit(o))
  /\ WF_vars(PromoteRead) /\ WF_vars(PromoteAborts)
  /\ WF_vars(\E x \in seen : PromoteParent(x))

FairFamilySpec == FamilySpec /\ Fairness

\* Some parent's wake-up raises, and no tick of anybody's succeeds.
TickIsWedged ==
  \E o \in Order : status[o] = "waiting_external" /\ ChildrenAtRest(o)
                   /\ Cardinality(splits[o]) > 1

\* No order of the family is forgotten: each comes to rest, unless the tick
\* is wedged (_dispatch_ready_work).
FamilyRests ==
  \A o \in Order : status[o] \in Active ~> (status[o] \notin Active \/ TickIsWedged)

\* The operator guide: a parent waits until its last child has ended, and no
\* longer.
ParentsWake ==
  \A o \in Order : (status[o] = "waiting_external" /\ ChildrenAtRest(o))
                   ~> (status[o] # "waiting_external")
=============================================================================
