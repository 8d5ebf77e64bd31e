------------------------ MODULE ImageGenerationProofs ------------------------
(***************************************************************************)
(* Proofs about the image studio, for any number of generations, retries    *)
(* and killed workers.                                                      *)
(***************************************************************************)
EXTENDS ImageGenerationProperties, TLAPS

SlotInv == slot = NoGen <=> at = "idle"

\* What can still bring a generation to an end: at most one message, or task.
Tokens(g) == messages[g] + lost[g] + (IF slot = g THEN 1 ELSE 0)
TokenInv == \A g \in Gen : Tokens(g) <= 1

\* There is no job without its generation, and nothing at all before it.
RowInv ==
  \A g \in Gen : /\ ~Exists(g) => job[g] = Gone
                 /\ gen[g] = "absent" => Tokens(g) = 0 /\ request[g].kind = "none"

\* A job that waits for its first turn, or its next, has a generation that does.
QueuedInv ==
  \A g \in Gen : /\ job[g] = "queued" => gen[g] \in {"queued", "running"}
                 /\ job[g] # "cancel_requested"

\* A failed job is at rest with its generation, unless it is being retried; a
\* failed generation with its job, or with a cancellation that came too late.
FailedInv ==
  \A g \in Gen :
    /\ job[g] = "failed" /\ request[g].kind # "retry" => gen[g] = "failed" /\ Tokens(g) = 0
    /\ gen[g] = "failed" => \/ job[g] \in {"failed", Gone}
                            \/ job[g] = "cancelled" /\ Tokens(g) = 0

\* Between the reads of a retry and its commit the job stays failed, and a task
\* that took its message has nothing to show yet.
RetryInv ==
  \A g \in Gen : request[g].kind = "retry" =>
    /\ request[g].gen = "failed" /\ retries[g] < MaxRetries
    /\ \/ job[g] = Gone /\ ~Exists(g)
       \/ job[g] = "failed" /\ gen[g] \in {"failed", "queued", "running"}
    /\ messages[g] > 0 /\ tries[g] = 0 => gen[g] \in {"failed", "deleted"}
    /\ slot = g => at \notin {"produced", "uploaded", "storing", "acking"}
    /\ slot = g /\ at = "starting" => seen.job = "failed"

\* A cancellation that read a cancelled generation does not find it revived.
CancelInv ==
  \A g \in Gen :
    request[g].kind \in {"cancel", "interrupt"} /\ request[g].gen = "cancelled" =>
      /\ \/ gen[g] \in {"cancelled", "deleted"}
         \/ gen[g] = "failed" /\ Tokens(g) = 0
      /\ ~(slot = g /\ at = "starting")
      /\ slot = g /\ at \in {"uploaded", "storing"} => gen[g] = "deleted"

\* What becomes of the rows between a task's reads and its first commit.
StartingInv ==
  at = "starting" =>
    /\ seen.gen \notin {"absent", "deleted", "cancelled"} /\ seen.job # "cancelled"
    /\ seen.gen = "failed" => seen.job \in {"failed", Gone}
    /\ seen.job = "failed" => seen.gen = "failed"
    /\ \/ gen[slot] \in {seen.gen, "cancelled", "deleted"}
       \/ seen.job = "failed" /\ gen[slot] = "queued"
    /\ \/ job[slot] \in {seen.job, "cancelled", Gone}
       \/ seen.job = "failed" /\ job[slot] = "queued"
    /\ seen.job = Gone => job[slot] = Gone
    /\ gen[slot] = "cancelled" => job[slot] \in {"cancelled", Gone}

\* A cancellation that comes after the task's last look for one has both rows.
StoringInv ==
  at \in {"uploaded", "storing"} =>
    /\ gen[slot] = "cancelled" => job[slot] \in {"cancelled", Gone}
    /\ at = "storing" => seen.gen \notin {"absent", "deleted", "cancelled"}

\* A task acknowledges its message when both rows have ended, or are gone.
AckInv ==
  at = "acking" => \/ job[slot] = Gone
                   \/ gen[slot] \in Ended /\ job[slot] \in FINAL_STATUSES

IInv ==
  /\ TypeOK /\ SlotInv /\ TokenInv /\ RowInv /\ QueuedInv /\ FailedInv /\ RetryInv
  /\ CancelInv /\ StartingInv /\ StoringInv /\ AckInv
  /\ FinishedTogether /\ RunningIsReachable

-----------------------------------------------------------------------------

\* Every step keeps the types.
LEMMA StepTypes ==
  ASSUME TypeOK, SlotInv, RetryInv, [Next]_vars
  PROVE  TypeOK'
<1>1. ASSUME NEW g \in Gen, Generate(g) PROVE TypeOK'
  <2>1. gen' \in [Gen -> GenStatus] /\ job' \in [Gen -> JobStatus \cup {Gone}]
    BY <1>1 DEF TypeOK, Generate, GenStatus, JobStatus, Put
  <2>2. messages' \in [Gen -> Nat]
    BY <1>1 DEF Generate, Send, TypeOK, Put
  <2>3. UNCHANGED <<retries, request, lost, tries, revoked, slotVars, faultVars>>
    BY <1>1 DEF Generate
  <2> QED
    BY <2>1, <2>2, <2>3 DEF TypeOK, slotVars, faultVars
<1>2. ASSUME NEW g \in Gen, CancelJob(g) PROVE TypeOK'
  BY <1>2 DEF TypeOK, Gone, Request, CancelJob, Asks, PENDING_STATUSES, Put,
     rowVars, slotVars, faultVars
<1>3. ASSUME NEW g \in Gen, RetryJob(g) PROVE TypeOK'
  BY <1>3, GenerationAssumption DEF TypeOK, Request, RetryJob, Asks, Send, Put,
     rowVars, slotVars, faultVars
<1>4. ASSUME NEW g \in Gen, DeleteGeneration(g) PROVE TypeOK'
  BY <1>4 DEF TypeOK, GenStatus, Gone, DeleteGeneration, Put, queueVars, slotVars,
     faultVars
<1>5. ASSUME NEW g \in Gen, Interrupt(g) PROVE TypeOK'
  BY <1>5 DEF TypeOK, Gone, Stage, Request, Interrupt, rowVars, queueVars, faultVars
<1>6. ASSUME NEW g \in Gen, Commit(g) PROVE TypeOK'
  <2>1. gen' \in [Gen -> GenStatus] /\ job' \in [Gen -> JobStatus \cup {Gone}]
    BY <1>6 DEF TypeOK, Commit, Overwrite, GenStatus, Ended, JobStatus, Put, rowVars
  <2>2. retries' \in [Gen -> 0..MaxRetries]
    BY <1>6, GenerationAssumption DEF TypeOK, RetryInv, Commit, Put, rowVars
  <2>3. request' \in [Gen -> Request]
    BY <1>6 DEF TypeOK, Commit, Request, NoRequest, GenStatus, Put
  <2>4. UNCHANGED <<queueVars, slotVars, faultVars>>
    BY <1>6 DEF Commit
  <2> QED
    BY <2>1, <2>2, <2>3, <2>4 DEF TypeOK, queueVars, slotVars, faultVars
<1>7. ASSUME NEW g \in Gen, Enter(g) PROVE TypeOK'
  <2>1. gen' \in [Gen -> GenStatus] /\ job' \in [Gen -> JobStatus \cup {Gone}]
    BY <1>7 DEF TypeOK, Enter, Mark, MarkFinal, GenStatus, Ended, JobStatus, Put
  <2>2. slot' \in Gen \cup {NoGen} /\ at' \in Stage /\ seen' \in Rows
    BY <1>7 DEF TypeOK, Enter, Stage, Rows, slotVars
  <2>3. messages' \in [Gen -> Nat]
    BY <1>7 DEF Enter, TypeOK, Put
  <2>4. UNCHANGED <<retries, request, lost, tries, revoked, faultVars>>
    BY <1>7 DEF Enter
  <2> QED
    BY <2>1, <2>2, <2>3, <2>4 DEF TypeOK, faultVars
<1>8. ASSUME NEW g \in Gen, Discard(g) PROVE TypeOK'
  BY <1>8 DEF TypeOK, NoRows, GenStatus, JobStatus, Request, Ended, Discard, Put,
     rowVars, slotVars
<1>9. ASSUME NEW g \in Gen, RestoreLost(g) PROVE TypeOK'
  BY <1>9 DEF TypeOK, Gone, RestoreLost, Send, Put, rowVars, slotVars, faultVars
<1>10. CASE BulkCancelPending
  BY <1>10 DEF TypeOK, JobStatus, Gone, BulkCancelPending, BulkCancel,
     PENDING_STATUSES, queueVars, slotVars, faultVars
<1>11. CASE CleanupTerminalJobs
  BY <1>11 DEF TypeOK, Gone, CleanupTerminalJobs, Cleanup, CLEANUP_STATUSES,
     queueVars, slotVars, faultVars
<1>12. CASE StartFails
  BY <1>12 DEF TypeOK, NoRows, GenStatus, JobStatus, Stage, Rows, Request, Ended,
     StartFails, Stale, Leave, rowVars, queueVars, faultVars
<1>13. CASE NoWorkflow
  BY <1>13 DEF TypeOK, NoRows, GenStatus, JobStatus, Stage, Rows, Request, Ended,
     NoWorkflow, WriteBack, Stale, Overwrite, JobFails, MarkFinal, Leave, Put,
     queueVars, faultVars
<1>14. CASE Wait
  BY <1>14, GenerationAssumption DEF TypeOK, NoRows, GenStatus, JobStatus, Stage,
     Rows, Request, Ended, SlotInv, RetryInv, Wait, WriteBack, Stale, Overwrite,
     Exists, JobWaits, MarkUnlessFinal, RetriesLeft, Again, NextTry, Send, Leave,
     Put, faultVars
<1>15. CASE Start
  BY <1>15 DEF TypeOK, NoRows, GenStatus, JobStatus, Stage, Request, Ended, Start,
     WriteBack, Stale, Overwrite, JobRuns, MarkUnlessFinal, Put, queueVars, faultVars
<1>16. CASE Diffuse
  BY <1>16 DEF TypeOK, Gone, Stage, Diffuse, rowVars, queueVars, faultVars
<1>17. CASE TransientError
  BY <1>17, GenerationAssumption DEF TypeOK, NoRows, GenStatus, Stage, Rows,
     SlotInv, TransientError, RetriesLeft, Again, NextTry, Send, Leave, Put,
     rowVars, faultVars
<1>18. CASE RetriesExhausted
  BY <1>18 DEF TypeOK, NoRows, GenStatus, JobStatus, Gone, Stage, Rows, Ended,
     RetriesExhausted, Mark, MarkFinal, Leave, Put, queueVars, faultVars
<1>19. CASE CheckCancelled
  BY <1>19 DEF TypeOK, NoRows, GenStatus, JobStatus, Gone, Stage, Rows, Ended,
     RetryInv, CheckCancelled, Mark, MarkFinal, IsCancelled, Leave, Put, queueVars,
     faultVars
<1>20. CASE Raised
  <2>1. gen' \in [Gen -> GenStatus] /\ job' \in [Gen -> JobStatus \cup {Gone}]
    BY <1>20 DEF TypeOK, Raised, Mark, MarkFinal, GenStatus, Ended, JobStatus, Put
  <2>2. slot' \in Gen \cup {NoGen} /\ at' \in Stage /\ seen' \in Rows
    BY <1>20 DEF Raised, TypeOK, Stage, Rows, NoRows, GenStatus, Gone, Leave
  <2>3. UNCHANGED <<retries, request, queueVars, faultVars>>
    BY <1>20 DEF Raised
  <2> QED
    BY <2>1, <2>2, <2>3 DEF TypeOK, queueVars, faultVars
<1>21. CASE Fail
  <2>1. gen' \in [Gen -> GenStatus] /\ job' \in [Gen -> JobStatus \cup {Gone}]
    BY <1>21 DEF TypeOK, Fail, MarkFailed, Mark, MarkFinal, GenStatus, Ended,
       JobStatus, Put
  <2>2. slot' \in Gen \cup {NoGen} /\ at' \in Stage /\ seen' \in Rows
    BY <1>21 DEF Fail, TypeOK, Stage, Rows, NoRows, GenStatus, Gone, Leave
  <2>3. UNCHANGED <<retries, request, queueVars, faultVars>>
    BY <1>21 DEF Fail
  <2> QED
    BY <2>1, <2>2, <2>3 DEF TypeOK, queueVars, faultVars
<1>22. CASE Persist
  BY <1>22 DEF TypeOK, NoRows, GenStatus, JobStatus, Stage, Rows, Request, Ended,
     SlotInv, Persist, Kept, MarkFinal, Put, queueVars, faultVars
<1>23. CASE Store
  BY <1>23 DEF TypeOK, NoRows, GenStatus, JobStatus, Stage, Request, Ended, Store,
     Mark, MarkFinal, Put, queueVars, faultVars
<1>24. CASE Acknowledge
  BY <1>24 DEF TypeOK, NoRows, GenStatus, Gone, Stage, Rows, Acknowledge, Leave,
     rowVars, queueVars, faultVars
<1>25. CASE Crash
  BY <1>25, GenerationAssumption DEF TypeOK, NoRows, GenStatus, Stage, Rows,
     SlotInv, Crash, Leave, Put, rowVars
<1>26. CASE Kill
  BY <1>26, GenerationAssumption DEF TypeOK, NoRows, GenStatus, Stage, Rows,
     SlotInv, Kill, Leave, rowVars, queueVars
<1>27. CASE UNCHANGED vars
  BY <1>27 DEF TypeOK, Gone, vars, rowVars, queueVars, slotVars, faultVars
<1> QED
  BY <1>1, <1>2, <1>3, <1>4, <1>5, <1>6, <1>7, <1>8, <1>9, <1>10, <1>11, <1>12,
     <1>13, <1>14, <1>15, <1>16, <1>17, <1>18, <1>19, <1>20, <1>21, <1>22, <1>23,
     <1>24, <1>25, <1>26, <1>27 DEF Next, People, Task

\* Every step keeps the lane in order, and doubles no message.
LEMMA StepTokens ==
  ASSUME TypeOK, SlotInv, TokenInv, RowInv, FailedInv, [Next]_vars
  PROVE  (SlotInv /\ TokenInv)'
<1>1. ASSUME NEW g \in Gen, Generate(g) PROVE (SlotInv /\ TokenInv)'
  <2>1. \A q \in Gen : q # g => Tokens(q)' = Tokens(q)
    BY <1>1 DEF Generate, Send, Tokens, Put, TypeOK, slotVars
  <2>2. Tokens(g) = 0 /\ slot # g
    BY <1>1, GenerationAssumption DEF Generate, RowInv, Tokens, TypeOK
  <2>3. Tokens(g)' = 0 \/ Tokens(g)' = 1
    BY <1>1, <2>2 DEF Generate, Send, Tokens, Put, TypeOK, slotVars
  <2> QED
    BY <1>1, <2>1, <2>3 DEF Generate, SlotInv, TokenInv, slotVars
<1>2. ASSUME NEW g \in Gen, CancelJob(g) PROVE (SlotInv /\ TokenInv)'
  BY <1>2 DEF SlotInv, TokenInv, Tokens, CancelJob, Asks, PENDING_STATUSES, Put,
     slotVars
<1>3. ASSUME NEW g \in Gen, RetryJob(g) PROVE (SlotInv /\ TokenInv)'
  BY <1>3 DEF TypeOK, SlotInv, TokenInv, FailedInv, Tokens, RetryJob, Asks,
     NoRequest, Send, Put, rowVars, slotVars, faultVars
<1>4. ASSUME NEW g \in Gen, DeleteGeneration(g) PROVE (SlotInv /\ TokenInv)'
  BY <1>4 DEF TypeOK, SlotInv, TokenInv, Tokens, DeleteGeneration, Put, queueVars,
     slotVars, faultVars
<1>5. ASSUME NEW g \in Gen, Interrupt(g) PROVE (SlotInv /\ TokenInv)'
  BY <1>5 DEF TypeOK, SlotInv, TokenInv, Tokens, Interrupt, rowVars, queueVars,
     faultVars
<1>6. ASSUME NEW g \in Gen, Commit(g) PROVE (SlotInv /\ TokenInv)'
  BY <1>6 DEF TypeOK, SlotInv, TokenInv, Tokens, Commit, Overwrite, Put, rowVars,
     queueVars, slotVars, faultVars
<1>7. ASSUME NEW g \in Gen, Enter(g) PROVE (SlotInv /\ TokenInv)'
  BY <1>7 DEF TypeOK, SlotInv, TokenInv, Tokens, Enter, Mark, MarkFinal,
     IsCancelled, Put, slotVars, faultVars
<1>8. ASSUME NEW g \in Gen, Discard(g) PROVE (SlotInv /\ TokenInv)'
  BY <1>8 DEF TypeOK, SlotInv, TokenInv, RowInv, Tokens, Discard, Put, slotVars
<1>9. ASSUME NEW g \in Gen, RestoreLost(g) PROVE (SlotInv /\ TokenInv)'
  BY <1>9 DEF TypeOK, SlotInv, TokenInv, Tokens, RestoreLost, Send, Put, rowVars,
     slotVars, faultVars
<1>10. CASE BulkCancelPending
  BY <1>10 DEF TypeOK, SlotInv, TokenInv, Tokens, BulkCancelPending, BulkCancel,
     PENDING_STATUSES, queueVars, slotVars, faultVars
<1>11. CASE CleanupTerminalJobs
  BY <1>11 DEF TypeOK, SlotInv, TokenInv, Tokens, CleanupTerminalJobs, Cleanup,
     CLEANUP_STATUSES, queueVars, slotVars, faultVars
<1>12. CASE StartFails
  BY <1>12, GenerationAssumption DEF TypeOK, SlotInv, TokenInv, RowInv, Tokens,
     StartFails, Stale, Leave, queueVars
<1>13. CASE NoWorkflow
  BY <1>13, GenerationAssumption DEF TypeOK, SlotInv, TokenInv, RowInv, Tokens,
     NoWorkflow, WriteBack, Stale, Overwrite, JobFails, MarkFinal, Leave, Put,
     queueVars
<1>14. CASE Wait
  BY <1>14, GenerationAssumption DEF TypeOK, SlotInv, TokenInv, RowInv, Tokens,
     Wait, WriteBack, Stale, Overwrite, JobWaits, MarkUnlessFinal, RetriesLeft,
     Again, NextTry, Send, Leave, Put
<1>15. CASE Start
  BY <1>15 DEF SlotInv, TokenInv, RowInv, Tokens, Start, WriteBack, Stale,
     Overwrite, JobRuns, MarkUnlessFinal, Put, queueVars
<1>16. CASE Diffuse
  BY <1>16 DEF TypeOK, SlotInv, TokenInv, Tokens, Diffuse, rowVars, queueVars,
     faultVars
<1>17. CASE TransientError
  BY <1>17, GenerationAssumption DEF TypeOK, SlotInv, TokenInv, Tokens,
     TransientError, RetriesLeft, Again, NextTry, Send, Leave, Put
<1>18. CASE RetriesExhausted
  BY <1>18, GenerationAssumption DEF TypeOK, SlotInv, TokenInv, RowInv, Tokens,
     RetriesExhausted, Mark, MarkFinal, Leave, Put, queueVars
<1>19. CASE CheckCancelled
  BY <1>19, GenerationAssumption DEF TypeOK, SlotInv, TokenInv, Tokens,
     CheckCancelled, Mark, MarkFinal, IsCancelled, Leave, Put, queueVars
<1>20. CASE Raised
  BY <1>20, GenerationAssumption DEF TypeOK, SlotInv, TokenInv, Tokens, Raised,
     Mark, MarkFinal, IsCancelled, Leave, Put, queueVars
<1>21. CASE Fail
  BY <1>21, GenerationAssumption DEF TypeOK, SlotInv, TokenInv, Tokens, Fail,
     MarkFailed, Mark, MarkFinal, Leave, Put, queueVars
<1>22. CASE Persist
  BY <1>22 DEF SlotInv, TokenInv, RowInv, Tokens, Persist, Kept, MarkFinal, Put,
     queueVars
<1>23. CASE Store
  BY <1>23 DEF SlotInv, TokenInv, RowInv, Tokens, Store, Mark, MarkFinal, Put,
     queueVars
<1>24. CASE Acknowledge
  BY <1>24, GenerationAssumption DEF TypeOK, SlotInv, TokenInv, Tokens,
     Acknowledge, Leave, queueVars
<1>25. CASE Crash
  BY <1>25, GenerationAssumption DEF TypeOK, SlotInv, TokenInv, Tokens, Crash,
     Leave, Put
<1>26. CASE Kill
  BY <1>26, GenerationAssumption DEF TypeOK, SlotInv, TokenInv, Tokens, Kill,
     Leave, queueVars
<1>27. CASE UNCHANGED vars
  BY <1>27 DEF TypeOK, SlotInv, TokenInv, Tokens, vars, rowVars, queueVars,
     slotVars, faultVars
<1> QED
  BY <1>1, <1>2, <1>3, <1>4, <1>5, <1>6, <1>7, <1>8, <1>9, <1>10, <1>11, <1>12,
     <1>13, <1>14, <1>15, <1>16, <1>17, <1>18, <1>19, <1>20, <1>21, <1>22, <1>23,
     <1>24, <1>25, <1>26, <1>27 DEF Next, People, Task

\* Every step keeps the rows in order.
LEMMA StepRows ==
  ASSUME TypeOK, RowInv, [Next]_vars
  PROVE  RowInv'
<1>1. ASSUME NEW g \in Gen, Generate(g) PROVE RowInv'
  BY <1>1 DEF TypeOK, Gone, RowInv, Exists, Tokens, Generate, Send, Put, slotVars,
     faultVars
<1>2. ASSUME NEW g \in Gen, CancelJob(g) PROVE RowInv'
  BY <1>2 DEF TypeOK, Gone, RowInv, Exists, Tokens, CancelJob, Asks,
     PENDING_STATUSES, Put, rowVars, slotVars, faultVars
<1>3. ASSUME NEW g \in Gen, RetryJob(g) PROVE RowInv'
  BY <1>3 DEF TypeOK, Gone, RowInv, Exists, Tokens, RetryJob, Asks, Send, Put,
     rowVars, slotVars, faultVars
<1>4. ASSUME NEW g \in Gen, DeleteGeneration(g) PROVE RowInv'
  BY <1>4 DEF TypeOK, Gone, RowInv, Tokens, DeleteGeneration, Exists, Put,
     queueVars, slotVars, faultVars
<1>5. ASSUME NEW g \in Gen, Interrupt(g) PROVE RowInv'
  BY <1>5 DEF TypeOK, Gone, RowInv, Exists, Tokens, Interrupt, rowVars, queueVars,
     faultVars
<1>6. ASSUME NEW g \in Gen, Commit(g) PROVE RowInv'
  BY <1>6 DEF TypeOK, Gone, RowInv, Exists, Tokens, Commit, Overwrite, Put, rowVars,
     queueVars, slotVars, faultVars
<1>7. ASSUME NEW g \in Gen, Enter(g) PROVE RowInv'
  BY <1>7 DEF TypeOK, Gone, RowInv, Tokens, Enter, Mark, MarkFinal, IsCancelled,
     Exists, Put, slotVars, faultVars
<1>8. ASSUME NEW g \in Gen, Discard(g) PROVE RowInv'
  BY <1>8 DEF TypeOK, RowInv, Exists, Tokens, Discard, Put, rowVars, slotVars
<1>9. ASSUME NEW g \in Gen, RestoreLost(g) PROVE RowInv'
  BY <1>9 DEF TypeOK, Gone, RowInv, Exists, Tokens, RestoreLost, Send, Put, rowVars,
     slotVars, faultVars
<1>10. CASE BulkCancelPending
  BY <1>10 DEF TypeOK, Gone, RowInv, Exists, Tokens, BulkCancelPending, BulkCancel,
     PENDING_STATUSES, queueVars, slotVars, faultVars
<1>11. CASE CleanupTerminalJobs
  BY <1>11 DEF TypeOK, Gone, RowInv, Exists, Tokens, CleanupTerminalJobs, Cleanup,
     CLEANUP_STATUSES, queueVars, slotVars, faultVars
<1>12. CASE StartFails
  BY <1>12, GenerationAssumption DEF TypeOK, RowInv, Tokens, StartFails, Stale,
     Exists, Leave, rowVars, queueVars
<1>13. CASE NoWorkflow
  BY <1>13, GenerationAssumption DEF TypeOK, RowInv, Tokens, NoWorkflow, WriteBack,
     Stale, Overwrite, Exists, JobFails, MarkFinal, Leave, Put, queueVars
<1>14. CASE Wait
  BY <1>14, GenerationAssumption DEF TypeOK, RowInv, Tokens, Wait, WriteBack,
     Stale, Overwrite, Exists, JobWaits, MarkUnlessFinal, RetriesLeft, Again,
     NextTry, Send, Leave, Put
<1>15. CASE Start
  BY <1>15 DEF RowInv, Tokens, Start, WriteBack, Stale, Overwrite, Exists, JobRuns,
     MarkUnlessFinal, Put, queueVars
<1>16. CASE Diffuse
  BY <1>16 DEF TypeOK, Gone, RowInv, Exists, Tokens, Diffuse, rowVars, queueVars,
     faultVars
<1>17. CASE TransientError
  BY <1>17, GenerationAssumption DEF TypeOK, RowInv, Exists, Tokens,
     TransientError, RetriesLeft, Again, NextTry, Send, Leave, Put, rowVars
<1>18. CASE RetriesExhausted
  BY <1>18, GenerationAssumption DEF TypeOK, RowInv, Tokens, RetriesExhausted,
     Mark, MarkFinal, Exists, Leave, Put, queueVars
<1>19. CASE CheckCancelled
  BY <1>19, GenerationAssumption DEF TypeOK, RowInv, Tokens, CheckCancelled, Mark,
     MarkFinal, IsCancelled, Exists, Leave, Put, queueVars
<1>20. CASE Raised
  BY <1>20, GenerationAssumption DEF TypeOK, RowInv, Tokens, Raised, Mark,
     MarkFinal, IsCancelled, Exists, Leave, Put, queueVars
<1>21. CASE Fail
  BY <1>21, GenerationAssumption DEF TypeOK, RowInv, Tokens, Fail, MarkFailed,
     Mark, MarkFinal, Exists, Leave, Put, queueVars
<1>22. CASE Persist
  BY <1>22 DEF TypeOK, RowInv, Tokens, Persist, Kept, MarkFinal, Exists, Put,
     queueVars
<1>23. CASE Store
  BY <1>23 DEF TypeOK, RowInv, Tokens, Store, Mark, MarkFinal, Exists, Put, queueVars
<1>24. CASE Acknowledge
  BY <1>24, GenerationAssumption DEF TypeOK, RowInv, Exists, Tokens, Acknowledge,
     Leave, rowVars, queueVars
<1>25. CASE Crash
  BY <1>25, GenerationAssumption DEF TypeOK, RowInv, Exists, Tokens, Crash, Leave,
     Put, rowVars
<1>26. CASE Kill
  BY <1>26, GenerationAssumption DEF TypeOK, RowInv, Exists, Tokens, Kill, Leave,
     rowVars, queueVars
<1>27. CASE UNCHANGED vars
  BY <1>27 DEF TypeOK, Gone, RowInv, Exists, Tokens, vars, rowVars, queueVars,
     slotVars, faultVars
<1> QED
  BY <1>1, <1>2, <1>3, <1>4, <1>5, <1>6, <1>7, <1>8, <1>9, <1>10, <1>11, <1>12,
     <1>13, <1>14, <1>15, <1>16, <1>17, <1>18, <1>19, <1>20, <1>21, <1>22, <1>23,
     <1>24, <1>25, <1>26, <1>27 DEF Next, People, Task

\* A generation whose task is at work has no message besides.
LEMMA TheTaskIsTheToken ==
  ASSUME TypeOK, TokenInv, slot \in Gen
  PROVE  messages[slot] = 0 /\ lost[slot] = 0
<1>1. messages[slot] \in Nat /\ lost[slot] \in Nat
  BY DEF TypeOK
<1>2. Tokens(slot) = messages[slot] + lost[slot] + 1
  BY DEF Tokens
<1>3. Tokens(slot) <= 1
  BY DEF TokenInv
<1> QED  BY <1>1, <1>2, <1>3


\* A job waits with its generation.
LEMMA StepQueued ==
  ASSUME TypeOK, SlotInv, RowInv, QueuedInv, FailedInv, RetryInv, StartingInv,
     [Next]_vars
  PROVE  QueuedInv'
<1>1. ASSUME NEW g \in Gen, Generate(g) PROVE QueuedInv'
  BY <1>1 DEF TypeOK, QueuedInv, Generate, Send, Put
<1>2. ASSUME NEW g \in Gen, CancelJob(g) PROVE QueuedInv'
  BY <1>2 DEF QueuedInv, CancelJob, Asks, NoRequest, PENDING_STATUSES, Put, rowVars
<1>3. ASSUME NEW g \in Gen, RetryJob(g) PROVE QueuedInv'
  BY <1>3 DEF QueuedInv, RetryJob, Asks, NoRequest, Send, Put, rowVars
<1>4. ASSUME NEW g \in Gen, DeleteGeneration(g) PROVE QueuedInv'
  BY <1>4 DEF TypeOK, Gone, QueuedInv, DeleteGeneration, Put
<1>5. ASSUME NEW g \in Gen, Interrupt(g) PROVE QueuedInv'
  BY <1>5 DEF QueuedInv, Interrupt, rowVars
<1>6. ASSUME NEW g \in Gen, Commit(g) PROVE QueuedInv'
  BY <1>6 DEF TypeOK, QueuedInv, RetryInv, Commit, Overwrite, NoRequest, Put, rowVars
<1>7. ASSUME NEW g \in Gen, Enter(g) PROVE QueuedInv'
  BY <1>7 DEF TypeOK, QueuedInv, Enter, Mark, MarkFinal, IsCancelled, Put
<1>8. ASSUME NEW g \in Gen, Discard(g) PROVE QueuedInv'
  BY <1>8 DEF QueuedInv, Discard, Put, rowVars
<1>9. ASSUME NEW g \in Gen, RestoreLost(g) PROVE QueuedInv'
  BY <1>9 DEF QueuedInv, RestoreLost, Send, Put, rowVars
<1>10. CASE BulkCancelPending
  BY <1>10 DEF TypeOK, QueuedInv, BulkCancelPending, BulkCancel, PENDING_STATUSES
<1>11. CASE CleanupTerminalJobs
  BY <1>11 DEF TypeOK, Gone, QueuedInv, CleanupTerminalJobs, Cleanup, CLEANUP_STATUSES
<1>12. CASE StartFails
  BY <1>12 DEF QueuedInv, StartFails, Stale, Leave, rowVars
<1>13. CASE NoWorkflow
  BY <1>13 DEF TypeOK, Gone, QueuedInv, StartingInv, NoWorkflow, WriteBack, Stale,
     Overwrite, JobFails, MarkFinal, Leave, Put
<1>14. CASE Wait
  BY <1>14 DEF QueuedInv, Wait, WriteBack, Stale, Overwrite, JobWaits,
     MarkUnlessFinal, RetriesLeft, Again, NextTry, Send, Leave, Put
<1>15. CASE Start
  BY <1>15 DEF QueuedInv, Start, WriteBack, Stale, Overwrite, JobRuns,
     MarkUnlessFinal, Put
<1>16. CASE Diffuse
  BY <1>16 DEF QueuedInv, Diffuse, rowVars
<1>17. CASE TransientError
  BY <1>17 DEF QueuedInv, TransientError, RetriesLeft, Again, NextTry, Send, Leave,
     Put, rowVars
<1>18. CASE RetriesExhausted
  BY <1>18 DEF TypeOK, Gone, QueuedInv, RetriesExhausted, Mark, MarkFinal, Leave, Put
<1>19. CASE CheckCancelled
  BY <1>19 DEF TypeOK, QueuedInv, CheckCancelled, Mark, MarkFinal, IsCancelled,
     Leave, Put
<1>20. CASE Raised
  BY <1>20 DEF TypeOK, QueuedInv, Raised, Mark, MarkFinal, IsCancelled, Leave, Put
<1>21. CASE Fail
  BY <1>21 DEF TypeOK, Gone, QueuedInv, Fail, MarkFailed, Mark, MarkFinal, Leave, Put
<1>22. CASE Persist
  BY <1>22 DEF TypeOK, QueuedInv, Persist, Kept, MarkFinal, Put
<1>23. CASE Store
  BY <1>23 DEF TypeOK, Gone, QueuedInv, Store, Mark, MarkFinal, Put
<1>24. CASE Acknowledge
  BY <1>24 DEF QueuedInv, Acknowledge, Leave, rowVars
<1>25. CASE Crash
  BY <1>25 DEF QueuedInv, Crash, Leave, Put, rowVars
<1>26. CASE Kill
  BY <1>26 DEF QueuedInv, Kill, Leave, rowVars
<1>27. CASE UNCHANGED vars
  BY <1>27 DEF TypeOK, Stage, Gone, FINAL_STATUSES, SlotInv, RowInv, QueuedInv,
     FailedInv, RetryInv, StartingInv, Exists, vars, rowVars, queueVars, slotVars,
     faultVars
<1> QED
  BY <1>1, <1>2, <1>3, <1>4, <1>5, <1>6, <1>7, <1>8, <1>9, <1>10, <1>11, <1>12,
     <1>13, <1>14, <1>15, <1>16, <1>17, <1>18, <1>19, <1>20, <1>21, <1>22, <1>23,
     <1>24, <1>25, <1>26, <1>27 DEF Next, People, Task

\* What fails, fails with its generation and for good, or until it is retried.
LEMMA StepFailed ==
  ASSUME TypeOK, SlotInv, TokenInv, RowInv, QueuedInv, FailedInv, RetryInv,
     StartingInv, [Next]_vars
  PROVE  FailedInv'
<1>1. ASSUME NEW g \in Gen, Generate(g) PROVE FailedInv'
  BY <1>1 DEF TypeOK, Gone, FailedInv, Tokens, Generate, Send, Put, slotVars,
     faultVars
<1>2. ASSUME NEW g \in Gen, CancelJob(g) PROVE FailedInv'
  BY <1>2 DEF TypeOK, Gone, FailedInv, Tokens, CancelJob, Asks, NoRequest,
     PENDING_STATUSES, Put, rowVars, slotVars, faultVars
<1>3. ASSUME NEW g \in Gen, RetryJob(g) PROVE FailedInv'
  BY <1>3 DEF TypeOK, Gone, FailedInv, Tokens, RetryJob, Asks, Send, Put, rowVars,
     slotVars, faultVars
<1>4. ASSUME NEW g \in Gen, DeleteGeneration(g) PROVE FailedInv'
  BY <1>4 DEF TypeOK, Gone, FailedInv, Tokens, DeleteGeneration, Exists, Put,
     queueVars, slotVars, faultVars
<1>5. ASSUME NEW g \in Gen, Interrupt(g) PROVE FailedInv'
  BY <1>5 DEF TypeOK, Gone, FailedInv, Tokens, Interrupt, rowVars, queueVars,
     faultVars
<1>6. ASSUME NEW g \in Gen, Commit(g) PROVE FailedInv'
  BY <1>6 DEF TypeOK, Gone, FailedInv, RetryInv, Tokens, Commit, Overwrite,
     NoRequest, Put, rowVars, queueVars, slotVars
<1>7. ASSUME NEW g \in Gen, Enter(g) PROVE FailedInv'
  <2>1. /\ slot = NoGen /\ messages[g] \in Nat \ {0} /\ lost[g] \in Nat /\ at = "idle"
        /\ messages' = [messages EXCEPT ![g] = messages[g] - 1]
        /\ UNCHANGED <<request, lost, retries>>
    BY <1>7 DEF Enter, Put, TypeOK, SlotInv
  <2>2. \A q \in Gen : q # g =>
          /\ gen'[q] = gen[q] /\ job'[q] = job[q]
          /\ slot' # q
    BY <1>7, GenerationAssumption DEF Enter, Mark, MarkFinal, Put, TypeOK, slotVars
  <2>3. \A q \in Gen : q # g => Tokens(q)' = Tokens(q)
    BY <2>1, <2>2, GenerationAssumption DEF Tokens, TypeOK
  <2>4. Tokens(g) = 1
    BY <2>1, GenerationAssumption DEF Tokens, TokenInv
  <2>5. /\ gen[g] # "failed" \/ job[g] \in {"failed", Gone}
        /\ job[g] = "failed" => request[g].kind = "retry"
    BY <2>4 DEF FailedInv
  <2>6. \/ UNCHANGED <<gen, job>>
        \/ gen'[g] = "cancelled" /\ job'[g] \in {"cancelled", Gone}
    BY <1>7 DEF Enter, Mark, MarkFinal, Put, TypeOK, Gone
  <2> QED
    BY <2>1, <2>2, <2>3, <2>5, <2>6 DEF FailedInv, Gone
<1>8. ASSUME NEW g \in Gen, Discard(g) PROVE FailedInv'
  <2>1. UNCHANGED <<gen, job,
     request>> /\ \A q \in Gen : Tokens(q) = 0 => Tokens(q)' = 0
    BY <1>8 DEF Discard, Tokens, TypeOK, Put, rowVars, slotVars
  <2> QED
    BY <2>1 DEF FailedInv
<1>9. ASSUME NEW g \in Gen, RestoreLost(g) PROVE FailedInv'
  BY <1>9 DEF TypeOK, Gone, FailedInv, Tokens, RestoreLost, Send, Put, rowVars,
     slotVars, faultVars
<1>10. CASE BulkCancelPending
  BY <1>10 DEF TypeOK, Gone, FailedInv, Tokens, BulkCancelPending, BulkCancel,
     PENDING_STATUSES, queueVars, slotVars, faultVars
<1>11. CASE CleanupTerminalJobs
  BY <1>11 DEF TypeOK, Gone, FailedInv, Tokens, CleanupTerminalJobs, Cleanup,
     CLEANUP_STATUSES, queueVars, slotVars, faultVars
<1>12. CASE StartFails
  BY <1>12, GenerationAssumption DEF Gone, FailedInv, Tokens, StartFails, Stale,
     Exists, Leave, rowVars, queueVars
<1>13. CASE NoWorkflow
  <2>1. /\ slot \in Gen /\ slot' = NoGen /\ UNCHANGED <<request, messages, lost>>
        /\ messages[slot] = 0 /\ lost[slot] = 0
    <3>1. slot \in Gen /\ slot' = NoGen /\ UNCHANGED <<request, messages, lost>>
      BY <1>13 DEF NoWorkflow, SlotInv, TypeOK, Leave, queueVars
    <3> QED  BY <3>1, TheTaskIsTheToken
  <2>2. \A q \in Gen : q = slot => Tokens(q)' = 0
    BY <2>1, GenerationAssumption DEF Tokens
  <2>3. \A q \in Gen : q # slot =>
          gen'[q] = gen[q] /\ job'[q] = job[q] /\ Tokens(q)' = Tokens(q)
    BY <1>13, <2>1, GenerationAssumption
    DEF NoWorkflow, WriteBack, Overwrite, Tokens, Put, TypeOK
  <2>4. /\ job'[slot] = "failed" /\ request[slot].kind # "retry" => gen'[slot] = "failed"
        /\ gen'[slot] = "failed" => job'[slot] \in {"failed", "cancelled", Gone}
    BY <1>13, <2>1 DEF NoWorkflow, WriteBack, Stale, Overwrite, JobFails,
       MarkFinal, Exists,
       Put, TypeOK, Gone, FailedInv, QueuedInv, RetryInv, StartingInv
  <2> QED
    BY <2>1, <2>2, <2>3, <2>4 DEF FailedInv
<1>14. CASE Wait
  BY <1>14, GenerationAssumption DEF TypeOK, FailedInv, StartingInv, Tokens, Wait,
     WriteBack, Stale, Overwrite, JobWaits, MarkUnlessFinal, RetriesLeft, Again,
     NextTry, Send, Leave, Put
<1>15. CASE Start
  BY <1>15 DEF TypeOK, FailedInv, StartingInv, Tokens, Start, WriteBack, Stale,
     Overwrite, JobRuns, MarkUnlessFinal, Put, queueVars
<1>16. CASE Diffuse
  BY <1>16 DEF TypeOK, Gone, FailedInv, Tokens, Diffuse, rowVars, queueVars,
     faultVars
<1>17. CASE TransientError
  BY <1>17, GenerationAssumption DEF TypeOK, FailedInv, Tokens, TransientError,
     RetriesLeft, Again, NextTry, Send, Leave, Put, rowVars
<1>18. CASE RetriesExhausted
  <2>1. slot \in Gen /\ slot' = NoGen /\ UNCHANGED <<request, messages, lost>>
    BY <1>18 DEF RetriesExhausted, TypeOK, SlotInv, Leave, queueVars
  <2>2. /\ \A q \in Gen : q # slot => gen'[q] = gen[q] /\ job'[q] = job[q]
        /\ job'[slot] # Gone => gen'[slot] = "failed" /\ job'[slot] = "failed"
        /\ gen[slot] \in {"deleted", "absent"} <=> gen'[slot] \in {"deleted",
           "absent"}
        /\ gen'[slot] \notin {"deleted", "absent"} => gen'[slot] = "failed"
        /\ gen[slot] = "deleted" <=> gen'[slot] = "deleted"
    BY <1>18, <2>1 DEF RetriesExhausted, Mark, MarkFinal, Gone, TypeOK, RowInv,
       Exists, Put
  <2>3. \A q \in Gen :
          Tokens(q) \in Nat /\ Tokens(q)' \in Nat /\ Tokens(q)' <= Tokens(q)
    BY <2>1, GenerationAssumption DEF Tokens, TypeOK
  <2>4. \A q \in Gen : q = slot => Tokens(q)' = 0
    <3>1. messages[slot] = 0 /\ lost[slot] = 0
      BY <2>1, TheTaskIsTheToken
    <3> QED  BY <2>1, <3>1, GenerationAssumption DEF Tokens
  <2> QED
    BY <2>1, <2>2, <2>3, <2>4 DEF FailedInv, Gone
<1>19. CASE CheckCancelled
  BY <1>19, GenerationAssumption DEF TypeOK, FailedInv, Tokens, CheckCancelled,
     Mark, MarkFinal, IsCancelled, Leave, Put, queueVars
<1>20. CASE Raised
  BY <1>20, GenerationAssumption DEF TypeOK, FailedInv, Tokens, Raised, Mark,
     MarkFinal, IsCancelled, Leave, Put, queueVars
<1>21. CASE Fail
  <2>1. slot \in Gen /\ slot' = NoGen /\ UNCHANGED <<request, messages, lost>>
    BY <1>21 DEF Fail, TypeOK, SlotInv, Leave, queueVars
  <2>2. /\ \A q \in Gen : q # slot => gen'[q] = gen[q] /\ job'[q] = job[q]
        /\ job'[slot] # Gone => gen'[slot] = "failed" /\ job'[slot] = "failed"
        /\ gen[slot] \in {"deleted", "absent"} <=> gen'[slot] \in {"deleted",
           "absent"}
        /\ gen'[slot] \notin {"deleted", "absent"} => gen'[slot] = "failed"
        /\ gen[slot] = "deleted" <=> gen'[slot] = "deleted"
    BY <1>21, <2>1 DEF Fail, MarkFailed, Mark, MarkFinal, Gone, TypeOK, RowInv,
       Exists, Put
  <2>3. \A q \in Gen :
          Tokens(q) \in Nat /\ Tokens(q)' \in Nat /\ Tokens(q)' <= Tokens(q)
    BY <2>1, GenerationAssumption DEF Tokens, TypeOK
  <2>4. \A q \in Gen : q = slot => Tokens(q)' = 0
    <3>1. messages[slot] = 0 /\ lost[slot] = 0
      BY <2>1, TheTaskIsTheToken
    <3> QED  BY <2>1, <3>1, GenerationAssumption DEF Tokens
  <2> QED
    BY <2>1, <2>2, <2>3, <2>4 DEF FailedInv, Gone
<1>22. CASE Persist
  BY <1>22 DEF TypeOK, FailedInv, Tokens, Persist, Kept, MarkFinal, Put, queueVars
<1>23. CASE Store
  BY <1>23 DEF TypeOK, FailedInv, Tokens, Store, Mark, MarkFinal, Put, queueVars
<1>24. CASE Acknowledge
  BY <1>24, GenerationAssumption DEF TypeOK, FailedInv, Tokens, Acknowledge, Leave,
     rowVars, queueVars
<1>25. CASE Crash
  BY <1>25, GenerationAssumption DEF TypeOK, FailedInv, Tokens, Crash, Leave, Put,
     rowVars
<1>26. CASE Kill
  BY <1>26, GenerationAssumption DEF TypeOK, FailedInv, Tokens, Kill, Leave,
     rowVars, queueVars
<1>27. CASE UNCHANGED vars
  BY <1>27 DEF TypeOK, Gone, FailedInv, Tokens, vars, rowVars, queueVars, slotVars,
     faultVars
<1> QED
  BY <1>1, <1>2, <1>3, <1>4, <1>5, <1>6, <1>7, <1>8, <1>9, <1>10, <1>11, <1>12,
     <1>13, <1>14, <1>15, <1>16, <1>17, <1>18, <1>19, <1>20, <1>21, <1>22, <1>23,
     <1>24, <1>25, <1>26, <1>27 DEF Next, People, Task

\* A retry commits on a failed job.
LEMMA StepRetry ==
  ASSUME TypeOK, SlotInv, TokenInv, RowInv, FailedInv, RetryInv, StartingInv,
     [Next]_vars
  PROVE  RetryInv'
<1>1. ASSUME NEW g \in Gen, Generate(g) PROVE RetryInv'
  BY <1>1 DEF TypeOK, Gone, RowInv, RetryInv, Exists, Tokens, Generate, Send, Put,
     slotVars, faultVars
<1>2. ASSUME NEW g \in Gen, CancelJob(g) PROVE RetryInv'
  BY <1>2 DEF TypeOK, Gone, RetryInv, Exists, Tokens, CancelJob, Asks,
     PENDING_STATUSES, Put, rowVars, slotVars, faultVars
<1>3. ASSUME NEW g \in Gen, RetryJob(g) PROVE RetryInv'
  BY <1>3 DEF TypeOK, Gone, FailedInv, RetryInv, Exists, Tokens, RetryJob, Asks,
     NoRequest, Send, Put, rowVars, slotVars, faultVars
<1>4. ASSUME NEW g \in Gen, DeleteGeneration(g) PROVE RetryInv'
  BY <1>4 DEF TypeOK, Gone, RetryInv, Tokens, DeleteGeneration, Exists, Put,
     queueVars, slotVars, faultVars
<1>5. ASSUME NEW g \in Gen, Interrupt(g) PROVE RetryInv'
  BY <1>5 DEF TypeOK, Gone, RetryInv, Exists, Tokens, Interrupt, rowVars, queueVars,
     faultVars
<1>6. ASSUME NEW g \in Gen, Commit(g) PROVE RetryInv'
  BY <1>6 DEF TypeOK, Gone, RetryInv, Exists, Tokens, Commit, Overwrite, NoRequest,
     Put, rowVars, queueVars, slotVars, faultVars
<1>7. ASSUME NEW g \in Gen, Enter(g) PROVE RetryInv'
  <2>1. /\ slot = NoGen /\ messages[g] \in Nat \ {0} /\ at = "idle"
        /\ messages' = [messages EXCEPT ![g] = messages[g] - 1]
        /\ UNCHANGED <<request, lost, tries, retries>>
        /\ request[g].kind = "retry" => tries[g] = 0
    BY <1>7 DEF Enter, Put, TypeOK, SlotInv
  <2>2. \A q \in Gen : q # g =>
          /\ gen'[q] = gen[q] /\ job'[q] = job[q] /\ messages'[q] = messages[q]
          /\ slot' # q
    BY <1>7, <2>1, GenerationAssumption
    DEF Enter, Mark, MarkFinal, Put, TypeOK, slotVars
  <2>3. ASSUME request[g].kind = "retry"
        PROVE  /\ UNCHANGED <<gen, job>>
               /\ slot' = g => at' = "starting" /\ seen'.job = "failed"
    BY <1>7, <2>1, <2>3, GenerationAssumption DEF RetryInv, Enter, IsCancelled,
       Exists, Gone, TypeOK, slotVars
  <2>4. messages'[g] > 0 => messages[g] > 0
    BY <2>1
  <2> QED
    BY <2>1, <2>2, <2>3, <2>4 DEF RetryInv, Exists
<1>8. ASSUME NEW g \in Gen, Discard(g) PROVE RetryInv'
  BY <1>8 DEF RetryInv, Exists, Discard, Put, rowVars, slotVars
<1>9. ASSUME NEW g \in Gen, RestoreLost(g) PROVE RetryInv'
  BY <1>9 DEF TypeOK, Gone, RetryInv, Exists, Tokens, RestoreLost, Send, Put,
     rowVars, slotVars, faultVars
<1>10. CASE BulkCancelPending
  BY <1>10 DEF TypeOK, Gone, RetryInv, Exists, Tokens, BulkCancelPending, BulkCancel,
     PENDING_STATUSES, queueVars, slotVars, faultVars
<1>11. CASE CleanupTerminalJobs
  BY <1>11 DEF TypeOK, Gone, RetryInv, Exists, Tokens, CleanupTerminalJobs, Cleanup,
     CLEANUP_STATUSES, queueVars, slotVars, faultVars
<1>12. CASE StartFails
  BY <1>12 DEF RetryInv, StartFails, Stale, Exists, Leave, rowVars, queueVars
<1>13. CASE NoWorkflow
  BY <1>13 DEF RetryInv, NoWorkflow, WriteBack, Stale, Overwrite, Exists, JobFails,
     MarkFinal, Leave, Put, queueVars
<1>14. CASE Wait
  BY <1>14 DEF TypeOK, FINAL_STATUSES, TokenInv, RetryInv, Tokens, Wait, WriteBack,
     Stale, Overwrite, Exists, JobWaits, MarkUnlessFinal, RetriesLeft, Again,
     NextTry, Send, Leave, Put
<1>15. CASE Start
  BY <1>15 DEF TypeOK, FINAL_STATUSES, TokenInv, RetryInv, Tokens, Start,
     WriteBack, Stale, Overwrite, Exists, JobRuns, MarkUnlessFinal, Put, queueVars
<1>16. CASE Diffuse
  BY <1>16 DEF TypeOK, Gone, RetryInv, Exists, Tokens, Diffuse, rowVars, queueVars,
     faultVars
<1>17. CASE TransientError
  BY <1>17 DEF TypeOK, Gone, RetryInv, Exists, Tokens, TransientError, RetriesLeft,
     Again, NextTry, Send, Leave, Put, rowVars, faultVars
<1>18. CASE RetriesExhausted
  BY <1>18 DEF TypeOK, Gone, RetryInv, Tokens, RetriesExhausted, Mark, MarkFinal,
     Exists, Leave, Put, queueVars, faultVars
<1>19. CASE CheckCancelled
  BY <1>19 DEF TypeOK, Gone, RetryInv, Tokens, CheckCancelled, Mark, MarkFinal,
     IsCancelled, Exists, Leave, Put, queueVars, faultVars
<1>20. CASE Raised
  BY <1>20 DEF TypeOK, Gone, RetryInv, Tokens, Raised, Mark, MarkFinal, IsCancelled,
     Exists, Leave, Put, queueVars, faultVars
<1>21. CASE Fail
  BY <1>21 DEF TypeOK, Gone, RetryInv, Tokens, Fail, MarkFailed, Mark, MarkFinal,
     Exists, Leave, Put, queueVars, faultVars
<1>22. CASE Persist
  BY <1>22 DEF TypeOK, RetryInv, Persist, Kept, MarkFinal, Exists, Put, queueVars
<1>23. CASE Store
  BY <1>23 DEF TypeOK, RetryInv, Store, Mark, MarkFinal, Exists, Put, queueVars
<1>24. CASE Acknowledge
  BY <1>24 DEF TypeOK, Gone, RetryInv, Exists, Tokens, Acknowledge, Leave, rowVars,
     queueVars, faultVars
<1>25. CASE Crash
  BY <1>25 DEF TypeOK, Gone, RetryInv, Exists, Tokens, Crash, Leave, Put, rowVars
<1>26. CASE Kill
  BY <1>26 DEF TypeOK, Gone, RetryInv, Exists, Tokens, Kill, Leave, rowVars,
     queueVars
<1>27. CASE UNCHANGED vars
  BY <1>27 DEF TypeOK, Gone, RetryInv, Exists, Tokens, vars, rowVars, queueVars,
     slotVars, faultVars
<1> QED
  BY <1>1, <1>2, <1>3, <1>4, <1>5, <1>6, <1>7, <1>8, <1>9, <1>10, <1>11, <1>12,
     <1>13, <1>14, <1>15, <1>16, <1>17, <1>18, <1>19, <1>20, <1>21, <1>22, <1>23,
     <1>24, <1>25, <1>26, <1>27 DEF Next, People, Task

\* A cancellation of what is cancelled finds nothing revived.
LEMMA StepCancel ==
  ASSUME TypeOK, SlotInv, TokenInv, RowInv, StartingInv, StoringInv, CancelInv,
     [Next]_vars
  PROVE  CancelInv'
<1>1. ASSUME NEW g \in Gen, Generate(g) PROVE CancelInv'
  <2>1. request[g].kind = "none" /\ UNCHANGED <<request, lost, slotVars>>
    BY <1>1 DEF Generate, RowInv
  <2>2. \A q \in Gen : q # g => gen'[q] = gen[q] /\ messages'[q] = messages[q]
    BY <1>1 DEF Generate, Send, Put, TypeOK
  <2> QED
    BY <2>1, <2>2 DEF CancelInv, Tokens, slotVars
<1>2. ASSUME NEW g \in Gen, CancelJob(g) PROVE CancelInv'
  BY <1>2 DEF FINAL_STATUSES, StartingInv, StoringInv, CancelInv, Tokens,
     CancelJob, Asks, NoRequest, PENDING_STATUSES, Put, rowVars, slotVars
<1>3. ASSUME NEW g \in Gen, RetryJob(g) PROVE CancelInv'
  BY <1>3 DEF TypeOK, Gone, CancelInv, Tokens, RetryJob, Asks, Send, Put, rowVars,
     slotVars, faultVars
<1>4. ASSUME NEW g \in Gen, DeleteGeneration(g) PROVE CancelInv'
  BY <1>4 DEF TypeOK, Gone, CancelInv, Tokens, DeleteGeneration, Exists, Put,
     queueVars, slotVars, faultVars
<1>5. ASSUME NEW g \in Gen, Interrupt(g) PROVE CancelInv'
  BY <1>5 DEF TypeOK, Gone, CancelInv, Tokens, Interrupt, rowVars, queueVars,
     faultVars
<1>6. ASSUME NEW g \in Gen, Commit(g) PROVE CancelInv'
  BY <1>6 DEF TypeOK, Gone, CancelInv, Tokens, Commit, Overwrite, NoRequest, Put,
     rowVars, queueVars, slotVars, faultVars
<1>7. ASSUME NEW g \in Gen, Enter(g) PROVE CancelInv'
  BY <1>7 DEF TypeOK, Gone, CancelInv, Tokens, Enter, Mark, MarkFinal, IsCancelled,
     Exists, Put, slotVars, faultVars
<1>8. ASSUME NEW g \in Gen, Discard(g) PROVE CancelInv'
  BY <1>8 DEF TypeOK, CancelInv, Tokens, Discard, Put, rowVars, slotVars
<1>9. ASSUME NEW g \in Gen, RestoreLost(g) PROVE CancelInv'
  BY <1>9 DEF TypeOK, Gone, CancelInv, Tokens, RestoreLost, Send, Put, rowVars,
     slotVars, faultVars
<1>10. CASE BulkCancelPending
  BY <1>10 DEF TypeOK, Gone, CancelInv, Tokens, BulkCancelPending, BulkCancel,
     PENDING_STATUSES, queueVars, slotVars, faultVars
<1>11. CASE CleanupTerminalJobs
  BY <1>11 DEF TypeOK, Gone, CancelInv, Tokens, CleanupTerminalJobs, Cleanup,
     CLEANUP_STATUSES, queueVars, slotVars, faultVars
<1>12. CASE StartFails
  BY <1>12, GenerationAssumption DEF CancelInv, Tokens, StartFails, Stale, Leave,
     rowVars, queueVars
<1>13. CASE NoWorkflow
  BY <1>13, GenerationAssumption DEF CancelInv, Tokens, NoWorkflow, WriteBack,
     Stale, Overwrite, JobFails, MarkFinal, Leave, Put, queueVars
<1>14. CASE Wait
  BY <1>14, GenerationAssumption DEF TypeOK, CancelInv, Tokens, Wait, WriteBack,
     Stale, Overwrite, JobWaits, MarkUnlessFinal, RetriesLeft, Again, NextTry,
     Send, Leave, Put
<1>15. CASE Start
  BY <1>15 DEF CancelInv, Tokens, Start, WriteBack, Stale, Overwrite, JobRuns,
     MarkUnlessFinal, Put, queueVars
<1>16. CASE Diffuse
  BY <1>16 DEF TypeOK, Gone, CancelInv, Tokens, Diffuse, rowVars, queueVars,
     faultVars
<1>17. CASE TransientError
  BY <1>17, GenerationAssumption DEF TypeOK, CancelInv, Tokens, TransientError,
     RetriesLeft, Again, NextTry, Send, Leave, Put, rowVars
<1>18. CASE RetriesExhausted
  <2>1. slot \in Gen /\ slot' = NoGen /\ UNCHANGED <<request, messages, lost>>
    BY <1>18 DEF RetriesExhausted, TypeOK, SlotInv, Leave, queueVars
  <2>2. /\ \A q \in Gen : q # slot => gen'[q] = gen[q] /\ job'[q] = job[q]
        /\ job'[slot] # Gone => gen'[slot] = "failed" /\ job'[slot] = "failed"
        /\ gen[slot] \in {"deleted", "absent"} <=> gen'[slot] \in {"deleted",
           "absent"}
        /\ gen'[slot] \notin {"deleted", "absent"} => gen'[slot] = "failed"
        /\ gen[slot] = "deleted" <=> gen'[slot] = "deleted"
    BY <1>18, <2>1 DEF RetriesExhausted, Mark, MarkFinal, Gone, TypeOK, RowInv,
       Exists, Put
  <2>3. \A q \in Gen :
          Tokens(q) \in Nat /\ Tokens(q)' \in Nat /\ Tokens(q)' <= Tokens(q)
    BY <2>1, GenerationAssumption DEF Tokens, TypeOK
  <2>4. \A q \in Gen : q = slot => Tokens(q)' = 0
    <3>1. messages[slot] = 0 /\ lost[slot] = 0
      BY <2>1, TheTaskIsTheToken
    <3> QED  BY <2>1, <3>1, GenerationAssumption DEF Tokens
  <2>5. ASSUME NEW q \in Gen, request[q].kind \in {"cancel", "interrupt"},
               request[q].gen = "cancelled"
        PROVE  \/ gen'[q] \in {"cancelled", "deleted"}
               \/ gen'[q] = "failed" /\ Tokens(q)' = 0
    <3>1. CASE q = slot
      <4>1. gen[q] # "absent"
        BY <2>5 DEF RowInv
      <4> QED  BY <2>2, <2>4, <3>1, <4>1
    <3>2. CASE q # slot
      <4>1. gen'[q] = gen[q]
        BY <2>2, <3>2
      <4>2. Tokens(q) = 0 => Tokens(q)' = 0
        BY <2>3
      <4> QED  BY <2>5, <4>1, <4>2 DEF CancelInv
    <3> QED  BY <3>1, <3>2
  <2>6. \A q \in Gen : slot' # q
    BY <2>1, GenerationAssumption
  <2> QED
    BY <2>1, <2>5, <2>6 DEF CancelInv
<1>19. CASE CheckCancelled
  BY <1>19, GenerationAssumption DEF TypeOK, CancelInv, Tokens, CheckCancelled,
     Mark, MarkFinal, IsCancelled, Leave, Put, queueVars
<1>20. CASE Raised
  BY <1>20, GenerationAssumption DEF TypeOK, CancelInv, Tokens, Raised, Mark,
     MarkFinal, IsCancelled, Leave, Put, queueVars
<1>21. CASE Fail
  <2>1. slot \in Gen /\ slot' = NoGen /\ UNCHANGED <<request, messages, lost>>
    BY <1>21 DEF Fail, TypeOK, SlotInv, Leave, queueVars
  <2>2. /\ \A q \in Gen : q # slot => gen'[q] = gen[q] /\ job'[q] = job[q]
        /\ job'[slot] # Gone => gen'[slot] = "failed" /\ job'[slot] = "failed"
        /\ gen[slot] \in {"deleted", "absent"} <=> gen'[slot] \in {"deleted",
           "absent"}
        /\ gen'[slot] \notin {"deleted", "absent"} => gen'[slot] = "failed"
        /\ gen[slot] = "deleted" <=> gen'[slot] = "deleted"
    BY <1>21, <2>1 DEF Fail, MarkFailed, Mark, MarkFinal, Gone, TypeOK, RowInv,
       Exists, Put
  <2>3. \A q \in Gen :
          Tokens(q) \in Nat /\ Tokens(q)' \in Nat /\ Tokens(q)' <= Tokens(q)
    BY <2>1, GenerationAssumption DEF Tokens, TypeOK
  <2>4. \A q \in Gen : q = slot => Tokens(q)' = 0
    <3>1. messages[slot] = 0 /\ lost[slot] = 0
      BY <2>1, TheTaskIsTheToken
    <3> QED  BY <2>1, <3>1, GenerationAssumption DEF Tokens
  <2>5. ASSUME NEW q \in Gen, request[q].kind \in {"cancel", "interrupt"},
               request[q].gen = "cancelled"
        PROVE  \/ gen'[q] \in {"cancelled", "deleted"}
               \/ gen'[q] = "failed" /\ Tokens(q)' = 0
    <3>1. CASE q = slot
      <4>1. gen[q] # "absent"
        BY <2>5 DEF RowInv
      <4> QED  BY <2>2, <2>4, <3>1, <4>1
    <3>2. CASE q # slot
      <4>1. gen'[q] = gen[q]
        BY <2>2, <3>2
      <4>2. Tokens(q) = 0 => Tokens(q)' = 0
        BY <2>3
      <4> QED  BY <2>5, <4>1, <4>2 DEF CancelInv
    <3> QED  BY <3>1, <3>2
  <2>6. \A q \in Gen : slot' # q
    BY <2>1, GenerationAssumption
  <2> QED
    BY <2>1, <2>5, <2>6 DEF CancelInv
<1>22. CASE Persist
  BY <1>22 DEF CancelInv, Tokens, Persist, Kept, MarkFinal, Put, queueVars
<1>23. CASE Store
  BY <1>23 DEF TypeOK, CancelInv, Tokens, Store, Mark, MarkFinal, Exists, Put,
     queueVars
<1>24. CASE Acknowledge
  BY <1>24, GenerationAssumption DEF TypeOK, CancelInv, Tokens, Acknowledge, Leave,
     rowVars, queueVars
<1>25. CASE Crash
  BY <1>25, GenerationAssumption DEF TypeOK, CancelInv, Tokens, Crash, Leave, Put,
     rowVars
<1>26. CASE Kill
  BY <1>26, GenerationAssumption DEF TypeOK, CancelInv, Tokens, Kill, Leave,
     rowVars, queueVars
<1>27. CASE UNCHANGED vars
  BY <1>27 DEF TypeOK, Gone, CancelInv, Tokens, vars, rowVars, queueVars, slotVars,
     faultVars
<1> QED
  BY <1>1, <1>2, <1>3, <1>4, <1>5, <1>6, <1>7, <1>8, <1>9, <1>10, <1>11, <1>12,
     <1>13, <1>14, <1>15, <1>16, <1>17, <1>18, <1>19, <1>20, <1>21, <1>22, <1>23,
     <1>24, <1>25, <1>26, <1>27 DEF Next, People, Task

\* A task that has not committed yet is overtaken by people only.
LEMMA StepStarting ==
  ASSUME TypeOK, SlotInv, FailedInv, RetryInv, StartingInv, [Next]_vars
  PROVE  StartingInv'
<1>1. ASSUME NEW g \in Gen, Generate(g) PROVE StartingInv'
  BY <1>1 DEF TypeOK, Gone, StartingInv, Generate, Send, Put, slotVars, faultVars
<1>2. ASSUME NEW g \in Gen, CancelJob(g) PROVE StartingInv'
  BY <1>2 DEF TypeOK, Gone, StartingInv, CancelJob, Asks, PENDING_STATUSES, Put,
     rowVars, slotVars, faultVars
<1>3. ASSUME NEW g \in Gen, RetryJob(g) PROVE StartingInv'
  BY <1>3 DEF TypeOK, Gone, StartingInv, RetryJob, Asks, Send, Put, rowVars,
     slotVars, faultVars
<1>4. ASSUME NEW g \in Gen, DeleteGeneration(g) PROVE StartingInv'
  BY <1>4 DEF TypeOK, Gone, StartingInv, DeleteGeneration, Exists, Put, queueVars,
     slotVars, faultVars
<1>5. ASSUME NEW g \in Gen, Interrupt(g) PROVE StartingInv'
  BY <1>5 DEF TypeOK, Gone, StartingInv, Interrupt, rowVars, queueVars, faultVars
<1>6. ASSUME NEW g \in Gen, Commit(g) PROVE StartingInv'
  BY <1>6 DEF TypeOK, Gone, SlotInv, RetryInv, StartingInv, Commit, Overwrite, Put,
     rowVars, queueVars, slotVars, faultVars
<1>7. ASSUME NEW g \in Gen, Enter(g) PROVE StartingInv'
  BY <1>7 DEF SlotInv, FailedInv, RetryInv, StartingInv, Enter, Mark, MarkFinal,
     IsCancelled, Exists, Put, slotVars
<1>8. ASSUME NEW g \in Gen, Discard(g) PROVE StartingInv'
  BY <1>8 DEF StartingInv, Discard, Put, rowVars, slotVars
<1>9. ASSUME NEW g \in Gen, RestoreLost(g) PROVE StartingInv'
  BY <1>9 DEF TypeOK, Gone, StartingInv, RestoreLost, Send, Put, rowVars, slotVars,
     faultVars
<1>10. CASE BulkCancelPending
  BY <1>10 DEF TypeOK, Gone, SlotInv, StartingInv, BulkCancelPending, BulkCancel,
     PENDING_STATUSES, queueVars, slotVars, faultVars
<1>11. CASE CleanupTerminalJobs
  BY <1>11 DEF TypeOK, Gone, SlotInv, StartingInv, CleanupTerminalJobs, Cleanup,
     CLEANUP_STATUSES, queueVars, slotVars, faultVars
<1>12. CASE StartFails
  BY <1>12 DEF StartingInv, StartFails, Stale, Leave
<1>13. CASE NoWorkflow
  BY <1>13 DEF StartingInv, NoWorkflow, WriteBack, Stale, Overwrite, JobFails,
     MarkFinal, Leave, Put
<1>14. CASE Wait
  BY <1>14 DEF StartingInv, Wait, WriteBack, Stale, Overwrite, JobWaits,
     MarkUnlessFinal, RetriesLeft, Again, NextTry, Send, Leave, Put
<1>15. CASE Start
  BY <1>15 DEF StartingInv, Start, WriteBack, Stale, Overwrite, JobRuns,
     MarkUnlessFinal, Put
<1>16. CASE Diffuse
  BY <1>16 DEF TypeOK, Gone, StartingInv, Diffuse, rowVars, queueVars, faultVars
<1>17. CASE TransientError
  BY <1>17 DEF TypeOK, Gone, StartingInv, TransientError, RetriesLeft, Again,
     NextTry, Send, Leave, Put, rowVars, faultVars
<1>18. CASE RetriesExhausted
  BY <1>18 DEF TypeOK, Gone, StartingInv, RetriesExhausted, Mark, MarkFinal, Exists,
     Leave, Put, queueVars, faultVars
<1>19. CASE CheckCancelled
  BY <1>19 DEF TypeOK, Gone, StartingInv, CheckCancelled, Mark, MarkFinal,
     IsCancelled, Exists, Leave, Put, queueVars, faultVars
<1>20. CASE Raised
  BY <1>20 DEF TypeOK, Gone, StartingInv, Raised, Mark, MarkFinal, IsCancelled,
     Exists, Leave, Put, queueVars, faultVars
<1>21. CASE Fail
  BY <1>21 DEF TypeOK, Gone, StartingInv, Fail, MarkFailed, Mark, MarkFinal, Exists,
     Leave, Put, queueVars, faultVars
<1>22. CASE Persist
  BY <1>22 DEF StartingInv, Persist, Kept, MarkFinal, Put
<1>23. CASE Store
  BY <1>23 DEF StartingInv, Store, Mark, MarkFinal, Put
<1>24. CASE Acknowledge
  BY <1>24 DEF TypeOK, Gone, StartingInv, Acknowledge, Leave, rowVars, queueVars,
     faultVars
<1>25. CASE Crash
  BY <1>25 DEF TypeOK, Gone, StartingInv, Crash, Leave, Put, rowVars
<1>26. CASE Kill
  BY <1>26 DEF TypeOK, Gone, StartingInv, Kill, Leave, rowVars, queueVars
<1>27. CASE UNCHANGED vars
  BY <1>27 DEF TypeOK, Gone, StartingInv, vars, rowVars, queueVars, slotVars,
     faultVars
<1> QED
  BY <1>1, <1>2, <1>3, <1>4, <1>5, <1>6, <1>7, <1>8, <1>9, <1>10, <1>11, <1>12,
     <1>13, <1>14, <1>15, <1>16, <1>17, <1>18, <1>19, <1>20, <1>21, <1>22, <1>23,
     <1>24, <1>25, <1>26, <1>27 DEF Next, People, Task

\* A task that stores its result is overtaken by people only.
LEMMA StepStoring ==
  ASSUME TypeOK, SlotInv, TokenInv, RowInv, RetryInv, CancelInv, StoringInv,
     [Next]_vars
  PROVE  StoringInv'
<1>1. ASSUME NEW g \in Gen, Generate(g) PROVE StoringInv'
  BY <1>1 DEF StoringInv, Generate, Send, Put, slotVars
<1>2. ASSUME NEW g \in Gen, CancelJob(g) PROVE StoringInv'
  BY <1>2 DEF StoringInv, CancelJob, Asks, NoRequest, PENDING_STATUSES, Put,
     rowVars, slotVars
<1>3. ASSUME NEW g \in Gen, RetryJob(g) PROVE StoringInv'
  BY <1>3 DEF StoringInv, RetryJob, Asks, NoRequest, Send, Put, rowVars, slotVars
<1>4. ASSUME NEW g \in Gen, DeleteGeneration(g) PROVE StoringInv'
  BY <1>4 DEF StoringInv, DeleteGeneration, Put, slotVars
<1>5. ASSUME NEW g \in Gen, Interrupt(g) PROVE StoringInv'
  BY <1>5 DEF StoringInv, Interrupt, rowVars
<1>6. ASSUME NEW g \in Gen, Commit(g) PROVE StoringInv'
  BY <1>6 DEF TypeOK, SlotInv, RetryInv, StoringInv, Commit, Overwrite, NoRequest,
     Put, rowVars, slotVars
<1>7. ASSUME NEW g \in Gen, Enter(g) PROVE StoringInv'
  BY <1>7 DEF SlotInv, StoringInv, Enter, Mark, MarkFinal, IsCancelled, Put, slotVars
<1>8. ASSUME NEW g \in Gen, Discard(g) PROVE StoringInv'
  BY <1>8 DEF StoringInv, Discard, Put, rowVars, slotVars
<1>9. ASSUME NEW g \in Gen, RestoreLost(g) PROVE StoringInv'
  BY <1>9 DEF StoringInv, RestoreLost, Send, Put, rowVars, slotVars
<1>10. CASE BulkCancelPending
  BY <1>10 DEF TypeOK, SlotInv, StoringInv, BulkCancelPending, BulkCancel,
     PENDING_STATUSES, slotVars
<1>11. CASE CleanupTerminalJobs
  BY <1>11 DEF TypeOK, SlotInv, StoringInv, CleanupTerminalJobs, Cleanup,
     CLEANUP_STATUSES, slotVars
<1>12. CASE StartFails
  BY <1>12 DEF StoringInv, StartFails, Stale, Leave
<1>13. CASE NoWorkflow
  BY <1>13 DEF StoringInv, NoWorkflow, WriteBack, Stale, Overwrite, JobFails,
     MarkFinal, Leave, Put
<1>14. CASE Wait
  BY <1>14 DEF StoringInv, Wait, WriteBack, Stale, Overwrite, JobWaits,
     MarkUnlessFinal, RetriesLeft, Again, NextTry, Send, Leave, Put
<1>15. CASE Start
  BY <1>15 DEF StoringInv, Start, WriteBack, Stale, Overwrite, JobRuns,
     MarkUnlessFinal, Put
<1>16. CASE Diffuse
  BY <1>16 DEF StoringInv, Diffuse
<1>17. CASE TransientError
  BY <1>17 DEF StoringInv, TransientError, RetriesLeft, Again, NextTry, Send,
     Leave, Put
<1>18. CASE RetriesExhausted
  BY <1>18 DEF StoringInv, RetriesExhausted, Mark, MarkFinal, Leave, Put
<1>19. CASE CheckCancelled
  BY <1>19 DEF StoringInv, CheckCancelled, Mark, MarkFinal, IsCancelled, Leave, Put
<1>20. CASE Raised
  BY <1>20 DEF StoringInv, Raised, Mark, MarkFinal, IsCancelled, Leave, Put
<1>21. CASE Fail
  BY <1>21 DEF StoringInv, Fail, MarkFailed, Mark, MarkFinal, Leave, Put
<1>22. CASE Persist
  BY <1>22 DEF StoringInv, Persist, Kept, MarkFinal, Exists, Put
<1>23. CASE Store
  BY <1>23 DEF StoringInv, Store, Mark, MarkFinal, Put
<1>24. CASE Acknowledge
  BY <1>24 DEF StoringInv, Acknowledge, Leave
<1>25. CASE Crash
  BY <1>25 DEF StoringInv, Crash, Leave, Put
<1>26. CASE Kill
  BY <1>26 DEF StoringInv, Kill, Leave
<1>27. CASE UNCHANGED vars
  BY <1>27 DEF TypeOK, Stage, Gone, FINAL_STATUSES, Rows, SlotInv, TokenInv,
     RowInv, RetryInv, CancelInv, StoringInv, Exists, vars, rowVars, queueVars,
     slotVars, faultVars
<1> QED
  BY <1>1, <1>2, <1>3, <1>4, <1>5, <1>6, <1>7, <1>8, <1>9, <1>10, <1>11, <1>12,
     <1>13, <1>14, <1>15, <1>16, <1>17, <1>18, <1>19, <1>20, <1>21, <1>22, <1>23,
     <1>24, <1>25, <1>26, <1>27 DEF Next, People, Task

\* A task acknowledges what has ended.
LEMMA StepAck ==
  ASSUME TypeOK, SlotInv, RowInv, RetryInv, AckInv, [Next]_vars
  PROVE  AckInv'
<1>1. ASSUME NEW g \in Gen, Generate(g) PROVE AckInv'
  <2>1. UNCHANGED <<slot,
     at>> /\ \A q \in Gen : q # g => gen'[q] = gen[q] /\ job'[q] = job[q]
    BY <1>1 DEF Generate, Put, TypeOK, slotVars
  <2>2. slot # g
    BY <1>1 DEF Generate, RowInv, Tokens, TypeOK
  <2>3. at = "acking" => slot \in Gen
    BY DEF SlotInv, TypeOK
  <2> QED
    BY <2>1, <2>2, <2>3 DEF AckInv
<1>2. ASSUME NEW g \in Gen, CancelJob(g) PROVE AckInv'
  BY <1>2 DEF TypeOK, Gone, AckInv, CancelJob, Asks, PENDING_STATUSES, Put, rowVars,
     slotVars, faultVars
<1>3. ASSUME NEW g \in Gen, RetryJob(g) PROVE AckInv'
  BY <1>3 DEF TypeOK, Gone, AckInv, RetryJob, Asks, Send, Put, rowVars, slotVars,
     faultVars
<1>4. ASSUME NEW g \in Gen, DeleteGeneration(g) PROVE AckInv'
  BY <1>4 DEF TypeOK, Gone, AckInv, DeleteGeneration, Exists, Put, queueVars,
     slotVars, faultVars
<1>5. ASSUME NEW g \in Gen, Interrupt(g) PROVE AckInv'
  BY <1>5 DEF TypeOK, Gone, AckInv, Interrupt, rowVars, queueVars, faultVars
<1>6. ASSUME NEW g \in Gen, Commit(g) PROVE AckInv'
  BY <1>6 DEF TypeOK, Gone, FINAL_STATUSES, Ended, SlotInv, RetryInv, AckInv,
     Commit, Overwrite, Put, rowVars, queueVars, slotVars, faultVars
<1>7. ASSUME NEW g \in Gen, Enter(g) PROVE AckInv'
  BY <1>7 DEF TypeOK, Gone, SlotInv, AckInv, Enter, Mark, MarkFinal, IsCancelled,
     Exists, Put, slotVars, faultVars
<1>8. ASSUME NEW g \in Gen, Discard(g) PROVE AckInv'
  BY <1>8 DEF Ended, AckInv, Discard, Put, rowVars, slotVars
<1>9. ASSUME NEW g \in Gen, RestoreLost(g) PROVE AckInv'
  BY <1>9 DEF TypeOK, Gone, AckInv, RestoreLost, Send, Put, rowVars, slotVars,
     faultVars
<1>10. CASE BulkCancelPending
  BY <1>10 DEF TypeOK, Gone, FINAL_STATUSES, SlotInv, AckInv, BulkCancelPending,
     BulkCancel, PENDING_STATUSES, queueVars, slotVars, faultVars
<1>11. CASE CleanupTerminalJobs
  BY <1>11 DEF TypeOK, Gone, SlotInv, AckInv, CleanupTerminalJobs, Cleanup,
     CLEANUP_STATUSES, queueVars, slotVars, faultVars
<1>12. CASE StartFails
  BY <1>12 DEF Ended, AckInv, StartFails, Stale, Leave
<1>13. CASE NoWorkflow
  BY <1>13 DEF Ended, AckInv, NoWorkflow, WriteBack, Stale, Overwrite, JobFails,
     MarkFinal, Leave, Put
<1>14. CASE Wait
  BY <1>14 DEF Ended, AckInv, Wait, WriteBack, Stale, Overwrite, JobWaits,
     MarkUnlessFinal, RetriesLeft, Again, NextTry, Send, Leave, Put
<1>15. CASE Start
  BY <1>15 DEF Ended, AckInv, Start, WriteBack, Stale, Overwrite, JobRuns,
     MarkUnlessFinal, Put
<1>16. CASE Diffuse
  BY <1>16 DEF TypeOK, Gone, AckInv, Diffuse, rowVars, queueVars, faultVars
<1>17. CASE TransientError
  BY <1>17 DEF TypeOK, Gone, AckInv, TransientError, RetriesLeft, Again, NextTry,
     Send, Leave, Put, rowVars, faultVars
<1>18. CASE RetriesExhausted
  BY <1>18 DEF TypeOK, Gone, AckInv, RetriesExhausted, Mark, MarkFinal, Exists,
     Leave, Put, queueVars, faultVars
<1>19. CASE CheckCancelled
  BY <1>19 DEF TypeOK, Gone, AckInv, CheckCancelled, Mark, MarkFinal, IsCancelled,
     Exists, Leave, Put, queueVars, faultVars
<1>20. CASE Raised
  BY <1>20 DEF TypeOK, Gone, AckInv, Raised, Mark, MarkFinal, IsCancelled, Exists,
     Leave, Put, queueVars, faultVars
<1>21. CASE Fail
  BY <1>21 DEF TypeOK, Gone, AckInv, Fail, MarkFailed, Mark, MarkFinal, Exists,
     Leave, Put, queueVars, faultVars
<1>22. CASE Persist
  BY <1>22 DEF TypeOK, FINAL_STATUSES, Ended, SlotInv, RowInv, AckInv, Persist,
     Kept, MarkFinal, Put
<1>23. CASE Store
  BY <1>23 DEF TypeOK, FINAL_STATUSES, Ended, SlotInv, RowInv, AckInv, Store, Mark,
     MarkFinal, Put
<1>24. CASE Acknowledge
  BY <1>24 DEF TypeOK, Gone, AckInv, Acknowledge, Leave, rowVars, queueVars,
     faultVars
<1>25. CASE Crash
  BY <1>25 DEF TypeOK, Gone, AckInv, Crash, Leave, Put, rowVars
<1>26. CASE Kill
  BY <1>26 DEF TypeOK, Gone, AckInv, Kill, Leave, rowVars, queueVars
<1>27. CASE UNCHANGED vars
  BY <1>27 DEF TypeOK, Gone, AckInv, vars, rowVars, queueVars, slotVars, faultVars
<1> QED
  BY <1>1, <1>2, <1>3, <1>4, <1>5, <1>6, <1>7, <1>8, <1>9, <1>10, <1>11, <1>12,
     <1>13, <1>14, <1>15, <1>16, <1>17, <1>18, <1>19, <1>20, <1>21, <1>22, <1>23,
     <1>24, <1>25, <1>26, <1>27 DEF Next, People, Task

\* A generation and its job end together.
LEMMA StepTogether ==
  ASSUME TypeOK, QueuedInv, FailedInv, RetryInv, StartingInv, AckInv,
     FinishedTogether, [Next]_vars
  PROVE  FinishedTogether'
<1>1. ASSUME NEW g \in Gen, Generate(g) PROVE FinishedTogether'
  BY <1>1 DEF TypeOK, Gone, Ended, FinishedTogether, AtRest, Reachable, Generate,
     Send, Put, slotVars, faultVars
<1>2. ASSUME NEW g \in Gen, CancelJob(g) PROVE FinishedTogether'
  BY <1>2 DEF TypeOK, Gone, FinishedTogether, AtRest, Reachable, CancelJob, Asks,
     NoRequest, PENDING_STATUSES, Put, rowVars, slotVars, faultVars
<1>3. ASSUME NEW g \in Gen, RetryJob(g) PROVE FinishedTogether'
  BY <1>3 DEF TypeOK, Gone, FinishedTogether, AtRest, Reachable, RetryJob, Asks,
     NoRequest, Send, Put, rowVars, slotVars, faultVars
<1>4. ASSUME NEW g \in Gen, DeleteGeneration(g) PROVE FinishedTogether'
  BY <1>4 DEF TypeOK, Gone, FinishedTogether, AtRest, Reachable, DeleteGeneration,
     Exists, Put, queueVars, slotVars, faultVars
<1>5. ASSUME NEW g \in Gen, Interrupt(g) PROVE FinishedTogether'
  BY <1>5 DEF TypeOK, Gone, FinishedTogether, AtRest, Reachable, NoRequest,
     Interrupt, rowVars, queueVars, faultVars
<1>6. ASSUME NEW g \in Gen, Commit(g) PROVE FinishedTogether'
  BY <1>6 DEF TypeOK, Gone, FINAL_STATUSES, Ended, RetryInv, FinishedTogether,
     AtRest, Reachable, Commit, Overwrite, NoRequest, Put, rowVars, queueVars,
     slotVars, faultVars
<1>7. ASSUME NEW g \in Gen, Enter(g) PROVE FinishedTogether'
  BY <1>7, GenerationAssumption DEF TypeOK, FINAL_STATUSES, Ended,
     FinishedTogether, AtRest, Reachable, Enter, Mark, MarkFinal, IsCancelled,
     Exists, Put, faultVars
<1>8. ASSUME NEW g \in Gen, Discard(g) PROVE FinishedTogether'
  <2>1. /\ UNCHANGED <<gen, job, request, slot, lost>> /\ dropped \subseteq dropped'
        /\ \A q \in Gen : q # g => messages'[q] = messages[q]
    BY <1>8 DEF Discard, Put, TypeOK, rowVars, slotVars
  <2>2. ASSUME g \notin dropped', gen[g] \in Ended, job[g] # Gone,
     request[g] = NoRequest
        PROVE  job[g] \in FINAL_STATUSES \cup {"waiting_resource"}
    BY <1>8, <2>2 DEF Discard, QueuedInv, TypeOK, JobStatus, Ended, FINAL_STATUSES
  <2> QED
    BY <2>1, <2>2 DEF FinishedTogether, AtRest, Reachable
<1>9. ASSUME NEW g \in Gen, RestoreLost(g) PROVE FinishedTogether'
  BY <1>9 DEF TypeOK, Gone, FinishedTogether, AtRest, Reachable, RestoreLost, Send,
     Put, rowVars, slotVars, faultVars
<1>10. CASE BulkCancelPending
  BY <1>10 DEF TypeOK, Gone, FINAL_STATUSES, FinishedTogether, AtRest, Reachable,
     BulkCancelPending, BulkCancel, PENDING_STATUSES, queueVars, slotVars, faultVars
<1>11. CASE CleanupTerminalJobs
  BY <1>11 DEF TypeOK, Gone, FinishedTogether, AtRest, Reachable,
     CleanupTerminalJobs, Cleanup, CLEANUP_STATUSES, queueVars, slotVars, faultVars
<1>12. CASE StartFails
  BY <1>12 DEF Ended, FinishedTogether, AtRest, Reachable, NoRequest, StartFails,
     Stale, Exists, Leave, rowVars, queueVars, faultVars
<1>13. CASE NoWorkflow
  BY <1>13 DEF TypeOK, FINAL_STATUSES, Ended, FailedInv, StartingInv,
     FinishedTogether, AtRest, Reachable, NoRequest, NoWorkflow, WriteBack, Stale,
     Overwrite, JobFails, MarkFinal, Leave, Put, queueVars, faultVars
<1>14. CASE Wait
  BY <1>14 DEF TypeOK, FINAL_STATUSES, Ended, StartingInv, FinishedTogether,
     AtRest, Reachable, NoRequest, Wait, WriteBack, Stale, Overwrite, JobWaits,
     MarkUnlessFinal, RetriesLeft, Again, NextTry, Send, Leave, Put, faultVars
<1>15. CASE Start
  BY <1>15 DEF Ended, FinishedTogether, AtRest, Reachable, NoRequest, Start,
     WriteBack, Stale, Overwrite, JobRuns, MarkUnlessFinal, Put, queueVars, faultVars
<1>16. CASE Diffuse
  BY <1>16 DEF TypeOK, Gone, FinishedTogether, AtRest, Reachable, Diffuse, rowVars,
     queueVars, faultVars
<1>17. CASE TransientError
  BY <1>17 DEF TypeOK, Gone, FinishedTogether, AtRest, Reachable, TransientError,
     RetriesLeft, Again, NextTry, Send, Leave, Put, rowVars, faultVars
<1>18. CASE RetriesExhausted
  BY <1>18 DEF TypeOK, Gone, FINAL_STATUSES, FinishedTogether, AtRest, Reachable,
     RetriesExhausted, Mark, MarkFinal, Exists, Leave, Put, queueVars, faultVars
<1>19. CASE CheckCancelled
  BY <1>19 DEF TypeOK, Gone, FINAL_STATUSES, FinishedTogether, AtRest, Reachable,
     CheckCancelled, Mark, MarkFinal, IsCancelled, Exists, Leave, Put, queueVars,
     faultVars
<1>20. CASE Raised
  BY <1>20 DEF TypeOK, Gone, FINAL_STATUSES, FinishedTogether, AtRest, Reachable,
     Raised, Mark, MarkFinal, IsCancelled, Exists, Leave, Put, queueVars, faultVars
<1>21. CASE Fail
  BY <1>21 DEF TypeOK, Gone, FINAL_STATUSES, Ended, FinishedTogether, AtRest,
     Reachable, Fail, MarkFailed, Mark, MarkFinal, Exists, Leave, Put, queueVars,
     faultVars
<1>22. CASE Persist
  BY <1>22 DEF TypeOK, Ended, FinishedTogether, AtRest, Reachable, NoRequest,
     Persist, Kept, MarkFinal, Put, queueVars, faultVars
<1>23. CASE Store
  BY <1>23 DEF TypeOK, Ended, FinishedTogether, AtRest, Reachable, NoRequest,
     Store, Mark, MarkFinal, Put, queueVars, faultVars
<1>24. CASE Acknowledge
  BY <1>24 DEF TypeOK, Gone, AckInv, FinishedTogether, AtRest, Reachable,
     Acknowledge, Leave, rowVars, queueVars, faultVars
<1>25. CASE Crash
  BY <1>25 DEF TypeOK, Gone, FinishedTogether, AtRest, Reachable, Crash, Leave, Put,
     rowVars
<1>26. CASE Kill
  BY <1>26 DEF TypeOK, Gone, FinishedTogether, AtRest, Reachable, Kill, Leave,
     rowVars, queueVars
<1>27. CASE UNCHANGED vars
  BY <1>27 DEF TypeOK, Gone, FinishedTogether, AtRest, Reachable, vars, rowVars,
     queueVars, slotVars, faultVars
<1> QED
  BY <1>1, <1>2, <1>3, <1>4, <1>5, <1>6, <1>7, <1>8, <1>9, <1>10, <1>11, <1>12,
     <1>13, <1>14, <1>15, <1>16, <1>17, <1>18, <1>19, <1>20, <1>21, <1>22, <1>23,
     <1>24, <1>25, <1>26, <1>27 DEF Next, People, Task

\* A generation that runs has a task or a message.
LEMMA StepReachable ==
  ASSUME TypeOK, RetryInv, CancelInv, StartingInv, AckInv, RunningIsReachable,
     [Next]_vars
  PROVE  RunningIsReachable'
<1>1. ASSUME NEW g \in Gen, Generate(g) PROVE RunningIsReachable'
  BY <1>1 DEF TypeOK, Gone, RunningIsReachable, Reachable, Generate, Send, Put,
     slotVars, faultVars
<1>2. ASSUME NEW g \in Gen, CancelJob(g) PROVE RunningIsReachable'
  BY <1>2 DEF TypeOK, Gone, RunningIsReachable, Reachable, CancelJob, Asks,
     NoRequest, PENDING_STATUSES, Put, rowVars, slotVars, faultVars
<1>3. ASSUME NEW g \in Gen, RetryJob(g) PROVE RunningIsReachable'
  BY <1>3 DEF TypeOK, Gone, RunningIsReachable, Reachable, RetryJob, Asks,
     NoRequest, Send, Put, rowVars, slotVars, faultVars
<1>4. ASSUME NEW g \in Gen, DeleteGeneration(g) PROVE RunningIsReachable'
  BY <1>4 DEF TypeOK, Gone, RunningIsReachable, Reachable, DeleteGeneration, Exists,
     Put, queueVars, slotVars, faultVars
<1>5. ASSUME NEW g \in Gen, Interrupt(g) PROVE RunningIsReachable'
  BY <1>5 DEF TypeOK, Gone, RunningIsReachable, Reachable, NoRequest, Interrupt,
     rowVars, queueVars, faultVars
<1>6. ASSUME NEW g \in Gen, Commit(g) PROVE RunningIsReachable'
  BY <1>6 DEF TypeOK, Gone, RetryInv, CancelInv, RunningIsReachable, Reachable,
     Commit, Overwrite, NoRequest, Put, rowVars, queueVars, slotVars, faultVars
<1>7. ASSUME NEW g \in Gen, Enter(g) PROVE RunningIsReachable'
  BY <1>7, GenerationAssumption DEF TypeOK, RunningIsReachable, Reachable, Enter,
     Mark, MarkFinal, IsCancelled, Exists, Put, faultVars
<1>8. ASSUME NEW g \in Gen, Discard(g) PROVE RunningIsReachable'
  BY <1>8 DEF Ended, RunningIsReachable, Reachable, NoRequest, Discard, Put,
     rowVars, slotVars
<1>9. ASSUME NEW g \in Gen, RestoreLost(g) PROVE RunningIsReachable'
  BY <1>9 DEF TypeOK, Gone, RunningIsReachable, Reachable, RestoreLost, Send, Put,
     rowVars, slotVars, faultVars
<1>10. CASE BulkCancelPending
  BY <1>10 DEF TypeOK, Gone, RunningIsReachable, Reachable, BulkCancelPending,
     BulkCancel, PENDING_STATUSES, queueVars, slotVars, faultVars
<1>11. CASE CleanupTerminalJobs
  BY <1>11 DEF TypeOK, Gone, RunningIsReachable, Reachable, CleanupTerminalJobs,
     Cleanup, CLEANUP_STATUSES, queueVars, slotVars, faultVars
<1>12. CASE StartFails
  BY <1>12 DEF Ended, RunningIsReachable, Reachable, NoRequest, StartFails, Stale,
     Exists, Leave, rowVars, queueVars, faultVars
<1>13. CASE NoWorkflow
  BY <1>13 DEF TypeOK, Ended, StartingInv, RunningIsReachable, Reachable,
     NoRequest, NoWorkflow, WriteBack, Stale, Overwrite, JobFails, MarkFinal,
     Leave, Put, queueVars, faultVars
<1>14. CASE Wait
  BY <1>14 DEF TypeOK, Ended, StartingInv, RunningIsReachable, Reachable,
     NoRequest, Wait, WriteBack, Stale, Overwrite, JobWaits, MarkUnlessFinal,
     RetriesLeft, Again, NextTry, Send, Leave, Put, faultVars
<1>15. CASE Start
  BY <1>15 DEF Ended, RunningIsReachable, Reachable, NoRequest, Start, WriteBack,
     Stale, Overwrite, JobRuns, MarkUnlessFinal, Put, queueVars, faultVars
<1>16. CASE Diffuse
  BY <1>16 DEF TypeOK, Gone, RunningIsReachable, Reachable, Diffuse, rowVars,
     queueVars, faultVars
<1>17. CASE TransientError
  BY <1>17 DEF TypeOK, Gone, RunningIsReachable, Reachable, TransientError,
     RetriesLeft, Again, NextTry, Send, Leave, Put, rowVars, faultVars
<1>18. CASE RetriesExhausted
  BY <1>18 DEF TypeOK, Gone, RunningIsReachable, Reachable, RetriesExhausted, Mark,
     MarkFinal, Exists, Leave, Put, queueVars, faultVars
<1>19. CASE CheckCancelled
  BY <1>19 DEF TypeOK, Gone, RunningIsReachable, Reachable, CheckCancelled, Mark,
     MarkFinal, IsCancelled, Exists, Leave, Put, queueVars, faultVars
<1>20. CASE Raised
  BY <1>20 DEF TypeOK, Gone, RunningIsReachable, Reachable, Raised, Mark, MarkFinal,
     IsCancelled, Exists, Leave, Put, queueVars, faultVars
<1>21. CASE Fail
  BY <1>21 DEF TypeOK, Gone, RunningIsReachable, Reachable, Fail, MarkFailed, Mark,
     MarkFinal, Exists, Leave, Put, queueVars, faultVars
<1>22. CASE Persist
  BY <1>22 DEF TypeOK, Ended, RunningIsReachable, Reachable, NoRequest, Persist,
     Kept, MarkFinal, Put, queueVars, faultVars
<1>23. CASE Store
  BY <1>23 DEF TypeOK, Ended, RunningIsReachable, Reachable, NoRequest, Store,
     Mark, MarkFinal, Put, queueVars, faultVars
<1>24. CASE Acknowledge
  BY <1>24 DEF TypeOK, Gone, Ended, AckInv, RunningIsReachable, Reachable,
     Acknowledge, Leave, rowVars, queueVars, faultVars
<1>25. CASE Crash
  BY <1>25 DEF TypeOK, Gone, RunningIsReachable, Reachable, Crash, Leave, Put,
     rowVars
<1>26. CASE Kill
  BY <1>26 DEF TypeOK, Gone, RunningIsReachable, Reachable, Kill, Leave, rowVars,
     queueVars
<1>27. CASE UNCHANGED vars
  BY <1>27 DEF TypeOK, Gone, RunningIsReachable, Reachable, vars, rowVars,
     queueVars, slotVars, faultVars
<1> QED
  BY <1>1, <1>2, <1>3, <1>4, <1>5, <1>6, <1>7, <1>8, <1>9, <1>10, <1>11, <1>12,
     <1>13, <1>14, <1>15, <1>16, <1>17, <1>18, <1>19, <1>20, <1>21, <1>22, <1>23,
     <1>24, <1>25, <1>26, <1>27 DEF Next, People, Task

\* A step that brings no cancelled generation back, but by a task that read it
\* before.
NoRevival ==
  \A q \in Gen : gen[q] = "cancelled" /\ gen'[q] \in {"queued", "running", "done"}
                => slot = q /\ at \in {"starting",
                   "storing"} /\ seen.gen # "cancelled"

\* Who revives a cancelled generation.
LEMMA StepRevives ==
  ASSUME TypeOK, RetryInv, StartingInv, StoringInv, [Next]_vars
  PROVE  NoRevival
<1>1. ASSUME NEW g \in Gen, Generate(g) PROVE NoRevival
  BY <1>1 DEF NoRevival, TypeOK, Gone, Generate, Send, Put, slotVars, faultVars
<1>2. ASSUME NEW g \in Gen, CancelJob(g) PROVE NoRevival
  BY <1>2 DEF NoRevival, TypeOK, Gone, CancelJob, Asks, PENDING_STATUSES, Put,
     rowVars, slotVars, faultVars
<1>3. ASSUME NEW g \in Gen, RetryJob(g) PROVE NoRevival
  BY <1>3 DEF NoRevival, TypeOK, Gone, RetryJob, Asks, Send, Put, rowVars, slotVars,
     faultVars
<1>4. ASSUME NEW g \in Gen, DeleteGeneration(g) PROVE NoRevival
  BY <1>4 DEF NoRevival, TypeOK, Gone, DeleteGeneration, Exists, Put, queueVars,
     slotVars, faultVars
<1>5. ASSUME NEW g \in Gen, Interrupt(g) PROVE NoRevival
  BY <1>5 DEF NoRevival, TypeOK, Gone, Interrupt, rowVars, queueVars, faultVars
<1>6. ASSUME NEW g \in Gen, Commit(g) PROVE NoRevival
  BY <1>6 DEF NoRevival, TypeOK, Gone, RetryInv, Commit, Overwrite, Put, rowVars,
     queueVars, slotVars, faultVars
<1>7. ASSUME NEW g \in Gen, Enter(g) PROVE NoRevival
  BY <1>7 DEF NoRevival, TypeOK, Gone, Enter, Mark, MarkFinal, IsCancelled, Exists,
     Put, slotVars, faultVars
<1>8. ASSUME NEW g \in Gen, Discard(g) PROVE NoRevival
  BY <1>8 DEF NoRevival, Discard, Put, rowVars
<1>9. ASSUME NEW g \in Gen, RestoreLost(g) PROVE NoRevival
  BY <1>9 DEF NoRevival, TypeOK, Gone, RestoreLost, Send, Put, rowVars, slotVars,
     faultVars
<1>10. CASE BulkCancelPending
  BY <1>10 DEF NoRevival, TypeOK, Gone, BulkCancelPending, BulkCancel,
     PENDING_STATUSES, queueVars, slotVars, faultVars
<1>11. CASE CleanupTerminalJobs
  BY <1>11 DEF NoRevival, TypeOK, Gone, CleanupTerminalJobs, Cleanup,
     CLEANUP_STATUSES, queueVars, slotVars, faultVars
<1>12. CASE StartFails
  BY <1>12 DEF NoRevival, StartFails, Stale, Leave, rowVars
<1>13. CASE NoWorkflow
  BY <1>13 DEF NoRevival, NoWorkflow, WriteBack, Stale, Overwrite, JobFails,
     MarkFinal, Leave, Put
<1>14. CASE Wait
  BY <1>14 DEF NoRevival, StartingInv, Wait, WriteBack, Stale, Overwrite, JobWaits,
     MarkUnlessFinal, RetriesLeft, Again, NextTry, Send, Leave, Put
<1>15. CASE Start
  BY <1>15 DEF NoRevival, StartingInv, Start, WriteBack, Stale, Overwrite, JobRuns,
     MarkUnlessFinal, Put
<1>16. CASE Diffuse
  BY <1>16 DEF NoRevival, TypeOK, Gone, Diffuse, rowVars, queueVars, faultVars
<1>17. CASE TransientError
  BY <1>17 DEF NoRevival, TypeOK, Gone, TransientError, RetriesLeft, Again, NextTry,
     Send, Leave, Put, rowVars, faultVars
<1>18. CASE RetriesExhausted
  BY <1>18 DEF NoRevival, TypeOK, Gone, RetriesExhausted, Mark, MarkFinal, Exists,
     Leave, Put, queueVars, faultVars
<1>19. CASE CheckCancelled
  BY <1>19 DEF NoRevival, TypeOK, Gone, CheckCancelled, Mark, MarkFinal,
     IsCancelled, Exists, Leave, Put, queueVars, faultVars
<1>20. CASE Raised
  BY <1>20 DEF NoRevival, TypeOK, Gone, Raised, Mark, MarkFinal, IsCancelled,
     Exists, Leave, Put, queueVars, faultVars
<1>21. CASE Fail
  BY <1>21 DEF NoRevival, TypeOK, Gone, Fail, MarkFailed, Mark, MarkFinal, Exists,
     Leave, Put, queueVars, faultVars
<1>22. CASE Persist
  BY <1>22 DEF NoRevival, Persist, Kept, MarkFinal, Put
<1>23. CASE Store
  BY <1>23 DEF NoRevival, TypeOK, StoringInv, Store, Mark, MarkFinal, Put
<1>24. CASE Acknowledge
  BY <1>24 DEF NoRevival, TypeOK, Gone, Acknowledge, Leave, rowVars, queueVars,
     faultVars
<1>25. CASE Crash
  BY <1>25 DEF NoRevival, TypeOK, Gone, Crash, Leave, Put, rowVars
<1>26. CASE Kill
  BY <1>26 DEF NoRevival, TypeOK, Gone, Kill, Leave, rowVars, queueVars
<1>27. CASE UNCHANGED vars
  BY <1>27 DEF NoRevival, TypeOK, Gone, vars, rowVars, queueVars, slotVars,
     faultVars
<1> QED
  BY <1>1, <1>2, <1>3, <1>4, <1>5, <1>6, <1>7, <1>8, <1>9, <1>10, <1>11, <1>12,
     <1>13, <1>14, <1>15, <1>16, <1>17, <1>18, <1>19, <1>20, <1>21, <1>22, <1>23,
     <1>24, <1>25, <1>26, <1>27 DEF Next, People, Task

-----------------------------------------------------------------------------

LEMMA Invariance == GenerationSpec => []IInv
<1>1. Init => IInv
  <2> SUFFICES ASSUME Init PROVE IInv
    OBVIOUS
  <2>1. TypeOK
    BY GenerationAssumption DEF Init, TypeOK, GenStatus, Gone, Stage, Rows, NoRows,
       Request, NoRequest
  <2>2. SlotInv /\ TokenInv /\ RowInv
    BY GenerationAssumption DEF Init, SlotInv, TokenInv, RowInv, Tokens, NoRequest
  <2>3. QueuedInv /\ FailedInv /\ RetryInv /\ CancelInv
    BY DEF Init, QueuedInv, FailedInv, RetryInv, CancelInv, NoRequest, Gone
  <2>4. StartingInv /\ StoringInv /\ AckInv
    BY DEF Init, StartingInv, StoringInv, AckInv
  <2>5. FinishedTogether /\ RunningIsReachable
    BY DEF Init, FinishedTogether, RunningIsReachable, Ended
  <2> QED  BY <2>1, <2>2, <2>3, <2>4, <2>5 DEF IInv
<1>2. IInv /\ [Next]_vars => IInv'
  BY StepTypes, StepTokens, StepRows, StepQueued, StepFailed, StepRetry, StepCancel,
     StepStarting, StepStoring, StepAck, StepTogether, StepReachable DEF IInv
<1> QED  BY <1>1, <1>2, PTL DEF GenerationSpec

\* Every variable keeps its type; neither limit of retries is exceeded.
THEOREM TypeCorrect == GenerationSpec => []TypeOK
<1>1. IInv => TypeOK
  BY DEF IInv
<1> QED  BY <1>1, Invariance, PTL

\* Nothing that has ended is listed as waiting for its turn or running, but for the
\* exceptions FinishedTogether names (_mark_failed, _run, cancel_job).
THEOREM RowsFinishTogether == GenerationSpec => []FinishedTogether
<1>1. IInv => FinishedTogether
  BY DEF IInv
<1> QED  BY <1>1, Invariance, PTL

\* Nothing that is listed and reads running is forgotten, unless its process was
\* killed or its message thrown away as revoked (task_acks_late, self.retry).
THEOREM RunningGenerationsAreReachable == GenerationSpec => []RunningIsReachable
<1>1. IInv => RunningIsReachable
  BY DEF IInv
<1> QED  BY <1>1, Invariance, PTL

\* Only a task that had read its rows before a cancellation revives what was
\* cancelled (_run).
THEOREM OnlyStaleTasksRevive == GenerationSpec => OnlyAnEarlierReadRevives
<1>1. IInv /\ [Next]_vars =>
        [\A g \in Gen : gen[g] = "cancelled" /\ gen'[g] \in {"queued", "running",
           "done"}
           => slot = g /\ at \in {"starting",
              "storing"} /\ seen.gen # "cancelled"]_vars
  BY StepRevives DEF IInv, NoRevival
<1> QED  BY <1>1, Invariance, PTL DEF GenerationSpec, OnlyAnEarlierReadRevives
=============================================================================
