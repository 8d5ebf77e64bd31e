---------------------------- MODULE EffectPromise ----------------------------
(***************************************************************************)
(* What a work order promises of the effects of its steps, whatever its    *)
(* workers, leases, revisions and people do.  One attempt at a time holds  *)
(* a step's authority; a request leaves once and under it; a fenced        *)
(* recipient acts under it alone, in an open order; what is said of an     *)
(* attempt is true and final; a step is given again only where its last    *)
(* attempt is not said to have acted, and a new revision is made only when *)
(* nobody holds authority and nothing is unknown.                          *)
(***************************************************************************)
EXTENDS Naturals

CONSTANTS
  Revision, Key,
  Fenced,      \* keys whose recipient checks the authority
  Limit        \* attempts of a step

Step == Revision \X Key
Attempt == Step \X (1..Limit)
\* What may be said of an attempt.  "withdrawn": its step was taken from it
\* without a word about its call; "reconciled": a person's word, not checked.
Word == {"none", "happened", "absent", "answered", "unknown", "withdrawn", "reconciled"}

VARIABLES
  revision,    \* the plan revision in force
  open,        \* the order is being executed
  given,       \* attempts given authority over a step so far
  holder,      \* the attempt that has it, 0 for none
  sent,        \* attempts whose request left
  effects,     \* attempts whose recipient acted
  told         \* what is said of an attempt

effectVars == <<revision, open, given, holder, sent, effects, told>>

Last(s) == <<s, given[s]>>

Init ==
  /\ revision = 0 /\ open = FALSE
  /\ given = [s \in Step |-> 0] /\ holder = [s \in Step |-> 0]
  /\ sent = {} /\ effects = {} /\ told = [a \in Attempt |-> "none"]

Grant(s) ==
  /\ s[1] = revision /\ holder[s] = 0 /\ given[s] < Limit
  /\ given[s] > 0 => told[Last(s)] \in {"absent", "answered", "withdrawn"}
  /\ given' = [given EXCEPT ![s] = @ + 1]
  /\ holder' = [holder EXCEPT ![s] = given[s] + 1]
  /\ open' \in BOOLEAN /\ UNCHANGED <<revision, sent, effects, told>>

\* The heartbeat stays away: the authority is gone, and nothing is said yet.
Lapse(s) ==
  /\ holder[s] # 0 /\ holder' = [holder EXCEPT ![s] = 0]
  /\ UNCHANGED <<revision, open, given, sent, effects, told>>

RequestLeaves(a) ==
  /\ open /\ a[1][1] = revision /\ holder[a[1]] = a[2] /\ a \notin sent
  /\ sent' = sent \cup {a}
  /\ UNCHANGED <<revision, open, given, holder, effects, told>>

TakesEffect(a) ==
  /\ a \in sent \ effects /\ told[a] # "absent"
  /\ a[1][2] \in Fenced => open /\ a[1][1] = revision /\ holder[a[1]] = a[2]
  /\ effects' = effects \cup {a}
  /\ UNCHANGED <<revision, open, given, holder, sent, told>>

\* The one word said of an attempt, by its worker or by who takes over.
Tell(a, word) ==
  /\ a = Last(a[1]) /\ told[a] = "none"
  /\ word = "happened" => a \in effects
  /\ word = "absent" => a \notin effects
  /\ word = "answered" => a \in sent
  /\ told' = [told EXCEPT ![a] = word] /\ holder' = [holder EXCEPT ![a[1]] = 0]
  /\ open' \in BOOLEAN /\ UNCHANGED <<revision, given, sent, effects>>

Reconcile(a) ==
  /\ told[a] = "unknown" /\ told' = [told EXCEPT ![a] = "reconciled"]
  /\ UNCHANGED <<revision, open, given, holder, sent, effects>>

Renew ==
  /\ \A s \in Step : holder[s] = 0 /\ (given[s] > 0 => told[Last(s)] # "none")
  /\ \A a \in Attempt : told[a] # "unknown"
  /\ revision' = revision + 1
  /\ open' \in BOOLEAN /\ UNCHANGED <<given, holder, sent, effects, told>>

\* The order's status is not this promise's subject.
OpenOrClose ==
  /\ open' \in BOOLEAN
  /\ UNCHANGED <<revision, given, holder, sent, effects, told>>

Next ==
  \/ \E s \in Step : Grant(s) \/ Lapse(s)
  \/ \E a \in Attempt :
       \/ RequestLeaves(a) \/ TakesEffect(a) \/ Reconcile(a)
       \/ \E word \in Word \ {"none", "reconciled"} : Tell(a, word)
  \/ Renew \/ OpenOrClose

Spec == Init /\ [][Next]_effectVars
=============================================================================
