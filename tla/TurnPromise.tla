----------------------------- MODULE TurnPromise -----------------------------
(***************************************************************************)
(* What a durable chat turn promises of its tool calls, whatever attempts, *)
(* revisions and recipients do: they leave one after the other, each at    *)
(* most once, a gated one only after its owner allowed it, and nothing     *)
(* leaves or takes effect after the answer, which is given when the        *)
(* outcome of every call that left is known.                               *)
(***************************************************************************)
EXTENDS Naturals

CONSTANTS
  Call,        \* calls of the turn
  Gated,       \* calls that need their owner's word
  Receipted    \* calls whose effect leaves a receipt

VARIABLES
  allowed,     \* gated calls their owner allowed
  sent,        \* how often a call left
  committed,   \* calls with an effect on record
  known,       \* calls that left and whose outcome the turn knows
  answered     \* the turn has its answer

turnVars == <<allowed, sent, committed, known, answered>>

Init ==
  /\ allowed = {} /\ sent = [c \in Call |-> 0]
  /\ committed = {} /\ known = {} /\ answered = FALSE

\* The owner's word stays.
Allow(c) ==
  /\ c \in Gated /\ allowed' = allowed \cup {c}
  /\ UNCHANGED <<sent, committed, known, answered>>

\* A call leaves once, and no other is outstanding then.
LeavesAlone(c) ==
  /\ ~answered /\ sent[c] = 0 /\ c \in Gated => c \in allowed
  /\ \A d \in Call : sent[d] > 0 => d \in known
  /\ sent' = [sent EXCEPT ![c] = 1]
  /\ UNCHANGED <<allowed, committed, known, answered>>

\* Its one effect: before its outcome is known and before the answer, or never.
TakesEffect(c) ==
  /\ ~answered /\ c \in Receipted \ committed /\ sent[c] = 1 /\ c \notin known
  /\ committed' = committed \cup {c}
  /\ UNCHANGED <<allowed, sent, known, answered>>

\* What is known of a call that left stays known.
Learn(S) ==
  /\ \A c \in S : sent[c] = 1
  /\ known' = known \cup S
  /\ UNCHANGED <<allowed, sent, committed, answered>>

Reply ==
  /\ ~answered /\ \A c \in Call : sent[c] > 0 => c \in known
  /\ answered' = TRUE
  /\ UNCHANGED <<allowed, sent, committed, known>>

Next ==
  \/ \E c \in Call : Allow(c) \/ LeavesAlone(c) \/ TakesEffect(c)
  \/ \E S \in SUBSET Call : Learn(S)
  \/ Reply

Spec == Init /\ [][Next]_turnVars
=============================================================================
