---------------------------- MODULE RetainedLog -----------------------------
(***************************************************************************)
(* What the event feed promises its consumers, whatever queries it is made *)
(* of: a log that only grows at its end and is only forgotten from its     *)
(* beginning, and consumers that get the next events of it in order, or    *)
(* are told that they fell behind.  Feed implements it.                    *)
(***************************************************************************)
EXTENDS Naturals, Sequences

CONSTANTS
  Entries,   \* what may be logged
  Readers,   \* consumers
  PageLimit  \* the most entries one answer holds

VARIABLES
  log,   \* every entry ever made
  base,  \* how many of them are forgotten
  pos,   \* pos[r]: how many entries consumer r is past
  mode   \* mode[r]: "lost" until told where the log is, "ready" to ask, "open" asking

vars == <<log, base, pos, mode>>

Init ==
  /\ log = <<>>
  /\ base = 0
  /\ pos = [r \in Readers |-> 0]
  /\ mode \in [Readers -> {"lost", "ready"}]

Record ==
  /\ log' \in Seq(Entries) /\ Len(log') = Len(log) + 1
  /\ SubSeq(log', 1, Len(log)) = log
  /\ UNCHANGED <<base, pos, mode>>

Forget ==
  /\ base' \in base..Len(log)
  /\ UNCHANGED <<log, pos, mode>>

\* Nothing was forgotten that the consumer has not seen.
Ask(r) ==
  /\ mode[r] = "ready" /\ pos[r] >= base
  /\ mode' = [mode EXCEPT ![r] = "open"]
  /\ UNCHANGED <<log, base, pos>>

\* The first entry the consumer can still be given.
Left(r) == IF pos[r] < base THEN base ELSE pos[r]

\* The next entries, as many as fit.  Only what was forgotten after the consumer
\* asked is missing from them.
Answer(r) ==
  /\ mode[r] = "open"
  /\ \E last \in (Left(r) + 1)..Len(log) :
       /\ last = Len(log) \/ last = Left(r) + PageLimit
       /\ last <= Left(r) + PageLimit
       /\ pos' = [pos EXCEPT ![r] = last]
  /\ mode' = [mode EXCEPT ![r] = "ready"]
  /\ UNCHANGED <<log, base>>

AnswerNothing(r) ==
  /\ mode[r] = "open" /\ Left(r) = Len(log)
  /\ mode' = [mode EXCEPT ![r] = "ready"]
  /\ UNCHANGED <<log, base, pos>>

\* Only a consumer that misses something is told so.
FallBehind(r) ==
  /\ mode[r] = "ready" /\ pos[r] < base
  /\ mode' = [mode EXCEPT ![r] = "lost"]
  /\ UNCHANGED <<log, base, pos>>

\* Never to a position before the one it had, nor past the end.
Resume(r) ==
  /\ mode[r] = "lost"
  /\ \E n \in pos[r]..Len(log) : pos' = [pos EXCEPT ![r] = n]
  /\ mode' = [mode EXCEPT ![r] = "ready"]
  /\ UNCHANGED <<log, base>>

\* Every request under way fails; its consumer keeps its position.
Interrupt ==
  /\ mode' = [r \in Readers |-> IF mode[r] = "open" THEN "ready" ELSE mode[r]]
  /\ UNCHANGED <<log, base, pos>>

Next ==
  \/ Record \/ Forget \/ Interrupt
  \/ \E r \in Readers : Ask(r) \/ Answer(r) \/ AnswerNothing(r) \/ FallBehind(r) \/ Resume(r)

Spec == Init /\ [][Next]_vars
=============================================================================
