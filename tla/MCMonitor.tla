----------------------------- MODULE MCMonitor ------------------------------
(* Instances of Monitor: the policies TLC checks it under.                  *)
EXTENDS Monitor

Policy(conditions, authorised) ==
  [alertOn |-> conditions, quietAfter |-> 1, idleGrace |-> 1, noProgressAfter |-> 1,
   quietUntil |-> authorised, deadline |-> 2]

\* The terminal conditions alone, with a deadline that passes during the run.
AskExit == [t \in Targets |-> Policy({"exit", "observation_lost", "overdue"}, 0)]

\* The durations of a live session; of the first target, silence is authorised
\* until time 2.
AskSilence == [t \in Targets |-> Policy(Silences, IF t = "t1" THEN 2 ELSE 0)]
=============================================================================
