------------------------------- MODULE Policy -------------------------------
(***************************************************************************)
(* Which attention conditions hold of one target at one moment             *)
(* (policy.Evaluate).  A time of 0 is Go's zero time: never.               *)
(***************************************************************************)
EXTENDS Integers, Sequences, SequencesExt

\* In the order Evaluate considers them, which is the order they are opened in.
ConditionOrder == <<"exit", "observation_lost", "input_requested", "idle",
                    "no_progress", "quiet", "overdue">>

Conditions == ToSet(ConditionOrder)

\* Conditions about how long nothing happened, and conditions that are facts.
Silences == {"idle", "no_progress", "quiet"}

\* running_tool is treated exactly as active.  "" is a status not readable.
Statuses == {"", "active", "waiting_input", "idle", "exited"}

Observations == [live : BOOLEAN, status : Statuses, since : Nat, activity : Nat,
                 exitRecorded : BOOLEAN, floor : Nat]

Policies == [alertOn : SUBSET Conditions, quietAfter : Nat \ {0}, idleGrace : Nat,
             noProgressAfter : Nat, quietUntil : Nat, deadline : Nat]

LaterOf(a, b) == IF b > a THEN b ELSE a

SuppressedBy(p, now) == p.quietUntil # 0 /\ now < p.quietUntil

OverrideFloorNone(p, now) == 0

OverrideFloor(p, now) == IF p.quietUntil = 0 \/ now < p.quietUntil THEN 0 ELSE p.quietUntil

\* Where a duration that began at `time` is measured from.
From(time, obs, p, now) == LaterOf(time, LaterOf(OverrideFloor(p, now), obs.floor))

\* Any duration has passed since the zero time.
Reached(from, after, now) == from = 0 \/ now >= from + after
Exceeded(from, after, now) == from = 0 \/ now > from + after

Waiting(obs) == obs.live /\ obs.status = "waiting_input"
Working(obs) == obs.live /\ obs.status = "active"
Idle(obs, p, now) ==
  obs.live /\ obs.status = "idle" /\ Reached(From(obs.since, obs, p, now), p.idleGrace, now)

\* An idle session within its grace period explains nothing yet.
SilenceExplained(obs, p, now) ==
  obs.status = "exited" \/ Waiting(obs) \/ Working(obs) \/ Idle(obs, p, now)

Holds(c, obs, p, now) ==
  CASE c = "exit" -> obs.status = "exited"
    [] c = "observation_lost" -> obs.status # "exited" /\ ~obs.live
    [] c = "input_requested" -> Waiting(obs)
    [] c = "idle" -> Idle(obs, p, now) /\ ~SuppressedBy(p, now)
    [] c = "no_progress" ->
         /\ Working(obs) /\ p.noProgressAfter > 0 /\ obs.activity # 0
         /\ Exceeded(From(obs.activity, obs, p, now), p.noProgressAfter, now)
         /\ ~SuppressedBy(p, now)
    [] c = "quiet" ->
         /\ obs.live /\ ~SilenceExplained(obs, p, now)
         /\ Exceeded(From(obs.activity, obs, p, now), p.quietAfter, now)
         /\ ~SuppressedBy(p, now)
    [] c = "overdue" ->
         /\ obs.status # "exited" /\ ~obs.exitRecorded
         /\ p.deadline # 0 /\ now >= p.deadline

\* set: the conditions asked about are listed as they are considered, with the
\* ones that hold or with the ones that do not.
Opens(obs, p, now) ==
  LET opened[n \in 0..Len(ConditionOrder)] ==
        IF n = 0 THEN <<>>
        ELSE IF ConditionOrder[n] \in p.alertOn /\ Holds(ConditionOrder[n], obs, p, now)
        THEN Append(opened[n - 1], ConditionOrder[n]) ELSE opened[n - 1]
  IN  opened[Len(ConditionOrder)]

Closes(obs, p, now) == {c \in p.alertOn : ~Holds(c, obs, p, now)}
=============================================================================
